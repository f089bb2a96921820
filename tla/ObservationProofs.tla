------------------------- MODULE ObservationProofs --------------------------
(***************************************************************************)
(* Theorems about what is kept of what was observed: the heartbeats of     *)
(* workers, the parts of a chassis and the history of scores, for any      *)
(* number of replicas, collects, slots, requests and tasks; and about what *)
(* is computed from it: what a node affects, and the scores of services,   *)
(* for any topology, any alarms and any services.                          *)
(***************************************************************************)
EXTENDS Heartbeat, ChassisInventory, ScoreSnapshots, BlastRadius,
        ServiceScores, FiniteSetTheorems, SequenceTheorems,
        WellFoundedInduction, TLAPS

-----------------------------------------------------------------------------
(* Heartbeat.  A replica whose last heartbeat got through is at no stage   *)
(* of its loop for longer than the record allows for; and no record is     *)
(* written while no replica is up.                                         *)
Stage ==
  {"down", "starts", "starts_living", "works", "beats", "lives", "counts", "sleeps"}

LoopState == [at : Stage, until : Nat, ok : BOOLEAN]

BeatTypeOK ==
  /\ tick \in 0 .. MaxTicks
  /\ record \in [last : Nat \cup {Unknown}, dies : Nat]
  /\ loop \in [Replica -> LoopState]
  /\ heard \subseteq Replica
  /\ silent \in Nat

\* No tick goes by while a replica is to go on.
OnTime == \A w \in Replica : loop[w] # Down => tick <= loop[w].until

\* Between HSET and EXPIRE the record is as HSET left it.
Living == {w \in Replica : loop[w].at \in {"lives", "starts_living"}}

JustWritten(r) == r.last = tick /\ tick < r.dies

LivingFresh ==
  \A w \in Living : loop[w].until = tick /\ JustWritten(record)

\* The loop goes round in time, as StaleMeansDead presupposes.
GoesRound == Interval + MaxPass <= Expected * 3 /\ Interval + MaxPass < TimeToLive

\* How long after its heartbeat a replica may be at a stage.
Slack(stage) ==
  IF stage = "counts" THEN 0 ELSE IF stage = "sleeps" THEN Interval ELSE Interval + MaxPass

InTime(l, r) ==
  /\ r.last \in Nat
  /\ l.until <= r.last + Slack(l.at)
  /\ l.until + TimeToLive <= r.dies + Slack(l.at)

HeardInTime ==
  \A w \in heard : /\ loop[w].at \in {"works", "beats", "counts", "sleeps"}
                   /\ GoesRound => InTime(loop[w], record)

SilentSince ==
  /\ record.last <= tick
  /\ Up = {} => record.last <= silent
  /\ Up # {} => silent = NotYet

BeatInv == BeatTypeOK /\ OnTime /\ LivingFresh /\ HeardInTime /\ SilentSince

LEMMA BeatNumbers ==
  /\ Expected \in Nat /\ Interval \in Nat /\ Backoff \in Nat /\ MaxPass \in Nat
  /\ TimeToLive \in Nat /\ MaxTicks \in Nat /\ TimeToLive > 0 /\ Backoff <= Interval
  /\ NotYet \in Nat /\ NotYet > MaxTicks + TimeToLive /\ Unknown = -1
  BY HeartbeatAssumption DEF NotYet, Unknown

LEMMA Stages ==
  /\ {"down", "starts", "starts_living", "works"} \subseteq Stage
  /\ {"beats", "lives", "counts", "sleeps"} \subseteq Stage
  BY DEF Stage

LEMMA StateIs ==
  ASSUME NEW at \in Stage, NEW until \in Nat, NEW ok \in BOOLEAN
  PROVE  [at |-> at, until |-> until, ok |-> ok] \in LoopState
  BY DEF LoopState

LEMMA StateMoves ==
  ASSUME NEW l \in LoopState, NEW what, NEW until
  PROVE  [[l EXCEPT !.at = what] EXCEPT !.until = until]
           = [at |-> what, until |-> until, ok |-> l.ok]
<1>1. PICK moved : moved = [l EXCEPT !.at = what]
  OBVIOUS
<1>2. moved = [at |-> what, until |-> l.until, ok |-> l.ok]
  BY <1>1 DEF LoopState
<1>3. [moved EXCEPT !.until = until] = [at |-> what, until |-> until, ok |-> l.ok]
  BY <1>2
<1> QED
  BY <1>1, <1>3

LEMMA DownIs ==
  /\ Down.at = "down" /\ Down.until = 0 /\ Down.ok = TRUE
  /\ Down \in LoopState
  BY DEF Down, Stage, LoopState

LEMMA NotDownIsUp ==
  ASSUME NEW w \in Replica, loop[w].at # "down"
  PROVE  loop[w] # Down /\ w \in Up
  BY DownIs DEF Up

LEMMA BeatInitInv == BeatInit => BeatInv
<1> SUFFICES ASSUME BeatInit
             PROVE  BeatInv
  OBVIOUS
<1>1. BeatTypeOK
  BY BeatNumbers DEF BeatInit, BeatTypeOK, NoRecord, Down, Stage, LoopState
<1>2. \A w \in Replica : loop[w] = Down
  BY DEF BeatInit
<1>3. Up = {} /\ Living = {} /\ heard = {}
  BY <1>2 DEF Up, Living, Down, BeatInit
<1>4. record.last <= tick /\ record.last <= silent
  BY BeatNumbers DEF BeatInit, NoRecord
<1> QED
  BY <1>1, <1>2, <1>3, <1>4 DEF BeatInv, OnTime, LivingFresh, HeardInTime, SilentSince

(* Who is heard finds a record, provided that the loops go round in time.  *)
LEMMA HeardIsPresent ==
  ASSUME BeatInv, GoesRound, NEW w \in heard
  PROVE  Present /\ record.last \in Nat /\ tick <= record.last + Interval + MaxPass
<1>1. /\ loop[w] # Down /\ loop[w].until \in Nat /\ tick \in Nat /\ record.dies \in Nat
      /\ InTime(loop[w], record)
  BY DownIs, BeatNumbers DEF BeatInv, BeatTypeOK, HeardInTime, LoopState
<1>2. tick <= loop[w].until
  BY <1>1 DEF BeatInv, BeatTypeOK, OnTime
<1>3. Slack(loop[w].at) \in Nat /\ Slack(loop[w].at) <= Interval + MaxPass
  BY BeatNumbers DEF Slack
<1> QED
  BY <1>1, <1>2, <1>3, BeatNumbers DEF InTime, Present, GoesRound

(* No command of one replica takes from the record what another relies on. *)
Untouched(r) ==
  /\ r \in [last : Nat \cup {Unknown}, dies : Nat] /\ r.last <= tick
  /\ Living # {} => JustWritten(r)
  /\ GoesRound => \A w \in heard : InTime(loop[w], r)

LEMMA SlackIs ==
  /\ Slack("counts") = 0 /\ Slack("sleeps") = Interval
  /\ Slack("works") = Interval + MaxPass /\ Slack("beats") = Interval + MaxPass
  BY DEF Slack

LEMMA RecordKeeps ==
  ASSUME BeatInv, NEW r,
         \/ r = record \/ r = WithFields \/ r = WithLife
         \/ ~Present /\ r = [last |-> Unknown, dies |-> NotYet]
  PROVE  Untouched(r)
<1>1. /\ tick \in Nat /\ tick <= MaxTicks /\ record.last \in Nat \cup {Unknown}
      /\ record.dies \in Nat /\ record.last <= tick
      /\ record = [last |-> record.last, dies |-> record.dies]
  BY BeatNumbers DEF BeatInv, BeatTypeOK, SilentSince
<1>2. Living # {} => JustWritten(record)
  BY DEF BeatInv, LivingFresh
<1>3. GoesRound => \A w \in heard :
        /\ Present /\ InTime(loop[w], record)
        /\ loop[w].until \in Nat /\ Slack(loop[w].at) \in Nat
  BY HeardIsPresent, BeatNumbers DEF BeatInv, BeatTypeOK, LoopState, HeardInTime, Slack
<1>4. CASE r = record
  BY <1>1, <1>2, <1>3, <1>4 DEF Untouched
<1>5. CASE r = WithFields
  <2>1. r = [last |-> tick, dies |-> IF Present THEN record.dies ELSE NotYet]
    BY <1>5 DEF WithFields
  <2>2. r.last = tick /\ r.dies \in Nat /\ r.dies > tick
    BY <1>1, <2>1, BeatNumbers DEF Present
  <2>3. ASSUME GoesRound, NEW w \in heard
        PROVE  InTime(loop[w], r)
    BY <1>1, <1>3, <2>1, <2>3 DEF InTime
  <2> QED
    BY <1>1, <2>1, <2>2, <2>3 DEF Untouched, JustWritten
<1>6. CASE r = WithLife
  <2>1. r = [last |-> record.last, dies |-> tick + TimeToLive]
    BY <1>1, <1>6 DEF WithLife
  <2>2. Living # {} => JustWritten(r)
    BY <1>1, <1>2, <2>1, BeatNumbers DEF JustWritten
  <2>3. ASSUME GoesRound, NEW w \in heard
        PROVE  InTime(loop[w], r)
    BY <1>1, <1>3, <2>1, <2>3, BeatNumbers DEF InTime
  <2> QED
    BY <1>1, <2>1, <2>2, <2>3, BeatNumbers DEF Untouched
<1>7. CASE ~Present /\ r = [last |-> Unknown, dies |-> NotYet]
  <2>1. Living = {} /\ (GoesRound => heard = {})
    BY <1>1, <1>2, <1>3, <1>7 DEF Present, JustWritten
  <2> QED
    BY <1>1, <1>7, <2>1, BeatNumbers DEF Untouched
<1> QED
  BY <1>4, <1>5, <1>6, <1>7

(* A replica goes on to another stage.                                     *)
LEMMA LoopTurns ==
  ASSUME BeatInv, NEW w \in Replica, NEW l \in LoopState,
         loop' = [loop EXCEPT ![w] = l], UNCHANGED tick, Untouched(record'),
         l.at # "down", tick <= l.until,
         l.at \in {"lives", "starts_living"} => l.until = tick /\ JustWritten(record'),
         heard' \subseteq heard \cup {w},
         w \in heard' => /\ l.at \in {"works", "beats", "counts", "sleeps"}
                         /\ GoesRound => InTime(l, record'),
         silent' = NotYet \/ (w \in Up /\ UNCHANGED silent)
  PROVE  BeatInv'
<1>1. loop'[w] = l /\ \A v \in Replica \ {w} : loop'[v] = loop[v]
  BY DEF BeatInv, BeatTypeOK
<1>2. BeatTypeOK'
  BY BeatNumbers DEF BeatInv, BeatTypeOK, Untouched
<1>3. OnTime'
  BY <1>1 DEF BeatInv, OnTime
<1>4. LivingFresh'
  BY <1>1 DEF BeatInv, LivingFresh, Living, Untouched, JustWritten
<1>5. HeardInTime'
  <2>1. ASSUME NEW v \in heard'
        PROVE  /\ loop'[v].at \in {"works", "beats", "counts", "sleeps"}
               /\ GoesRound => InTime(loop'[v], record')
    <3>1. CASE v = w
      BY <1>1, <2>1, <3>1
    <3>2. CASE v # w
      <4>1. v \in heard /\ loop'[v] = loop[v]
        BY <1>1, <3>2 DEF BeatInv, BeatTypeOK
      <4> QED
        BY <4>1 DEF BeatInv, HeardInTime, Untouched
    <3> QED
      BY <3>1, <3>2
  <2> QED
    BY <2>1 DEF HeardInTime, InTime, Slack, GoesRound
<1>6. SilentSince'
  <2>1. w \in Up'
    BY <1>1, DownIs DEF Up
  <2>2. silent' = NotYet
    BY DEF BeatInv, SilentSince
  <2> QED
    BY <2>1, <2>2 DEF SilentSince, Untouched, NotYet
<1> QED
  BY <1>2, <1>3, <1>4, <1>5, <1>6 DEF BeatInv

LEMMA BecomesIs ==
  ASSUME BeatInv, NEW w \in Replica, NEW what \in Stage, NEW until \in Nat,
         Becomes(w, what, until)
  PROVE  /\ loop' = [loop EXCEPT ![w] = [at |-> what, until |-> until, ok |-> loop[w].ok]]
         /\ [at |-> what, until |-> until, ok |-> loop[w].ok]
              \in LoopState
<1>1. loop[w] \in LoopState /\ loop[w].ok \in BOOLEAN
  BY DEF BeatInv, BeatTypeOK, LoopState
<1>2. [[loop[w] EXCEPT !.at = what] EXCEPT !.until = until]
        = [at |-> what, until |-> until, ok |-> loop[w].ok]
  BY <1>1, StateMoves
<1> QED
  BY <1>1, <1>2, StateIs DEF Becomes, BeatInv, BeatTypeOK

LEMMA BeatFacts ==
  ASSUME BeatInv
  PROVE  /\ tick \in Nat /\ tick <= MaxTicks /\ tick + MaxPass \in Nat /\ tick <= tick + MaxPass
         /\ tick <= tick /\ record.dies \in Nat /\ record.last \in Nat \cup {Unknown}
         /\ \A w \in Replica : /\ loop[w] \in LoopState /\ loop[w].until \in Nat
                               /\ loop[w].at # "down" => w \in Up /\ tick <= loop[w].until
  BY BeatNumbers, NotDownIsUp DEF BeatInv, BeatTypeOK, LoopState, OnTime

LEMMA StartKeeps ==
  ASSUME BeatInv, NEW w \in Replica, Start(w)
  PROVE  BeatInv'
<1>1. PICK l : l = [at |-> "starts", until |-> tick, ok |-> TRUE]
  OBVIOUS
<1>2. l \in LoopState /\ l.at = "starts" /\ l.until = tick
  BY <1>1, BeatFacts, Stages, StateIs
<1>3. w \notin heard
  BY DownIs DEF Start, BeatInv, HeardInTime
<1>4. /\ Untouched(record') /\ UNCHANGED <<tick, heard>> /\ silent' = NotYet
      /\ loop' = [loop EXCEPT ![w] = l]
  BY <1>1, RecordKeeps DEF Start
<1>5. heard' \subseteq heard \cup {w} /\ w \notin heard'
  BY <1>3, <1>4
<1>6. tick <= l.until /\ UNCHANGED tick
  BY <1>2, <1>4, BeatFacts
<1>7. l.at # "down" /\ l.at \notin {"lives", "starts_living"}
  BY <1>2
<1> QED
  BY <1>2, <1>4, <1>5, <1>6, <1>7, LoopTurns

LEMMA EndPassKeeps ==
  ASSUME BeatInv, NEW w \in Replica, EndPass(w)
  PROVE  BeatInv'
<1>1. PICK ok \in BOOLEAN :
        loop' = [loop EXCEPT ![w] = [at |-> "beats", until |-> tick, ok |-> ok]]
  BY DEF EndPass
<1>2. PICK l : l = [at |-> "beats", until |-> tick, ok |-> ok]
  OBVIOUS
<1>3. l \in LoopState /\ l.at = "beats" /\ l.until = tick
  BY <1>2, BeatFacts, Stages, StateIs
<1>4. loop[w].at = "works" /\ UNCHANGED <<tick, record, heard, silent>>
  BY DEF EndPass
<1>5. /\ w \in Up /\ tick <= loop[w].until /\ loop[w].until \in Nat
      /\ Untouched(record')
  BY <1>4, BeatFacts, RecordKeeps
<1>6. w \in heard /\ GoesRound => InTime(l, record')
  BY <1>3, <1>4, <1>5, BeatFacts, BeatNumbers DEF BeatInv, HeardInTime, InTime, Slack
<1>7. loop' = [loop EXCEPT ![w] = l]
  BY <1>1, <1>2
<1> QED
  BY <1>3, <1>4, <1>5, <1>6, <1>7, BeatFacts, LoopTurns

LEMMA WakeKeeps ==
  ASSUME BeatInv, NEW w \in Replica, Wake(w)
  PROVE  BeatInv'
<1> DEFINE l == [at |-> "works", until |-> tick + MaxPass, ok |-> loop[w].ok]
<1>1. /\ tick \in Nat /\ tick + MaxPass \in Nat /\ tick <= tick + MaxPass
      /\ w \in Up /\ loop[w].until = tick /\ loop[w].at = "sleeps"
      /\ UNCHANGED <<tick, record, heard, silent>> /\ record.dies \in Nat
  BY BeatNumbers, NotDownIsUp DEF LoopState, Wake, BeatInv, BeatTypeOK
<1>2. l \in LoopState /\ loop' = [loop EXCEPT ![w] = l]
  BY <1>1, BecomesIs, Stages DEF Wake
<1>3. Untouched(record')
  BY <1>1, RecordKeeps
<1>4. w \in heard /\ GoesRound => InTime(l, record')
  BY <1>1, BeatNumbers DEF BeatInv, HeardInTime, InTime, Slack
<1> QED
  BY <1>1, <1>2, <1>3, <1>4, LoopTurns

(* What follows a heartbeat, heard or not.                                 *)
LEMMA AfterBeatKeeps ==
  ASSUME BeatInv, NEW w \in Replica, AfterBeat(w), UNCHANGED <<tick, silent>>,
         loop[w].at \in {"starts", "beats", "starts_living", "lives"},
         Untouched(record'), heard' \subseteq heard \cup {w},
         w \in heard' => record'.last = tick /\ record'.dies = tick + TimeToLive
  PROVE  BeatInv'
<1>1. tick \in Nat /\ tick + MaxPass \in Nat /\ tick <= tick + MaxPass /\ w \in Up
  BY BeatFacts
<1>2. ASSUME NEW what \in {"works", "counts"}, NEW until \in Nat,
             Becomes(w, what, until), tick <= until,
             \/ what = "works" /\ until = tick + MaxPass
             \/ what = "counts" /\ until = tick
      PROVE  BeatInv'
  <2> DEFINE l == [at |-> what, until |-> until, ok |-> loop[w].ok]
  <2>1. l \in LoopState /\ loop' = [loop EXCEPT ![w] = l]
    BY <1>2, BecomesIs, Stages
  <2>2. ASSUME w \in heard'
        PROVE  InTime(l, record')
    <3>1. l.at = what /\ l.until = until /\ record'.last = tick
      BY <2>2
    <3>2. record'.dies = tick + TimeToLive
      BY <2>2
    <3>3. Slack(what) \in Nat /\ until <= tick + Slack(what)
      <4>0. tick \in Nat /\ Interval \in Nat /\ MaxPass \in Nat
        BY <1>1, BeatNumbers
      <4>1. CASE what = "works" /\ until = tick + MaxPass
        <5>1. Slack(what) = Interval + MaxPass
          BY <4>1, SlackIs
        <5> QED
          BY <4>0, <4>1, <5>1
      <4>2. CASE what = "counts" /\ until = tick
        <5>1. Slack(what) = 0
          BY <4>2, SlackIs
        <5> QED
          BY <4>0, <4>2, <5>1
      <4> QED
        BY <1>2, <4>1, <4>2
    <3>4. until + TimeToLive <= tick + TimeToLive + Slack(what)
      <4>1. TimeToLive \in Nat /\ tick \in Nat /\ until \in Nat
        BY <1>1, BeatNumbers
      <4> QED
        BY <3>3, <4>1
    <3> HIDE DEF l
    <3> QED
      BY <1>1, <3>1, <3>2, <3>3, <3>4 DEF InTime
  <2> QED
    BY <1>1, <1>2, <2>1, <2>2, LoopTurns
<1>3. CASE Becomes(w, "works", tick + MaxPass)
  BY <1>1, <1>2, <1>3
<1>4. CASE Becomes(w, "counts", tick)
  BY <1>2, <1>4, BeatFacts
<1> QED
  BY <1>3, <1>4 DEF AfterBeat

LEMMA SetFieldsKeeps ==
  ASSUME BeatInv, NEW w \in Replica, SetFields(w)
  PROVE  BeatInv'
<1>1. PICK what \in {"starts_living", "lives"} : Becomes(w, what, tick)
  BY DEF SetFields
<1>2. PICK l : l = [at |-> what, until |-> tick, ok |-> loop[w].ok]
  OBVIOUS
<1>3. /\ loop[w].at \in {"starts", "beats"} /\ record' = WithFields
      /\ UNCHANGED <<tick, silent>> /\ heard' = heard \ {w}
  BY DEF SetFields
<1>4. w \in Up /\ Untouched(record')
  BY <1>3, BeatFacts, RecordKeeps
<1>5. l \in LoopState /\ loop' = [loop EXCEPT ![w] = l]
  BY <1>1, <1>2, BeatFacts, BecomesIs, Stages
<1>6. l.at = what /\ l.until = tick
  BY <1>2
<1>7. JustWritten(record')
  <2>1. record'.last = tick /\ record'.dies = IF Present THEN record.dies ELSE NotYet
    BY <1>3 DEF WithFields
  <2>2. tick < IF Present THEN record.dies ELSE NotYet
    <3>1. tick \in Nat /\ tick <= MaxTicks /\ record.dies \in Nat
      BY BeatFacts
    <3>2. MaxTicks \in Nat /\ NotYet \in Nat /\ NotYet > MaxTicks
      BY BeatNumbers
    <3>3. CASE Present
      BY <3>1, <3>3 DEF Present
    <3>4. CASE ~Present
      BY <3>1, <3>2, <3>4
    <3> QED
      BY <3>3, <3>4
  <2> QED
    BY <2>1, <2>2 DEF JustWritten
<1> QED
  BY <1>1, <1>3, <1>4, <1>5, <1>6, <1>7, BeatFacts, LoopTurns

LEMMA ExpireKeeps ==
  ASSUME BeatInv, NEW w \in Replica, Expire(w)
  PROVE  BeatInv'
<1>1. /\ record' = WithLife /\ AfterBeat(w) /\ UNCHANGED <<tick, silent>>
      /\ heard' = heard \cup {w} /\ loop[w].at \in {"starts_living", "lives"}
  BY DEF Expire
<1>2. record.last = tick
  BY <1>1 DEF BeatInv, LivingFresh, Living, JustWritten
<1>3. record'.last = tick /\ record'.dies = tick + TimeToLive
  BY <1>1, <1>2 DEF WithLife, BeatInv, BeatTypeOK
<1> QED
  BY <1>1, <1>3, RecordKeeps, AfterBeatKeeps

LEMMA BeatFailsKeeps ==
  ASSUME BeatInv, NEW w \in Replica, BeatFails(w)
  PROVE  BeatInv'
  BY RecordKeeps, AfterBeatKeeps DEF BeatFails

LEMMA CountRunKeeps ==
  ASSUME BeatInv, NEW w \in Replica, CountRun(w)
  PROVE  BeatInv'
<1> DEFINE until == tick + IF loop[w].ok THEN Interval ELSE Backoff
           l == [at |-> "sleeps", until |-> until, ok |-> loop[w].ok]
<1>1. /\ tick \in Nat /\ w \in Up /\ loop[w].at = "counts"
      /\ tick <= loop[w].until /\ loop[w].until \in Nat
      /\ UNCHANGED <<tick, heard, silent>> /\ Becomes(w, "sleeps", until)
      /\ record.dies \in Nat
  BY NotDownIsUp, BeatNumbers DEF LoopState, CountRun, BeatInv, BeatTypeOK, OnTime
<1>2. until \in Nat /\ tick <= until /\ until <= tick + Interval
  BY <1>1, BeatNumbers
<1> HIDE DEF until
<1>3. l \in LoopState /\ loop' = [loop EXCEPT ![w] = l]
  BY <1>1, <1>2, BecomesIs, Stages
<1>4. \/ record' = record
      \/ ~Present /\ record' = [last |-> Unknown, dies |-> NotYet]
  BY DEF CountRun
<1>5. Untouched(record')
  BY <1>4, RecordKeeps
<1>6. w \in heard /\ GoesRound => InTime(l, record')
  <2> SUFFICES ASSUME w \in heard, GoesRound
               PROVE  InTime(l, record')
    OBVIOUS
  <2>1. record' = record
    BY <1>4, HeardIsPresent
  <2>2. InTime(loop[w], record)
    BY DEF BeatInv, HeardInTime
  <2> QED
    BY <1>1, <1>2, <2>1, <2>2, BeatNumbers DEF InTime, Slack
<1> QED
  BY <1>1, <1>2, <1>3, <1>5, <1>6, LoopTurns

LEMMA BeatCrashKeeps ==
  ASSUME BeatInv, NEW w \in Replica, Crash(w)
  PROVE  BeatInv'
<1>1. /\ loop' = [loop EXCEPT ![w] = Down] /\ heard' = heard \ {w} /\ w \in Up
      /\ silent' = (IF Up = {w} THEN tick ELSE NotYet) /\ UNCHANGED <<tick, record>>
  BY DEF Crash
<1>2. loop'[w] = Down /\ \A v \in Replica \ {w} : loop'[v] = loop[v]
  BY <1>1 DEF BeatInv, BeatTypeOK
<1>3. BeatTypeOK'
  BY <1>1, BeatNumbers, DownIs DEF BeatInv, BeatTypeOK
<1>4. OnTime' /\ LivingFresh'
  BY <1>1, <1>2, DownIs DEF BeatInv, OnTime, LivingFresh, Living, JustWritten
<1>5. HeardInTime'
  BY <1>1, <1>2 DEF BeatInv, BeatTypeOK, HeardInTime, InTime, Slack, GoesRound
<1>6. SilentSince'
  <2>1. Up' = Up \ {w}
    BY <1>2 DEF Up
  <2> QED
    BY <1>1, <2>1 DEF BeatInv, SilentSince, NotYet
<1> QED
  BY <1>3, <1>4, <1>5, <1>6 DEF BeatInv

LEMMA BeatTickKeeps ==
  ASSUME BeatInv, BeatTick
  PROVE  BeatInv'
<1>1. /\ tick < MaxTicks /\ tick' = tick + 1 /\ UNCHANGED <<record, loop, heard, silent>>
      /\ \A w \in Replica : loop[w] # Down => tick < loop[w].until
      /\ tick \in Nat /\ record.last \in Nat \cup {Unknown}
      /\ \A w \in Replica : loop[w].until \in Nat
  BY BeatNumbers DEF BeatTick, Up, BeatInv, BeatTypeOK, LoopState
<1>2. BeatTypeOK' /\ OnTime'
  BY <1>1, BeatNumbers DEF BeatInv, BeatTypeOK, OnTime
<1>3. LivingFresh'
  <2>1. \A w \in Living : w \in Replica /\ loop[w] # Down /\ loop[w].until = tick
    BY NotDownIsUp DEF BeatInv, LivingFresh, Living
  <2>2. Living = {}
    BY <1>1, <2>1
  <2> QED
    BY <1>1, <2>2 DEF LivingFresh, Living
<1>4. HeardInTime'
  BY <1>1 DEF BeatInv, HeardInTime, InTime, Slack, GoesRound
<1>5. SilentSince'
  BY <1>1, BeatNumbers DEF BeatInv, SilentSince, Up, NotYet
<1> QED
  BY <1>2, <1>3, <1>4, <1>5 DEF BeatInv

LEMMA BeatStepInv == BeatInv /\ [BeatNext]_beat_vars => BeatInv'
<1> SUFFICES ASSUME BeatInv, [BeatNext]_beat_vars
             PROVE  BeatInv'
  OBVIOUS
<1>1. CASE UNCHANGED beat_vars
  BY <1>1 DEF beat_vars, BeatInv, BeatTypeOK, OnTime, LivingFresh, Living, JustWritten,
     HeardInTime, InTime, Slack, GoesRound, SilentSince, Up, NotYet
<1> QED
  BY <1>1, BeatTickKeeps, StartKeeps, EndPassKeeps, WakeKeeps, BeatCrashKeeps,
     SetFieldsKeeps, ExpireKeeps, BeatFailsKeeps, CountRunKeeps DEF BeatNext

(* A replica that is up, and whose last heartbeat got through, is not      *)
(* flagged as stale, whatever the replicas it shares the record with do;   *)
(* and a worker of which no replica has been up for long is                *)
(* (heartbeat.py).                                                         *)
THEOREM HeartbeatStaleMeansDead == BeatSpec => []StaleMeansDead
<1>1. BeatInv => StaleMeansDead
  <2> SUFFICES ASSUME BeatInv
               PROVE  StaleMeansDead
    OBVIOUS
  <2>1. tick \in Nat /\ silent \in Nat /\ record.last \in Nat \cup {Unknown}
        /\ tick <= MaxTicks
    BY BeatNumbers DEF BeatInv, BeatTypeOK
  <2>2. ASSUME GoesRound, heard # {}
        PROVE  ~IsStale
    <3>1. PICK w \in heard : TRUE
      BY <2>2
    <3>2. Present /\ record.last \in Nat /\ tick <= record.last + Interval + MaxPass
      BY <2>2, <3>1, HeardIsPresent
    <3>3. Current = record
      BY <2>1, <3>2 DEF Current, Present, BeatInv, BeatTypeOK
    <3> QED
      BY <2>1, <2>2, <3>2, <3>3, BeatNumbers DEF IsStale, GoesRound
  <2>3. ASSUME tick - silent > Expected * 3
        PROVE  IsStale
    <3>1. Expected * 3 \in Nat
      BY BeatNumbers
    <3>2. silent # NotYet
      BY <2>1, <2>3, <3>1, BeatNumbers
    <3>3. record.last <= silent
      BY <3>2 DEF BeatInv, SilentSince
    <3>4. Current.last \in {Unknown, record.last}
      BY DEF Current, NoRecord
    <3> QED
      BY <2>1, <2>3, <3>1, <3>3, <3>4, BeatNumbers DEF IsStale
  <2> QED
    BY <2>2, <2>3 DEF StaleMeansDead, GoesRound
<1> QED
  BY BeatInitInv, BeatStepInv, <1>1, PTL DEF BeatSpec

-----------------------------------------------------------------------------
(* ChassisInventory.  All collects that are under way go by the same       *)
(* earliest one, so what any of them read is no older than that; and what  *)
(* is stored is what a collect has read there when it began, or later, or  *)
(* was written since by another one.                                       *)
Age     == Nat \cup {Nothing}
PartRow == [Columns -> Age]
PartRows == UNION {[D -> PartRow] : D \in SUBSET Slot}
Table   == [Slot -> PartRow \cup {Nothing}]

WalkTask ==
  [at : {"walks", "walked"}, column : Nat, rows : PartRows, since : [Slot -> Nat],
   table : Table, listed : PartRows \cup {Nothing}]
ReadTask ==
  [at : {"read"}, rows : PartRows, since : [Slot -> Nat], table : Table,
   listed : PartRows \cup {Nothing}]

ChassisTypeOK ==
  /\ part \in [Slot -> Nat \cup {NoPart}]
  /\ parts \in [Slot -> Nat]
  /\ table \in Table
  /\ listed \in PartRows \cup {Nothing}
  /\ collect \in [Collect -> {NoCollect} \cup WalkTask \cup ReadTask]
  /\ oldest \in [Slot -> Nat]

\* Values of columns that are none, or no older than n.
From(n) == {Nothing} \cup {v \in Nat : v >= n}

PartsGrow == \A s \in Slot : part[s] \in {NoPart, parts[s]}

OneSince ==
  \A c, d \in Collect : Collecting(c) /\ Collecting(d) =>
    collect[c].since = collect[d].since

SinceReached ==
  \A c \in Collect : Collecting(c) => \A s \in Slot : collect[c].since[s] <= parts[s]

RowsFrom(rows, since) ==
  \A s \in DOMAIN rows, k \in Columns : rows[s][k] \in From(since[s])

RowsFresh ==
  \A c \in Collect : Collecting(c) => RowsFrom(collect[c].rows, collect[c].since)

TableFresh ==
  \A s \in Slot : table[s] # Nothing => \A k \in Columns : table[s][k] \in From(oldest[s])

\* A collect that began at since may have base of what is stored.
GoodBase(base, since) ==
  \A s \in Slot : table[s] # Nothing => \A k \in Columns :
    \/ table[s][k] \in From(since[s])
    \/ base[s] # Nothing /\ table[s][k] = base[s][k]

StoredFresh ==
  \A c \in Collect : Collecting(c) => GoodBase(collect[c].table, collect[c].since)

ListStored ==
  \A s \in Slot : listed # Nothing /\ s \in DOMAIN listed => table[s] # Nothing

Freshness == TableFresh /\ StoredFresh /\ ListStored

ChassisInv ==
  /\ ChassisTypeOK
  /\ PartsGrow /\ OneSince /\ SinceReached /\ RowsFresh
  /\ Freshness

LEMMA RowIsSomething == Nothing \notin PartRow /\ Nothing \notin Nat /\ NoPart \notin Nat
  BY ChassisAssumption DEF PartRow, Age

LEMMA NoRows == << >> \in PartRows /\ DOMAIN << >> = {}
<1>1. << >> \in [{} -> PartRow]
  OBVIOUS
<1>2. {} \in SUBSET Slot
  OBVIOUS
<1> HIDE DEF PartRow
<1> QED
  BY <1>1, <1>2 DEF PartRows

LEMMA RowsTyped ==
  ASSUME NEW r
  PROVE  r \in PartRows <=> DOMAIN r \in SUBSET Slot /\ r \in [DOMAIN r -> PartRow]
  BY DEF PartRows

LEMMA ChassisInitInv == ChassisInit => ChassisInv
  BY DEF ChassisInit, ChassisInv, ChassisTypeOK, PartsGrow, OneSince, SinceReached,
     RowsFresh, Freshness, TableFresh, StoredFresh, GoodBase, ListStored, Collecting, Table

(* The parts change, and no more than grow in number.                      *)
LEMMA PartKeeps ==
  ASSUME ChassisInv, NEW s \in Slot, InsertPart(s) \/ PullPart(s)
  PROVE  ChassisInv'
<1>1. UNCHANGED <<table, listed, collect, oldest>>
  BY DEF InsertPart, PullPart
<1>2. /\ part' \in [Slot -> Nat \cup {NoPart}] /\ parts' \in [Slot -> Nat]
      /\ \A z \in Slot : part'[z] \in {NoPart, parts'[z]} /\ parts'[z] >= parts[z]
  BY DEF InsertPart, PullPart, ChassisInv, ChassisTypeOK, PartsGrow
<1>3. ChassisTypeOK' /\ PartsGrow' /\ OneSince' /\ RowsFresh'
  BY <1>1, <1>2 DEF ChassisInv, ChassisTypeOK, PartsGrow, OneSince, RowsFresh, Collecting
<1>4. SinceReached'
  <2>1. ASSUME NEW c \in Collect, Collecting(c)', NEW z \in Slot
        PROVE  collect'[c].since[z] <= parts'[z]
    <3>1. collect'[c] = collect[c] /\ Collecting(c)
      BY <1>1, <2>1 DEF Collecting
    <3>2. collect[c].since[z] \in Nat /\ collect[c].since[z] <= parts[z]
      BY <3>1 DEF ChassisInv, ChassisTypeOK, SinceReached, WalkTask, ReadTask, Collecting
    <3> QED
      BY <3>1, <3>2, <1>2 DEF ChassisInv, ChassisTypeOK
  <2> QED
    BY <2>1 DEF SinceReached
<1>5. Freshness'
  BY <1>1 DEF ChassisInv, Freshness, TableFresh, StoredFresh, GoodBase, ListStored, Collecting
<1> QED
  BY <1>3, <1>4, <1>5 DEF ChassisInv

(* A collect that goes on is as it was to the others, and what it has read *)
(* is no older than the earliest.                                          *)
LEMMA TurnKeeps ==
  ASSUME ChassisInv, NEW c \in Collect, NEW what \in WalkTask \cup ReadTask,
         Turn(c, what), UNCHANGED <<part, parts, table, listed, oldest>>,
         \A d \in Collect : Collecting(d) => collect[d].since = what.since,
         \A s \in Slot : what.since[s] <= parts[s],
         RowsFrom(what.rows, what.since), GoodBase(what.table, what.since)
  PROVE  ChassisInv'
<1>1. collect' = [collect EXCEPT ![c] = what]
  BY DEF Turn
<1>2. ASSUME NEW d \in Collect, Collecting(d)'
      PROVE  \/ d = c /\ collect'[d] = what
             \/ d # c /\ collect'[d] = collect[d] /\ Collecting(d)
  BY <1>1, <1>2 DEF ChassisInv, ChassisTypeOK, Collecting
<1>3. ChassisTypeOK' /\ PartsGrow'
  BY <1>1 DEF ChassisInv, ChassisTypeOK, PartsGrow
<1>4. OneSince'
  BY <1>2 DEF ChassisInv, OneSince
<1>5. SinceReached' /\ RowsFresh'
  BY <1>2 DEF ChassisInv, SinceReached, RowsFresh
<1>6. TableFresh' /\ ListStored'
  BY DEF ChassisInv, Freshness, TableFresh, ListStored
<1>7. StoredFresh'
  BY <1>2 DEF ChassisInv, Freshness, StoredFresh, GoodBase
<1> QED
  BY <1>3, <1>4, <1>5, <1>6, <1>7 DEF ChassisInv, Freshness

LEMMA CollectBegins ==
  ASSUME ChassisInv, NEW c \in Collect, BeginCollect(c)
  PROVE  ChassisInv'
<1> DEFINE since == [s \in Slot |-> Since(s)]
           what == [at |-> "walks", column |-> 1, rows |-> << >>, since |-> since,
                    table |-> table, listed |-> listed]
<1>1. Turn(c, what) /\ UNCHANGED <<part, parts, table, listed, oldest>>
  BY DEF BeginCollect
<1>2. ASSUME NEW s \in Slot
      PROVE  /\ Since(s) \in Nat /\ Since(s) <= parts[s]
             /\ \A d \in Collect : Collecting(d) => collect[d].since[s] = Since(s)
  <2> DEFINE begun == {collect[d].since[s] : d \in {e \in Collect : Collecting(e)}}
  <2>1. CASE begun = {}
    <3>1. Since(s) = parts[s] /\ parts[s] \in Nat
      BY <2>1 DEF Since, ChassisInv, ChassisTypeOK
    <3>2. \A d \in Collect : ~Collecting(d)
      BY <2>1
    <3> QED
      BY <3>1, <3>2
  <2>2. CASE begun # {}
    <3>1. PICK d \in Collect : Collecting(d)
      BY <2>2
    <3>2. PICK n : n = collect[d].since[s]
      OBVIOUS
    <3>3. n \in Nat /\ n <= parts[s]
      BY <3>1, <3>2 DEF ChassisInv, ChassisTypeOK, SinceReached, WalkTask, ReadTask, Collecting
    <3>4. \A e \in Collect : Collecting(e) => collect[e].since[s] = n
      BY <3>1, <3>2 DEF ChassisInv, OneSince
    <3>5. begun = {n}
      BY <3>1, <3>4
    <3>6. Since(s) = CHOOSE m \in {n} : \A z \in {n} : m <= z
      BY <3>5 DEF Since
    <3>7. Since(s) = n
      BY <3>3, <3>6
    <3> QED
      BY <3>3, <3>4, <3>7
  <2> QED
    BY <2>1, <2>2
<1>3. since \in [Slot -> Nat] /\ what \in WalkTask
  <2>1. since \in [Slot -> Nat]
    BY <1>2
  <2> HIDE DEF since
  <2> QED
    BY <2>1, NoRows DEF WalkTask, ChassisInv, ChassisTypeOK
<1>4. ASSUME NEW d \in Collect, Collecting(d)
      PROVE  collect[d].since = since
  <2>1. collect[d].since \in [Slot -> Nat]
    BY <1>4 DEF ChassisInv, ChassisTypeOK, WalkTask, ReadTask, Collecting
  <2> QED
    BY <2>1, <1>2, <1>4
<1>5. RowsFrom(what.rows, what.since)
  BY NoRows DEF RowsFrom
<1>6. GoodBase(what.table, what.since)
  BY DEF GoodBase
<1> QED
  BY <1>1, <1>2, <1>3, <1>4, <1>5, <1>6, TurnKeeps

(* A column is walked, or fails.                                           *)
LEMMA WalkKeeps ==
  ASSUME ChassisInv, NEW c \in Collect, WalkColumn(c) \/ WalkFails(c)
  PROVE  ChassisInv'
<1> DEFINE t == collect[c]
           found == {s \in Slot : part[s] # NoPart}
           walked == [s \in found \cup DOMAIN t.rows |->
             IF s \in found THEN [RowOf(c, s) EXCEPT ![t.column] = part[s]]
                            ELSE RowOf(c, s)]
<1>1. /\ t \in WalkTask /\ Collecting(c) /\ t.at = "walks"
      /\ UNCHANGED <<part, parts, table, listed, oldest>>
  BY DEF WalkColumn, WalkFails, ChassisInv, ChassisTypeOK, Collecting, ReadTask
<1>2. /\ t.rows \in PartRows /\ t.since \in [Slot -> Nat] /\ t.column \in Nat
      /\ RowsFrom(t.rows, t.since) /\ GoodBase(t.table, t.since)
      /\ t.table \in Table /\ t.listed \in PartRows \cup {Nothing}
  BY <1>1 DEF WalkTask, ChassisInv, RowsFresh, Freshness, StoredFresh
<1>3. DOMAIN t.rows \in SUBSET Slot /\ t.rows \in [DOMAIN t.rows -> PartRow]
  BY <1>2, RowsTyped
<1>4. ASSUME NEW s \in Slot
      PROVE  RowOf(c, s) \in PartRow /\ \A k \in Columns : RowOf(c, s)[k] \in From(t.since[s])
  BY <1>2, <1>3 DEF RowOf, PartRow, Age, RowsFrom, From
<1>5. ASSUME NEW s \in found
      PROVE  /\ [RowOf(c, s) EXCEPT ![t.column] = part[s]] \in PartRow
             /\ \A k \in Columns :
                  [RowOf(c, s) EXCEPT ![t.column] = part[s]][k] \in From(t.since[s])
  <2>1. part[s] \in Nat /\ part[s] = parts[s] /\ t.since[s] \in Nat /\ t.since[s] <= parts[s]
    BY <1>1, <1>2 DEF ChassisInv, ChassisTypeOK, PartsGrow, SinceReached
  <2>2. RowOf(c, s) \in PartRow /\ \A k \in Columns : RowOf(c, s)[k] \in From(t.since[s])
    BY <1>4
  <2> QED
    BY <2>1, <2>2 DEF PartRow, Age, From
<1>6. walked \in PartRows /\ RowsFrom(walked, t.since)
  <2>1. DOMAIN walked \in SUBSET Slot
    BY <1>3
  <2>2. ASSUME NEW s \in DOMAIN walked
        PROVE  walked[s] \in PartRow /\ \A k \in Columns : walked[s][k] \in From(t.since[s])
    BY <1>3, <1>4, <1>5, <2>2
  <2>3. walked \in [DOMAIN walked -> PartRow]
    BY <2>2
  <2> HIDE DEF walked
  <2> QED
    BY <2>1, <2>2, <2>3, RowsTyped DEF RowsFrom
<1>7. ASSUME NEW rows \in PartRows, RowsFrom(rows, t.since), NextColumn(c, rows)
      PROVE  ChassisInv'
  <2> DEFINE what == [t EXCEPT
        !.at = IF @ = "walks" /\ t.column + 1 \notin Columns THEN "walked" ELSE "walks",
        !.column = @ + 1, !.rows = rows]
  <2>1. /\ what \in WalkTask /\ what.since = t.since /\ what.rows = rows
        /\ what.table = t.table
    <3>1. PICK at \in {"walks", "walked"} :
            what = [at |-> at, column |-> t.column + 1, rows |-> rows, since |-> t.since,
                    table |-> t.table, listed |-> t.listed]
      <4> DEFINE at == IF t.at = "walks" /\ t.column + 1 \notin Columns
                       THEN "walked" ELSE "walks"
      <4>1. t = [at |-> t.at, column |-> t.column, rows |-> t.rows, since |-> t.since,
                 table |-> t.table, listed |-> t.listed]
        BY <1>1 DEF WalkTask
      <4>2. what = [t EXCEPT !.at = at, !.column = @ + 1, !.rows = rows]
        OBVIOUS
      <4>3. at \in {"walks", "walked"}
        OBVIOUS
      <4> HIDE DEF what, at
      <4>4. what = [at |-> at, column |-> t.column + 1, rows |-> rows, since |-> t.since,
                    table |-> t.table, listed |-> t.listed]
        BY <4>1, <4>2
      <4> QED
        BY <4>3, <4>4
    <3> HIDE DEF what
    <3> QED
      BY <1>2, <1>7, <3>1 DEF WalkTask
  <2>2. Turn(c, what)
    BY <1>7 DEF NextColumn
  <2>3. /\ \A d \in Collect : Collecting(d) => collect[d].since = t.since
        /\ \A s \in Slot : t.since[s] <= parts[s]
    BY <1>1 DEF ChassisInv, OneSince, SinceReached
  <2> HIDE DEF what
  <2> QED
    BY <1>1, <1>2, <1>7, <2>1, <2>2, <2>3, TurnKeeps
<1>8. NextColumn(c, walked) \/ NextColumn(c, t.rows)
  BY DEF WalkColumn, WalkFails
<1> HIDE DEF walked
<1> QED
  BY <1>2, <1>6, <1>7, <1>8

LEMMA ReadKeeps ==
  ASSUME ChassisInv, NEW c \in Collect, ReadStored(c)
  PROVE  ChassisInv'
<1> DEFINE t == collect[c]
           base == [s \in Slot |-> Loaded(t.table[s], table[s])]
           list == Loaded(t.listed, listed)
           what == [at |-> "read", rows |-> t.rows, since |-> t.since,
                    table |-> base, listed |-> list]
<1>1. /\ t \in WalkTask /\ Collecting(c) /\ RowsFrom(t.rows, t.since)
      /\ GoodBase(t.table, t.since)
  BY DEF ReadStored, ChassisInv, ChassisTypeOK, Collecting, ReadTask, RowsFresh,
         Freshness, StoredFresh
<1>2. /\ t.table \in Table /\ t.listed \in PartRows \cup {Nothing}
      /\ table \in Table /\ listed \in PartRows \cup {Nothing}
  BY <1>1 DEF WalkTask, ChassisInv, ChassisTypeOK
<1>3. base \in Table /\ list \in PartRows \cup {Nothing}
  BY <1>2 DEF Table, Loaded
<1>4. GoodBase(base, t.since)
  BY <1>1 DEF GoodBase, Loaded
<1>5. /\ \A d \in Collect : Collecting(d) => collect[d].since = t.since
      /\ \A s \in Slot : t.since[s] <= parts[s]
  BY <1>1 DEF ChassisInv, OneSince, SinceReached
<1>6. Turn(c, what) /\ UNCHANGED <<part, parts, table, listed, oldest>>
  BY DEF ReadStored
<1> HIDE DEF base, list
<1>7. what \in ReadTask
  BY <1>1, <1>3 DEF ReadTask, WalkTask
<1> QED
  BY <1>1, <1>4, <1>5, <1>6, <1>7, TurnKeeps

(* What a collect leaves in the slots that it found is no older than it.   *)
LEMMA CommitKeeps ==
  ASSUME ChassisInv, NEW c \in Collect, CommitCollect(c)
  PROVE  ChassisInv'
<1> DEFINE t == collect[c]
<1>1. /\ t \in ReadTask /\ Collecting(c) /\ t.at = "read" /\ ~Refused(c)
      /\ t.rows \in PartRows /\ t.since \in [Slot -> Nat] /\ t.table \in Table
      /\ RowsFrom(t.rows, t.since)
  BY DEF CommitCollect, ChassisInv, ChassisTypeOK, Collecting, ReadTask, WalkTask, RowsFresh
<1>2. DOMAIN t.rows \in SUBSET Slot /\ t.rows \in [DOMAIN t.rows -> PartRow]
  BY <1>1, RowsTyped
<1>3. /\ table' = [s \in Slot |-> IF s \in DOMAIN t.rows THEN Upsert(c, s) ELSE table[s]]
      /\ listed' = t.rows
      /\ oldest' = [s \in Slot |-> IF s \in DOMAIN t.rows THEN t.since[s] ELSE oldest[s]]
      /\ collect' = [collect EXCEPT ![c] = NoCollect]
      /\ UNCHANGED <<part, parts>>
  BY DEF CommitCollect, Turn
<1>4. ASSUME NEW s \in DOMAIN t.rows
      PROVE  /\ Upsert(c, s) \in PartRow
             /\ \A k \in Columns : Upsert(c, s)[k] \in From(t.since[s])
  <2>1. /\ s \in Slot /\ t.rows[s] \in PartRow
        /\ \A k \in Columns : t.rows[s][k] \in From(t.since[s])
    BY <1>1, <1>2 DEF RowsFrom
  <2>2. CASE table[s] = Nothing
    BY <2>1, <2>2 DEF Upsert
  <2>3. CASE table[s] # Nothing
    <3>1. table[s] \in PartRow /\ t.table[s] # Nothing /\ t.table[s] \in PartRow
      BY <1>1, <2>1, <2>3 DEF ChassisInv, ChassisTypeOK, Table, Refused
    <3>2. Upsert(c, s) = [k \in Columns |->
            Written(table[s][k], t.table[s][k], t.rows[s][k])]
      BY <2>3 DEF Upsert
    <3>3. ASSUME NEW k \in Columns
          PROVE  /\ Written(table[s][k], t.table[s][k], t.rows[s][k]) \in Age
                 /\ Written(table[s][k], t.table[s][k], t.rows[s][k]) \in From(t.since[s])
      <4>1. /\ table[s][k] \in Age /\ t.rows[s][k] \in Age
            /\ t.rows[s][k] \in From(t.since[s])
        BY <2>1, <3>1 DEF PartRow
      <4>2. table[s][k] \in From(t.since[s]) \/ table[s][k] = t.table[s][k]
        BY <1>1, <2>1, <2>3 DEF ChassisInv, Freshness, StoredFresh, GoodBase
      <4> QED
        BY <4>1, <4>2 DEF Written
    <3> QED
      BY <3>2, <3>3 DEF PartRow
  <2> QED
    BY <2>2, <2>3
<1>5. \A s \in DOMAIN t.rows : table'[s] = Upsert(c, s) /\ oldest'[s] = t.since[s]
  BY <1>2, <1>3
<1>6. \A s \in Slot \ DOMAIN t.rows : table'[s] = table[s] /\ oldest'[s] = oldest[s]
  BY <1>3
<1>7. ASSUME NEW d \in Collect, Collecting(d)'
      PROVE  d # c /\ collect'[d] = collect[d] /\ Collecting(d)
  BY <1>3, <1>7 DEF ChassisInv, ChassisTypeOK, Collecting
<1>8. ChassisTypeOK' /\ PartsGrow'
  <2>1. table' \in Table /\ oldest' \in [Slot -> Nat]
    <3>1. \A s \in Slot : table'[s] \in PartRow \cup {Nothing} /\ oldest'[s] \in Nat
      BY <1>1, <1>2, <1>4, <1>5, <1>6 DEF ChassisInv, ChassisTypeOK, Table
    <3> QED
      BY <1>3, <3>1 DEF Table
  <2> QED
    BY <1>1, <1>3, <2>1 DEF ChassisInv, ChassisTypeOK, PartsGrow
<1>9. OneSince' /\ SinceReached' /\ RowsFresh'
  BY <1>3, <1>7 DEF ChassisInv, OneSince, SinceReached, RowsFresh
<1>10. TableFresh'
  <2>1. ASSUME NEW s \in Slot, table'[s] # Nothing, NEW k \in Columns
        PROVE  table'[s][k] \in From(oldest'[s])
    <3>1. CASE s \in DOMAIN t.rows
      BY <1>4, <1>5, <3>1
    <3>2. CASE s \notin DOMAIN t.rows
      BY <1>6, <2>1, <3>2 DEF ChassisInv, Freshness, TableFresh
    <3> QED
      BY <3>1, <3>2
  <2> QED
    BY <2>1 DEF TableFresh
<1>11. ListStored'
  BY <1>2, <1>3, <1>4, <1>5, RowIsSomething DEF ListStored
<1>12. StoredFresh'
  <2>1. ASSUME NEW d \in Collect, Collecting(d)',
               NEW s \in Slot, table'[s] # Nothing, NEW k \in Columns
        PROVE  \/ table'[s][k] \in From(collect'[d].since[s])
               \/ collect'[d].table[s] # Nothing /\ table'[s][k] = collect'[d].table[s][k]
    <3>1. collect'[d] = collect[d] /\ Collecting(d) /\ collect[d].since = t.since
      BY <1>1, <1>7, <2>1 DEF ChassisInv, OneSince
    <3>2. CASE s \in DOMAIN t.rows
      BY <1>4, <1>5, <3>1, <3>2
    <3>3. CASE s \notin DOMAIN t.rows
      BY <1>6, <2>1, <3>1, <3>3 DEF ChassisInv, Freshness, StoredFresh, GoodBase
    <3> QED
      BY <3>2, <3>3
  <2> QED
    BY <2>1 DEF StoredFresh, GoodBase
<1> QED
  BY <1>8, <1>9, <1>10, <1>11, <1>12 DEF ChassisInv, Freshness

LEMMA CollectFailsKeeps ==
  ASSUME ChassisInv, NEW c \in Collect, CollectFails(c)
  PROVE  ChassisInv'
<1>1. /\ collect' = [collect EXCEPT ![c] = NoCollect]
      /\ UNCHANGED <<part, parts, table, listed, oldest>>
  BY DEF CollectFails, Turn
<1>2. ASSUME NEW d \in Collect, Collecting(d)'
      PROVE  collect'[d] = collect[d] /\ Collecting(d)
  BY <1>1, <1>2 DEF ChassisInv, ChassisTypeOK, Collecting
<1>3. ChassisTypeOK' /\ PartsGrow'
  BY <1>1 DEF ChassisInv, ChassisTypeOK, PartsGrow
<1>4. OneSince' /\ SinceReached' /\ RowsFresh'
  BY <1>1, <1>2 DEF ChassisInv, OneSince, SinceReached, RowsFresh
<1>5. Freshness'
  BY <1>1, <1>2 DEF ChassisInv, Freshness, TableFresh, StoredFresh, GoodBase, ListStored
<1> QED
  BY <1>3, <1>4, <1>5 DEF ChassisInv

LEMMA ChassisStepInv == ChassisInv /\ [ChassisNext]_chassis_vars => ChassisInv'
<1> SUFFICES ASSUME ChassisInv, [ChassisNext]_chassis_vars
             PROVE  ChassisInv'
  OBVIOUS
<1>1. CASE UNCHANGED chassis_vars
  BY <1>1 DEF chassis_vars, ChassisInv, ChassisTypeOK, PartsGrow, OneSince, SinceReached,
     RowsFresh, Freshness, TableFresh, StoredFresh, GoodBase, ListStored, Collecting
<1> QED
  BY <1>1, PartKeeps, CollectBegins, WalkKeeps, ReadKeeps, CommitKeeps, CollectFailsKeeps
     DEF ChassisNext

(* No value that the view of the chassis shows is older than the collect   *)
(* that last found its slot, or those at the same time (chassis.py).       *)
THEOREM ChassisShownFresh == ChassisSpec => []ShownFresh
<1>1. ChassisInv => ShownFresh
  <2> SUFFICES ASSUME ChassisInv, NEW s \in Slot
               PROVE  /\ Shown[s] # Nothing => \A k \in Columns :
                           Shown[s][k] # Nothing => Shown[s][k] >= oldest[s]
                      /\ listed # Nothing /\ s \in DOMAIN listed => table[s] # Nothing
    BY DEF ShownFresh
  <2>1. listed # Nothing /\ s \in DOMAIN listed => table[s] # Nothing
    BY DEF ChassisInv, Freshness, ListStored
  <2>2. CASE \E z \in Slot : table[z] # Nothing
    <3>1. Shown = table
      BY <2>2 DEF Shown
    <3> QED
      BY <2>1, <3>1 DEF ChassisInv, Freshness, TableFresh, From
  <2>3. CASE ~\E z \in Slot : table[z] # Nothing
    <3>1. ~(listed # Nothing /\ s \in DOMAIN listed)
      BY <2>1, <2>3
    <3>2. Shown[s] = Nothing
      BY <2>3, <3>1 DEF Shown
    <3> QED
      BY <2>1, <3>2
  <2> QED
    BY <2>2, <2>3
<1> QED
  BY ChassisInitInv, ChassisStepInv, <1>1, PTL DEF ChassisSpec

-----------------------------------------------------------------------------
(* ScoreSnapshots.  A listing that is to write has looked since its last   *)
(* snapshot, and found it old enough; and what a writer has read is no     *)
(* older than what was written before its last snapshot.                   *)
Snapshot == [at : Nat, by : Writer, of : Nat]

SnapshotTypeOK ==
  /\ time \in Nat /\ alarms \in Nat
  /\ snapshots \in Seq(Snapshot)
  /\ doing \in [Writer -> {"nothing", "handles", "looks", "writes"}]
  /\ read \in [Writer -> Nat]

Index == 1 .. Len(snapshots)

\* A reader's own snapshots are more than the throttle apart.
OwnApart ==
  \A i, j \in Index : i < j /\ snapshots[i].by = snapshots[j].by /\ snapshots[i].by \in Reader
    => snapshots[j].at > snapshots[i].at + Throttle

LookedSince ==
  \A r \in Reader : doing[r] = "writes" =>
    \A i \in Index : snapshots[i].by = r => time > snapshots[i].at + Throttle

\* What a writer writes again is no older than what was there before.
CatchesUp ==
  \A i, j, k \in Index : i <= j /\ j < k /\ snapshots[j].by = snapshots[k].by
    => snapshots[k].of >= snapshots[i].of

HasRead(w) == doing[w] \in {"looks", "writes"}

ReadSince ==
  \A w \in Writer : HasRead(w) =>
    \A i, j \in Index : i <= j /\ snapshots[j].by = w => read[w] >= snapshots[i].of

NoneAhead ==
  /\ \A i \in Index : snapshots[i].of <= alarms
  /\ \A w \in Writer : read[w] <= alarms

SnapshotInv ==
  /\ SnapshotTypeOK /\ OwnApart /\ LookedSince
  /\ CatchesUp /\ ReadSince /\ NoneAhead

LEMMA SnapshotInitInv == SnapshotInit => SnapshotInv
  BY DEF SnapshotInit, SnapshotInv, SnapshotTypeOK, OwnApart, LookedSince, CatchesUp,
     ReadSince, NoneAhead, Index, HasRead

LEMMA SnapshotTyped ==
  ASSUME SnapshotInv
  PROVE  /\ Throttle \in Nat /\ Reader \cap Handler = {}
         /\ \A i \in Index : /\ snapshots[i] \in Snapshot /\ snapshots[i].at \in Nat
                             /\ snapshots[i].by \in Writer /\ snapshots[i].of \in Nat
<1>1. ASSUME NEW i \in Index
      PROVE  snapshots[i] \in Snapshot
  BY DEF SnapshotInv, SnapshotTypeOK, Index
<1> QED
  BY <1>1, SnapshotAssumption DEF SnapshotAssumption, Snapshot

(* A step that writes none.                                                *)
LEMMA NoneWritten ==
  ASSUME SnapshotInv, UNCHANGED snapshots, SnapshotTypeOK',
         time' >= time, alarms' >= alarms,
         \A w \in Writer : read'[w] <= alarms',
         \A r \in Reader : doing'[r] = "writes" =>
           \/ doing[r] = "writes"
           \/ \A i \in Index : snapshots[i].by = r => time' > snapshots[i].at + Throttle,
         \A w \in Writer : HasRead(w)' =>
           \/ HasRead(w) /\ read'[w] = read[w]
           \/ read'[w] = alarms
  PROVE  SnapshotInv'
<1>1. Index' = Index /\ OwnApart' /\ CatchesUp'
  BY DEF SnapshotInv, OwnApart, CatchesUp, Index
<1>2. LookedSince'
  <2>1. ASSUME NEW r \in Reader, doing'[r] = "writes",
               NEW i \in Index, snapshots[i].by = r
        PROVE  time' > snapshots[i].at + Throttle
    <3>1. /\ time \in Nat /\ time' \in Nat /\ time' >= time
          /\ Throttle \in Nat /\ snapshots[i].at \in Nat
      BY SnapshotTyped DEF SnapshotInv, SnapshotTypeOK
    <3>2. CASE doing[r] = "writes"
      BY <2>1, <3>1, <3>2 DEF SnapshotInv, LookedSince
    <3>3. CASE doing[r] # "writes"
      BY <2>1, <3>3
    <3> QED
      BY <3>2, <3>3
  <2> QED
    BY <1>1, <2>1 DEF LookedSince
<1>3. ReadSince'
  <2>1. ASSUME NEW w \in Writer, HasRead(w)', NEW i \in Index, NEW j \in Index,
               i <= j, snapshots[j].by = w
        PROVE  read'[w] >= snapshots[i].of
    BY <2>1, SnapshotTyped DEF SnapshotInv, ReadSince, NoneAhead, SnapshotTypeOK
  <2> QED
    BY <1>1, <2>1 DEF ReadSince
<1>4. NoneAhead'
  BY <1>1, SnapshotTyped DEF SnapshotInv, NoneAhead, SnapshotTypeOK
<1> QED
  BY <1>1, <1>2, <1>3, <1>4 DEF SnapshotInv

LEMMA WriteKeeps ==
  ASSUME SnapshotInv, NEW w \in Writer, WriteSnapshot(w)
  PROVE  SnapshotInv'
<1> DEFINE s == [at |-> time, by |-> w, of |-> read[w]]
           n == Len(snapshots) + 1
<1>1. /\ snapshots' = Append(snapshots, s) /\ doing[w] = "writes"
      /\ doing' = [doing EXCEPT ![w] = "nothing"] /\ UNCHANGED <<time, alarms, read>>
  BY DEF WriteSnapshot, Does
<1>2. s \in Snapshot /\ SnapshotTypeOK'
  BY <1>1 DEF SnapshotInv, SnapshotTypeOK, Snapshot
<1>3. /\ Index' = Index \cup {n} /\ snapshots'[n] = s
      /\ \A i \in Index : snapshots'[i] = snapshots[i] /\ i < n
      /\ n \in Nat /\ Index \subseteq Nat
  BY <1>1, <1>2 DEF SnapshotInv, SnapshotTypeOK, Index
<1>4. s.at = time /\ s.by = w /\ s.of = read[w]
  OBVIOUS
<1> HIDE DEF s, n
<1>5. OwnApart'
  <2>1. ASSUME NEW i \in Index', NEW j \in Index', i < j,
               snapshots'[i].by = snapshots'[j].by, snapshots'[i].by \in Reader
        PROVE  snapshots'[j].at > snapshots'[i].at + Throttle
    <3>1. i \in Index
      <4>1. i # n
        BY <1>3, <2>1
      <4> QED
        BY <1>3, <4>1
    <3>2. CASE j \in Index
      BY <1>3, <2>1, <3>1, <3>2 DEF SnapshotInv, OwnApart
    <3>3. CASE j = n
      BY <1>1, <1>3, <1>4, <2>1, <3>1, <3>3 DEF SnapshotInv, LookedSince
    <3> QED
      BY <1>3, <3>2, <3>3
  <2> QED
    BY <2>1 DEF OwnApart
<1>6. CatchesUp'
  <2>1. ASSUME NEW i \in Index', NEW j \in Index', NEW k \in Index', i <= j, j < k,
               snapshots'[j].by = snapshots'[k].by
        PROVE  snapshots'[k].of >= snapshots'[i].of
    <3>1. i \in Index /\ j \in Index
      BY <1>3, <2>1
    <3>2. CASE k \in Index
      BY <1>3, <2>1, <3>1, <3>2 DEF SnapshotInv, CatchesUp
    <3>3. CASE k = n
      BY <1>1, <1>3, <1>4, <2>1, <3>1, <3>3 DEF SnapshotInv, ReadSince, HasRead
    <3> QED
      BY <1>3, <3>2, <3>3
  <2> QED
    BY <2>1 DEF CatchesUp
<1>7. ASSUME NEW v \in Writer, doing'[v] # "nothing"
      PROVE  v # w /\ doing'[v] = doing[v]
  BY <1>1, <1>7 DEF SnapshotInv, SnapshotTypeOK
<1>8. LookedSince'
  <2>1. ASSUME NEW r \in Reader, doing'[r] = "writes",
               NEW i \in Index', snapshots'[i].by = r
        PROVE  time' > snapshots'[i].at + Throttle
    <3>1. r # w /\ doing[r] = "writes" /\ i \in Index
      BY <1>3, <1>4, <1>7, <2>1 DEF Writer
    <3> QED
      BY <1>1, <1>3, <2>1, <3>1 DEF SnapshotInv, LookedSince
  <2> QED
    BY <2>1 DEF LookedSince
<1>9. ReadSince'
  <2>1. ASSUME NEW v \in Writer, HasRead(v)', NEW i \in Index', NEW j \in Index',
               i <= j, snapshots'[j].by = v
        PROVE  read'[v] >= snapshots'[i].of
    <3>1. v # w /\ HasRead(v)
      BY <1>7, <2>1 DEF HasRead
    <3>2. j \in Index
      <4>1. CASE j = n
        <5>1. snapshots'[j].by = w
          BY <1>3, <1>4, <4>1
        <5> QED
          BY <2>1, <3>1, <5>1
      <4> QED
        BY <1>3, <4>1
    <3>3. i # n
      BY <1>3, <2>1, <3>2
    <3>4. i \in Index
      BY <1>3, <3>3
    <3> QED
      BY <1>1, <1>3, <2>1, <3>1, <3>2, <3>4 DEF SnapshotInv, ReadSince
  <2> QED
    BY <2>1 DEF ReadSince
<1>10. NoneAhead'
  BY <1>1, <1>3, <1>4 DEF SnapshotInv, NoneAhead
<1> QED
  BY <1>2, <1>5, <1>6, <1>8, <1>9, <1>10 DEF SnapshotInv

LEMMA SnapshotStepInv == SnapshotInv /\ [SnapshotNext]_snapshot_vars => SnapshotInv'
<1> SUFFICES ASSUME SnapshotInv, [SnapshotNext]_snapshot_vars
             PROVE  SnapshotInv'
  OBVIOUS
<1> USE DEF HasRead, Does
<1>0. /\ time \in Nat /\ alarms \in Nat /\ \A w \in Writer : read[w] \in Nat /\ read[w] <= alarms
      /\ Reader \subseteq Writer /\ Handler \subseteq Writer
  BY DEF SnapshotInv, SnapshotTypeOK, NoneAhead, Writer
<1>1. CASE TimePasses
  <2>1. SnapshotTypeOK' /\ time' = time + 1 /\ UNCHANGED <<snapshots, doing, alarms, read>>
    BY <1>1 DEF TimePasses, SnapshotInv, SnapshotTypeOK
  <2> QED
    BY <1>0, <2>1, NoneWritten
<1>2. ASSUME NEW h \in Handler, AlarmMatters(h)
      PROVE  SnapshotInv'
  <2>1. /\ SnapshotTypeOK' /\ alarms' = alarms + 1 /\ UNCHANGED <<time, snapshots, read>>
        /\ \A w \in Writer : doing'[w] \in {"looks", "writes"} => doing'[w] = doing[w]
    BY <1>0, <1>2 DEF AlarmMatters, SnapshotInv, SnapshotTypeOK
  <2> QED
    BY <1>0, <2>1, NoneWritten
<1>3. ASSUME NEW r \in Reader, LookForSnapshot(r)
      PROVE  SnapshotInv'
  <2>1. /\ SnapshotTypeOK' /\ UNCHANGED <<time, snapshots, alarms, read>> /\ doing[r] = "looks"
        /\ \A w \in Writer \ {r} : doing'[w] = doing[w]
        /\ doing'[r] = "writes" => ~Recent
    BY <1>0, <1>3 DEF LookForSnapshot, SnapshotInv, SnapshotTypeOK
  <2>2. ASSUME ~Recent, NEW i \in Index
        PROVE  time > snapshots[i].at + Throttle
    <3>1. snapshots[i].at \in Captured /\ snapshots[i].at \in Nat /\ Throttle \in Nat
      BY SnapshotTyped DEF Captured, Index
    <3>2. ~(snapshots[i].at >= time - Throttle)
      BY <2>2, <3>1 DEF Recent
    <3> QED
      BY <1>0, <3>1, <3>2
  <2> QED
    BY <1>0, <2>1, <2>2, NoneWritten
<1>4. ASSUME NEW w \in Writer, ReadAlarms(w)
      PROVE  SnapshotInv'
  <2>1. /\ SnapshotTypeOK' /\ UNCHANGED <<time, snapshots, alarms>>
        /\ read'[w] = alarms /\ \A v \in Writer \ {w} : read'[v] = read[v] /\ doing'[v] = doing[v]
        /\ w \in Reader => doing'[w] # "writes"
    BY <1>0, <1>4, SnapshotTyped DEF ReadAlarms, SnapshotInv, SnapshotTypeOK
  <2> QED
    BY <1>0, <2>1, NoneWritten
<1>5. ASSUME NEW w \in Writer, WriteSnapshot(w)
      PROVE  SnapshotInv'
  BY <1>5, WriteKeeps
<1>6. ASSUME NEW w \in Writer, SnapshotFails(w)
      PROVE  SnapshotInv'
  <2>1. /\ SnapshotTypeOK' /\ UNCHANGED <<time, snapshots, alarms, read>>
        /\ doing'[w] = "nothing" /\ \A v \in Writer \ {w} : doing'[v] = doing[v]
    BY <1>6 DEF SnapshotFails, SnapshotInv, SnapshotTypeOK
  <2> QED
    BY <1>0, <2>1, NoneWritten
<1>7. CASE UNCHANGED snapshot_vars
  BY <1>7 DEF snapshot_vars, SnapshotInv, SnapshotTypeOK, OwnApart, LookedSince, CatchesUp,
     ReadSince, NoneAhead, Index
<1> QED
  BY <1>1, <1>2, <1>3, <1>4, <1>5, <1>6, <1>7 DEF SnapshotNext

(* A set of indexes of snapshots that are all by different writers is no   *)
(* larger than the set of those.                                           *)
LEMMA FewWriters ==
  ASSUME SnapshotInv, NEW S \in SUBSET Index, NEW W \in SUBSET Writer,
         \A i \in S : snapshots[i].by \in W,
         \A i, j \in S : snapshots[i].by = snapshots[j].by => i = j
  PROVE  /\ IsFiniteSet(W) /\ Cardinality(S) <= Cardinality(W)
         /\ Cardinality(S) \in Nat /\ Cardinality(W) \in Nat
<1> DEFINE f == [i \in S |-> snapshots[i].by]
<1>1. IsFiniteSet(W)
  BY SnapshotAssumption, FS_Subset DEF SnapshotAssumption, Writer
<1>2. f \in Injection(S, W)
  BY DEF Injection, IsInjective
<1>3. IsFiniteSet(S) /\ Cardinality(S) <= Cardinality(W)
  BY <1>1, <1>2, FS_Injection
<1> QED
  BY <1>1, <1>3, FS_CardinalityType

(* Listings write no more snapshots in the time of the throttle than run   *)
(* at a time, and after a score come no more older ones than there are     *)
(* others that write (services_impact.py, snapshot_trigger.py).            *)
THEOREM ScoreSnapshotsBounded == SnapshotSpec => []SnapshotsBounded
<1>1. SnapshotInv => ThrottledToReaders
  <2> SUFFICES ASSUME SnapshotInv, NEW t \in 0 .. time
               PROVE  Cardinality(Listed(t)) <= Cardinality(Reader)
    BY DEF ThrottledToReaders
  <2>1. t \in Nat /\ Throttle \in Nat
    BY SnapshotTyped DEF SnapshotInv, SnapshotTypeOK
  <2>2. /\ Listed(t) \in SUBSET Index /\ Reader \in SUBSET Writer
        /\ \A i \in Listed(t) : /\ snapshots[i].by \in Reader /\ snapshots[i].at \in Nat
                                /\ snapshots[i].at >= t /\ snapshots[i].at <= t + Throttle
    BY <2>1, SnapshotTyped DEF Listed, Index, Writer
  <2>3. ASSUME NEW i \in Listed(t), NEW j \in Listed(t), snapshots[i].by = snapshots[j].by
        PROVE  i = j
    <3>1. ~(i < j) /\ ~(j < i)
      BY <2>1, <2>2, <2>3 DEF SnapshotInv, OwnApart
    <3>2. i \in Nat /\ j \in Nat
      BY <2>2 DEF SnapshotInv, SnapshotTypeOK, Index
    <3> QED
      BY <3>1, <3>2
  <2> QED
    BY <2>2, <2>3, FewWriters
<1>2. SnapshotInv => HistoryCatchesUp
  <2> SUFFICES ASSUME SnapshotInv, NEW i \in Index
               PROVE  Cardinality({j \in i + 1 .. Len(snapshots) :
                        snapshots[j].of < snapshots[i].of}) < Cardinality(Writer)
    BY DEF HistoryCatchesUp, Index
  <2> DEFINE S == {j \in i + 1 .. Len(snapshots) : snapshots[j].of < snapshots[i].of}
             W == Writer \ {snapshots[i].by}
  <2>1. /\ i \in Nat /\ Len(snapshots) \in Nat /\ snapshots[i].of \in Nat
        /\ snapshots[i].by \in Writer
    BY SnapshotTyped DEF SnapshotInv, SnapshotTypeOK, Index
  <2>2. S \in SUBSET Index /\ \A j \in S : i < j /\ j \in Nat
    BY <2>1 DEF Index
  <2>3. ASSUME NEW j \in S
        PROVE  /\ snapshots[j].by \in W /\ snapshots[j].of \in Nat
               /\ snapshots[j].of < snapshots[i].of
    <3>1. j \in Index /\ i \in Index /\ i <= i /\ i < j
      BY <2>1, <2>2
    <3>2. snapshots[j].by \in Writer /\ snapshots[j].of \in Nat
      BY <3>1, SnapshotTyped
    <3>3. snapshots[j].by # snapshots[i].by
      BY <2>1, <3>1, <3>2 DEF SnapshotInv, CatchesUp
    <3> QED
      BY <3>2, <3>3
  <2>4. ASSUME NEW j \in S, NEW k \in S, snapshots[j].by = snapshots[k].by
        PROVE  j = k
    <3>1. /\ j \in Nat /\ k \in Nat /\ i <= j /\ i <= k /\ j \in Index /\ k \in Index
          /\ snapshots[j].of \in Nat /\ snapshots[k].of \in Nat
          /\ snapshots[j].of < snapshots[i].of /\ snapshots[k].of < snapshots[i].of
      BY <2>1, <2>2, <2>3
    <3>2. ~(j < k) /\ ~(k < j)
      BY <2>1, <2>4, <3>1 DEF SnapshotInv, CatchesUp
    <3> QED
      BY <3>1, <3>2
  <2>5. Cardinality(S) <= Cardinality(W) /\ Cardinality(S) \in Nat /\ Cardinality(W) \in Nat
    <3> HIDE DEF S
    <3> QED
      BY <2>2, <2>3, <2>4, FewWriters
  <2>6. Cardinality(W) = Cardinality(Writer) - 1 /\ Cardinality(Writer) \in Nat
    <3>1. IsFiniteSet(Writer)
      BY SnapshotAssumption DEF SnapshotAssumption, Writer
    <3> QED
      BY <2>1, <3>1, FS_RemoveElement, FS_CardinalityType
  <2> QED
    BY <2>5, <2>6
<1> QED
  BY SnapshotInitInv, SnapshotStepInv, <1>1, <1>2, PTL DEF SnapshotSpec, SnapshotsBounded

-----------------------------------------------------------------------------
(* A set of numbers has a least one: it is what a proof by induction over  *)
(* numbers, or over sizes of sets, starts from.                            *)
LEMMA LeastNumber ==
  ASSUME NEW S, S \subseteq Nat, S # {}
  PROVE  \E n \in S : \A m \in S : n <= m
<1> DEFINE R == OpToRel(<, Nat)
<1>1. PICK x \in S : \A y \in S : <<y, x>> \notin R
  <2> HIDE DEF R
  <2>1. IsWellFoundedOn(R, Nat)
    BY NatLessThanWellFounded, Zenon DEF R
  <2> QED
    BY <2>1, WFMin, Zenon
<1>2. \A y \in S : ~(y < x)
  BY <1>1 DEF OpToRel
<1> QED
  BY <1>2

-----------------------------------------------------------------------------
(* BlastRadius.  What lies within a number of steps.                       *)
Next(pairs, S) == S \cup {m \in Node : \E l \in S : <<l, m>> \in pairs}

\* The first n rounds of a search.
Rounds(pairs, n, f) ==
  f = [k \in 0 .. n |-> IF k = 0 THEN {Root} ELSE Next(pairs, f[k - 1])]

LEMMA RoundsExist ==
  ASSUME NEW pairs, NEW n \in Nat
  PROVE  \E f : Rounds(pairs, n, f)
<1> DEFINE Fails == {m \in Nat : ~\E f : Rounds(pairs, m, f)}
<1> SUFFICES ASSUME Fails # {} PROVE FALSE
  OBVIOUS
<1>1. PICK m \in Fails : \A j \in Fails : m <= j
  <2>1. Fails \subseteq Nat
    OBVIOUS
  <2> HIDE DEF Fails
  <2> QED
    BY <2>1, LeastNumber
<1>2. m # 0
  <2>1. Rounds(pairs, 0, [k \in 0 .. 0 |-> {Root}])
    BY DEF Rounds
  <2> QED
    BY <2>1
<1>3. m - 1 \in Nat /\ m \in Nat
  BY <1>2
<1>4. PICK f : Rounds(pairs, m - 1, f)
  BY <1>1, <1>3
<1> DEFINE g == [k \in 0 .. m |-> IF k = m THEN Next(pairs, f[m - 1]) ELSE f[k]]
<1>5. \A k \in 0 .. m : g[k] = IF k = 0 THEN {Root} ELSE Next(pairs, g[k - 1])
  <2> SUFFICES ASSUME NEW k \in 0 .. m
               PROVE  g[k] = IF k = 0 THEN {Root} ELSE Next(pairs, g[k - 1])
    OBVIOUS
  <2>1. CASE k = m
    BY <1>2, <1>3, <2>1
  <2>2. CASE k # m
    <3>1. k \in 0 .. m - 1 /\ (k # 0 => k - 1 \in 0 .. m /\ k - 1 # m)
      BY <1>3, <2>2
    <3>2. f[k] = IF k = 0 THEN {Root} ELSE Next(pairs, f[k - 1])
      BY <1>4, <3>1 DEF Rounds
    <3> QED
      BY <2>2, <3>1, <3>2
  <2> QED
    BY <2>1, <2>2
<1>6. Rounds(pairs, m, g)
  <2>1. g = [k \in 0 .. m |-> g[k]]
    OBVIOUS
  <2> HIDE DEF g
  <2> QED
    BY <1>5, <2>1 DEF Rounds
<1> QED
  BY <1>6

LEMMA RoundsAgree ==
  ASSUME NEW pairs, NEW n \in Nat, NEW f, NEW g, NEW m \in Nat, n <= m,
         Rounds(pairs, n, f), Rounds(pairs, m, g)
  PROVE  \A k \in 0 .. n : f[k] = g[k]
<1> DEFINE Fails == {k \in 0 .. n : f[k] # g[k]}
<1> SUFFICES ASSUME Fails # {} PROVE FALSE
  OBVIOUS
<1>1. PICK k \in Fails : \A j \in Fails : k <= j
  <2>1. Fails \subseteq Nat
    OBVIOUS
  <2> HIDE DEF Fails
  <2> QED
    BY <2>1, LeastNumber
<1>2. k \in 0 .. n /\ k \in 0 .. m /\ f[k] # g[k]
  OBVIOUS
<1>3. /\ f[k] = IF k = 0 THEN {Root} ELSE Next(pairs, f[k - 1])
      /\ g[k] = IF k = 0 THEN {Root} ELSE Next(pairs, g[k - 1])
  BY <1>2 DEF Rounds
<1>4. CASE k = 0
  BY <1>2, <1>3, <1>4
<1>5. CASE k # 0
  <2>1. k - 1 \in 0 .. n /\ ~(k <= k - 1)
    BY <1>2, <1>5
  <2>2. k - 1 \notin Fails
    <3> HIDE DEF Fails
    <3> QED
      BY <1>1, <2>1
  <2>3. f[k - 1] = g[k - 1]
    BY <2>1, <2>2
  <2> QED
    BY <1>2, <1>3, <1>5, <2>3
<1> QED
  BY <1>4, <1>5

\* What the recursive function of Within computes.
LEMMA WithinSteps ==
  ASSUME NEW pairs
  PROVE  /\ Within(pairs, 0) = {Root}
         /\ \A n \in Nat : Within(pairs, n + 1) = Next(pairs, Within(pairs, n))
<1> DEFINE Is(reach) == reach = [k \in Nat |-> IF k = 0 THEN {Root}
                                               ELSE Next(pairs, reach[k - 1])]
           some(k) == CHOOSE f : Rounds(pairs, k, f)
           all == [k \in Nat |-> some(k)[k]]
           reach == CHOOSE r : Is(r)
<1>1. \A k \in Nat : Rounds(pairs, k, some(k))
  BY RoundsExist
<1> HIDE DEF some
<1>2. ASSUME NEW k \in Nat
      PROVE  all[k] = IF k = 0 THEN {Root} ELSE Next(pairs, all[k - 1])
  <2>1. some(k)[k] = IF k = 0 THEN {Root} ELSE Next(pairs, some(k)[k - 1])
    <3>1. k \in 0 .. k
      OBVIOUS
    <3> QED
      BY <1>1, <3>1 DEF Rounds
  <2>2. CASE k # 0
    <3>1. k - 1 \in Nat /\ k - 1 <= k /\ k - 1 \in 0 .. k - 1
      BY <2>2
    <3>2. some(k - 1)[k - 1] = some(k)[k - 1]
      BY <1>1, <3>1, RoundsAgree
    <3> QED
      BY <2>1, <2>2, <3>1, <3>2
  <2> QED
    BY <2>1, <2>2
<1>3. Is(all)
  <2>1. all = [k \in Nat |-> all[k]]
    OBVIOUS
  <2> HIDE DEF all
  <2> QED
    BY <1>2, <2>1
<1>4. Is(reach)
  <2> HIDE DEF Is
  <2> QED
    BY <1>3
<1>5. \A n : Within(pairs, n) = reach[n]
  BY DEF Within, Next
<1> HIDE DEF reach
<1>6. \A k \in Nat : reach[k] = IF k = 0 THEN {Root} ELSE Next(pairs, reach[k - 1])
  BY <1>4
<1>7. \A n \in Nat : n + 1 \in Nat /\ n + 1 # 0 /\ (n + 1) - 1 = n
  OBVIOUS
<1> QED
  BY <1>5, <1>6, <1>7

LEMMA WithinGrows ==
  ASSUME NEW pairs, NEW j \in Nat, NEW n \in Nat, j <= n
  PROVE  Within(pairs, j) \subseteq Within(pairs, n)
<1> DEFINE Fails == {m \in Nat : j <= m /\ ~(Within(pairs, j) \subseteq Within(pairs, m))}
<1> SUFFICES ASSUME Fails # {} PROVE FALSE
  OBVIOUS
<1>1. PICK m \in Fails : \A i \in Fails : m <= i
  <2>1. Fails \subseteq Nat
    OBVIOUS
  <2> HIDE DEF Fails
  <2> QED
    BY <2>1, LeastNumber
<1>2. m # j /\ j <= m /\ m \in Nat
  OBVIOUS
<1>3. m - 1 \in Nat /\ j <= m - 1 /\ ~(m <= m - 1) /\ (m - 1) + 1 = m
  BY <1>2
<1>4. Within(pairs, j) \subseteq Within(pairs, m - 1)
  <2>1. m - 1 \notin Fails
    <3> HIDE DEF Fails
    <3> QED
      BY <1>1, <1>3
  <2> QED
    BY <1>3, <2>1
<1>5. Within(pairs, m) = Next(pairs, Within(pairs, m - 1))
  BY <1>3, WithinSteps
<1>6. Within(pairs, j) \subseteq Within(pairs, m)
  BY <1>4, <1>5 DEF Next
<1> QED
  BY <1>6

\* More pairs lead to more nodes, and to no others.
LEMMA WithinMore ==
  ASSUME NEW pairs, NEW more, pairs \subseteq more, NEW n \in Nat
  PROVE  Within(pairs, n) \subseteq Within(more, n)
<1> DEFINE Fails == {m \in Nat : ~(Within(pairs, m) \subseteq Within(more, m))}
<1> SUFFICES ASSUME Fails # {} PROVE FALSE
  OBVIOUS
<1>1. PICK m \in Fails : \A i \in Fails : m <= i
  <2>1. Fails \subseteq Nat
    OBVIOUS
  <2> HIDE DEF Fails
  <2> QED
    BY <2>1, LeastNumber
<1>2. m # 0 /\ m \in Nat
  BY WithinSteps
<1>3. m - 1 \in Nat /\ ~(m <= m - 1) /\ (m - 1) + 1 = m
  BY <1>2
<1>4. Within(pairs, m - 1) \subseteq Within(more, m - 1)
  <2>1. m - 1 \notin Fails
    <3> HIDE DEF Fails
    <3> QED
      BY <1>1, <1>3
  <2> QED
    BY <1>3, <2>1
<1>5. /\ Within(pairs, m) = Next(pairs, Within(pairs, m - 1))
      /\ Within(more, m) = Next(more, Within(more, m - 1))
  BY <1>3, WithinSteps
<1>6. Within(pairs, m) \subseteq Within(more, m)
  BY <1>4, <1>5 DEF Next
<1> QED
  BY <1>6

\* The node n is at a distance of d.
Distant(n, d) ==
  /\ n \in Within(Candidates, d)
  /\ d > 0 => n \notin Within(Candidates, d - 1)

LEMMA OneDistance ==
  ASSUME NEW n, NEW d \in Nat, NEW e \in Nat, Distant(n, d), n \in Within(Candidates, e)
  PROVE  d <= e
<1> SUFFICES ASSUME e < d PROVE FALSE
  OBVIOUS
<1>1. d > 0 /\ d - 1 \in Nat /\ e <= d - 1
  OBVIOUS
<1> QED
  BY <1>1, WithinGrows DEF Distant

Entry == [node : Node, depth : Nat]

\* A node that was found is to be looked at, or is as far away as may be, or
\* what comes after it was found.
Done(n) ==
  \/ \E i \in DOMAIN queue : queue[i].node = n
  \/ Distant(n, limit)
  \/ \A m \in Node : <<n, m>> \in Candidates => m \in visited

RadiusTypeOK ==
  /\ rank \in [Node -> Rank \cup {NoRank}]
  /\ limit \in Nat /\ limit > 0
  /\ visited \subseteq Node
  /\ queue \in Seq(Entry)
  /\ impacted \subseteq Entry

\* What comes first in the queue is nearest, and the rest is next to it.
Ordered(q) ==
  /\ \A i, j \in DOMAIN q : i <= j => q[i].depth <= q[j].depth
  /\ \A i \in DOMAIN q : q[i].depth <= q[1].depth + 1

RadiusInv ==
  /\ RadiusTypeOK
  /\ Ordered(queue)
  /\ \A i \in DOMAIN queue : Distant(queue[i].node, queue[i].depth) /\ queue[i].depth <= limit
  /\ \A s \in impacted : Distant(s.node, s.depth) /\ s.depth \in 1 .. limit
  /\ visited = {Root} \cup {s.node : s \in impacted}
  /\ \A n \in visited : Done(n)

\* A search has found what is no farther than what it looks at next.
LEMMA FoundSoFar ==
  ASSUME RadiusInv, NEW d \in Nat, d <= limit,
         \A i \in DOMAIN queue : d <= queue[i].depth
  PROVE  Within(Candidates, d) \subseteq visited
<1> DEFINE Fails == {k \in 0 .. d : ~(Within(Candidates, k) \subseteq visited)}
<1> SUFFICES ASSUME Fails # {} PROVE FALSE
  <2>1. d \in 0 .. d
    OBVIOUS
  <2> QED
    BY <2>1
<1>1. PICK k \in Fails : \A j \in Fails : k <= j
  <2>1. Fails \subseteq Nat
    OBVIOUS
  <2> HIDE DEF Fails
  <2> QED
    BY <2>1, LeastNumber
<1>2. k \in 0 .. d /\ ~(Within(Candidates, k) \subseteq visited)
  OBVIOUS
<1>3. k # 0
  BY <1>2, WithinSteps DEF RadiusInv
<1>4. k - 1 \in Nat /\ k - 1 \in 0 .. d /\ ~(k <= k - 1) /\ (k - 1) + 1 = k /\ k <= d
  BY <1>2, <1>3
<1>5. Within(Candidates, k - 1) \subseteq visited
  <2>1. k - 1 \notin Fails
    <3> HIDE DEF Fails
    <3> QED
      BY <1>1, <1>4
  <2> QED
    BY <1>4, <2>1
<1>6. Within(Candidates, k) = Next(Candidates, Within(Candidates, k - 1))
  BY <1>4, WithinSteps
<1>7. PICK m \in Node, l \in Within(Candidates, k - 1) : <<l, m>> \in Candidates /\ m \notin visited
  BY <1>2, <1>5, <1>6 DEF Next
<1>8. Done(l)
  BY <1>5, <1>7 DEF RadiusInv
<1>9. ~\E i \in DOMAIN queue : queue[i].node = l
  <2> SUFFICES ASSUME NEW i \in DOMAIN queue, queue[i].node = l PROVE FALSE
    OBVIOUS
  <2>1. Distant(l, queue[i].depth) /\ queue[i].depth \in Nat /\ d <= queue[i].depth
    <3>1. queue[i] \in Entry
      BY DEF RadiusInv, RadiusTypeOK
    <3> QED
      BY <3>1 DEF RadiusInv, Entry
  <2>2. queue[i].depth <= k - 1
    BY <1>4, <1>7, <2>1, OneDistance
  <2> QED
    BY <1>4, <2>1, <2>2
<1>10. ~Distant(l, limit)
  <2> SUFFICES ASSUME Distant(l, limit) PROVE FALSE
    OBVIOUS
  <2>1. limit \in Nat
    BY DEF RadiusInv, RadiusTypeOK
  <2>2. limit <= k - 1
    BY <1>4, <1>7, <2>1, OneDistance
  <2> QED
    BY <1>4, <2>1, <2>2
<1> QED
  BY <1>7, <1>8, <1>9, <1>10 DEF Done

LEMMA RadiusInitInv == RadiusInit => RadiusInv
<1> SUFFICES ASSUME RadiusInit PROVE RadiusInv
  OBVIOUS
<1>1. limit \in Nat /\ limit > 0
  BY RadiusAssumption DEF RadiusInit, DepthLimit
<1>2. Distant(Root, 0)
  BY WithinSteps DEF Distant
<1>3. /\ queue = <<[node |-> Root, depth |-> 0]>> /\ visited = {Root} /\ impacted = {}
      /\ DOMAIN queue = {1} /\ queue[1].node = Root /\ queue[1].depth = 0
  BY DEF RadiusInit
<1>4. RadiusTypeOK
  BY <1>1, <1>3, RadiusAssumption DEF RadiusTypeOK, Entry, RadiusInit
<1> QED
  BY <1>1, <1>2, <1>3, <1>4 DEF RadiusInv, Ordered, Done

\* What was found in a round, in some order, is put in the queue.
LEMMA Enqueued ==
  ASSUME queue \in Seq(Entry), queue # << >>, NEW new, new \subseteq Node,
         NEW o \in Orders(new), NEW d \in Nat,
         queue' = Enqueue([i \in DOMAIN o |-> [node |-> o[i], depth |-> d + 1]])
  PROVE  /\ queue' \in Seq(Entry)
         /\ \A i \in DOMAIN queue' :
              \/ i < Len(queue) /\ queue'[i] = queue[i + 1]
              \/ /\ i >= Len(queue)
                 /\ queue'[i].node \in new /\ queue'[i].depth = d + 1
         /\ \A i \in DOMAIN queue : i = 1 \/ (i - 1 \in DOMAIN queue' /\ queue'[i - 1] = queue[i])
         /\ \A m \in new : \E i \in DOMAIN queue' : queue'[i].node = m
<1> DEFINE N == Cardinality(new)
           found == [i \in DOMAIN o |-> [node |-> o[i], depth |-> d + 1]]
<1>1. IsFiniteSet(new) /\ N \in Nat
  BY RadiusAssumption, FS_Subset, FS_CardinalityType
<1>2. o \in [1 .. N -> new] /\ \A i, j \in 1 .. N : o[i] = o[j] => i = j
  BY DEF Orders
<1>3. o \in Surjection(1 .. N, new)
  <2>1. o \in Injection(1 .. N, new)
    BY <1>2 DEF Injection, IsInjective
  <2>2. Cardinality(1 .. N) = N
    BY <1>1, FS_Interval
  <2> HIDE DEF N
  <2> QED
    BY <1>1, <2>1, <2>2, FS_Injection DEF N
<1> HIDE DEF N
<1>4. /\ found \in Seq(Entry) /\ Len(found) = N
      /\ \A i \in 1 .. N : found[i].node = o[i] /\ found[i].depth = d + 1 /\ o[i] \in new
  <2>1. \A i \in 1 .. N : found[i] \in Entry
    BY <1>2 DEF Entry
  <2>2. found \in [1 .. N -> Entry]
    BY <1>2, <2>1
  <2>3. \A i \in 1 .. N : found[i].node = o[i] /\ found[i].depth = d + 1 /\ o[i] \in new
    BY <1>2
  <2> HIDE DEF found
  <2> QED
    BY <1>1, <2>2, <2>3
<1> HIDE DEF found
<1>5. queue' = Tail(queue) \o found
  BY DEF Enqueue, found
<1>6. /\ Tail(queue) \in Seq(Entry) /\ Len(queue) \in Nat /\ Len(queue) > 0
      /\ Len(Tail(queue)) = Len(queue) - 1
      /\ \A i \in 1 .. Len(queue) - 1 : Tail(queue)[i] = queue[i + 1]
  OBVIOUS
<1>7. /\ queue' \in Seq(Entry) /\ Len(queue') = Len(queue) - 1 + N
      /\ \A i \in 1 .. Len(queue) - 1 : queue'[i] = queue[i + 1]
      /\ \A i \in 1 .. N : queue'[Len(queue) - 1 + i] = found[i]
  <2> DEFINE rest == Tail(queue)
  <2>1. /\ rest \in Seq(Entry) /\ Len(rest) = Len(queue) - 1 /\ Len(rest) \in Nat
        /\ \A i \in 1 .. Len(rest) : rest[i] = queue[i + 1]
    BY <1>6
  <2> HIDE DEF rest
  <2>2. /\ rest \o found \in Seq(Entry) /\ Len(rest \o found) = Len(rest) + N
        /\ \A i \in 1 .. Len(rest) : (rest \o found)[i] = rest[i]
        /\ \A i \in 1 .. N : (rest \o found)[Len(rest) + i] = found[i]
    <3>1. rest \in Seq(Entry) /\ found \in Seq(Entry) /\ Len(found) = N
      BY <1>4, <2>1
    <3>2. rest \o found \in Seq(Entry) /\ Len(rest \o found) = Len(rest) + N
      BY <3>1, ConcatProperties
    <3>3. \A i \in 1 .. Len(rest) : (rest \o found)[i] = rest[i]
      BY <3>1
    <3>4. ASSUME NEW i \in 1 .. N
          PROVE  (rest \o found)[Len(rest) + i] = found[i]
      BY <3>1
    <3> QED
      BY <3>2, <3>3, <3>4
  <2> QED
    BY <1>5, <2>1, <2>2 DEF rest
<1>8. DOMAIN queue' = 1 .. Len(queue) - 1 + N /\ DOMAIN queue = 1 .. Len(queue)
  BY <1>7
<1>9. ASSUME NEW i \in DOMAIN queue'
      PROVE  \/ i < Len(queue) /\ queue'[i] = queue[i + 1]
             \/ /\ i >= Len(queue)
                /\ queue'[i].node \in new /\ queue'[i].depth = d + 1
  <2>1. CASE i < Len(queue)
    <3>1. i \in 1 .. Len(queue) - 1
      BY <1>6, <1>8, <2>1
    <3> QED
      BY <1>7, <2>1, <3>1
  <2>2. CASE i >= Len(queue)
    <3> DEFINE j == i - (Len(queue) - 1)
    <3>1. j \in 1 .. N /\ i = Len(queue) - 1 + j
      BY <1>1, <1>6, <1>8, <2>2
    <3> HIDE DEF j
    <3> QED
      BY <1>4, <1>7, <2>2, <3>1
  <2> QED
    BY <1>6, <1>8, <2>1, <2>2
<1>10. ASSUME NEW i \in DOMAIN queue, i # 1
       PROVE  i - 1 \in DOMAIN queue' /\ queue'[i - 1] = queue[i]
  <2>1. i - 1 \in 1 .. Len(queue) - 1 /\ (i - 1) + 1 = i /\ i - 1 \in DOMAIN queue'
    BY <1>1, <1>6, <1>8, <1>10
  <2> QED
    BY <1>7, <2>1
<1>11. ASSUME NEW m \in new
       PROVE  \E i \in DOMAIN queue' : queue'[i].node = m
  <2>1. PICK j \in 1 .. N : o[j] = m
    BY <1>3 DEF Surjection
  <2>2. Len(queue) - 1 + j \in DOMAIN queue'
    BY <1>1, <1>6, <1>8
  <2> QED
    BY <1>4, <1>7, <2>1, <2>2
<1>12. \A i \in DOMAIN queue : i = 1 \/ (i - 1 \in DOMAIN queue' /\ queue'[i - 1] = queue[i])
  BY <1>10
<1>13. \A i \in DOMAIN queue' :
         \/ i < Len(queue) /\ queue'[i] = queue[i + 1]
         \/ /\ i >= Len(queue)
            /\ queue'[i].node \in new /\ queue'[i].depth = d + 1
  BY <1>9
<1> QED
  BY <1>7, <1>11, <1>12, <1>13

\* The queue stays in order when its head is looked at.
LEMMA OrderStays ==
  ASSUME queue \in Seq(Entry), queue # << >>, Ordered(queue), queue' \in Seq(Entry),
         \A i \in DOMAIN queue' :
           \/ i < Len(queue) /\ queue'[i] = queue[i + 1]
           \/ i >= Len(queue) /\ queue'[i].depth = queue[1].depth + 1
  PROVE  Ordered(queue')
<1>1. /\ Len(queue) \in Nat /\ Len(queue) > 0 /\ DOMAIN queue = 1 .. Len(queue)
      /\ Len(queue') \in Nat /\ DOMAIN queue' = 1 .. Len(queue')
      /\ queue[1].depth \in Nat
  <2>1. queue[1] \in Entry
    OBVIOUS
  <2> QED
    BY <2>1 DEF Entry
<1>2. ASSUME NEW i \in DOMAIN queue'
      PROVE  /\ queue'[i].depth \in Nat /\ queue[1].depth <= queue'[i].depth
             /\ queue'[i].depth <= queue[1].depth + 1
  <2>1. CASE i < Len(queue) /\ queue'[i] = queue[i + 1]
    <3>1. i + 1 \in DOMAIN queue /\ 1 \in DOMAIN queue /\ 1 <= i + 1
      BY <1>1, <2>1
    <3>2. queue[i + 1] \in Entry
      BY <3>1
    <3> QED
      BY <2>1, <3>1, <3>2 DEF Ordered, Entry
  <2>2. CASE queue'[i].depth = queue[1].depth + 1
    BY <1>1, <2>2
  <2> QED
    BY <2>1, <2>2
<1>3. ASSUME NEW i \in DOMAIN queue', NEW j \in DOMAIN queue', i <= j
      PROVE  queue'[i].depth <= queue'[j].depth
  <2>1. CASE j >= Len(queue)
    BY <1>1, <1>2, <2>1
  <2>2. CASE j < Len(queue)
    <3>1. /\ i + 1 \in DOMAIN queue /\ j + 1 \in DOMAIN queue /\ i + 1 <= j + 1
          /\ queue'[i] = queue[i + 1] /\ queue'[j] = queue[j + 1]
      BY <1>1, <1>3, <2>2
    <3> QED
      BY <3>1 DEF Ordered
  <2> QED
    BY <1>1, <2>1, <2>2
<1>4. ASSUME NEW i \in DOMAIN queue'
      PROVE  queue'[i].depth <= queue'[1].depth + 1
  <2>1. 1 \in DOMAIN queue'
    BY <1>1
  <2> QED
    BY <1>1, <1>2, <2>1
<1> QED
  BY <1>3, <1>4 DEF Ordered

LEMMA RoundKeeps ==
  ASSUME RadiusInv, Round
  PROVE  RadiusInv'
<1> DEFINE n == queue[1].node
           d == queue[1].depth
           new == (Along(n) \cup Against(n)) \ visited
<1>1. /\ queue # << >> /\ queue \in Seq(Entry) /\ Head(queue) = queue[1]
      /\ 1 \in DOMAIN queue /\ n \in Node /\ d \in Nat
      /\ UNCHANGED input_vars
  <2>1. queue # << >> /\ queue \in Seq(Entry) /\ UNCHANGED input_vars
    BY DEF Round, RadiusInv, RadiusTypeOK
  <2>2. Head(queue) = queue[1] /\ 1 \in DOMAIN queue /\ queue[1] \in Entry
    BY <2>1
  <2> QED
    BY <2>1, <2>2 DEF Entry
<1>2. /\ rank' = rank /\ links' = links /\ mode' = mode /\ limit' = limit
      /\ Candidates' = Candidates
  BY <1>1 DEF input_vars, Candidates, Along, Against, Outbound, Inbound, Uncertain, Orientation
<1>3. \A m, k : Distant(m, k)' <=> Distant(m, k)
  BY <1>2 DEF Distant
<1>4. /\ limit \in Nat /\ limit > 0 /\ visited \subseteq Node /\ impacted \subseteq Entry
      /\ rank \in [Node -> Rank \cup {NoRank}]
      /\ Distant(n, d) /\ d <= limit /\ Ordered(queue)
  BY <1>1 DEF RadiusInv, RadiusTypeOK
<1>5. Within(Candidates, d) \subseteq visited
  <2>1. \A i \in DOMAIN queue : d <= queue[i].depth
    <3> SUFFICES ASSUME NEW i \in DOMAIN queue PROVE d <= queue[i].depth
      OBVIOUS
    <3>1. 1 <= i
      BY <1>1
    <3> QED
      BY <1>1, <1>4, <3>1 DEF Ordered
  <2> HIDE DEF d
  <2> QED
    BY <1>1, <1>4, <2>1, FoundSoFar
<1>6. \A m \in Node : m \in Along(n) \cup Against(n) <=> <<n, m>> \in Candidates
  BY <1>1 DEF Candidates
<1>7. new \subseteq Node
  BY DEF Along, Against, Outbound, Inbound, Uncertain
<1>8. CASE d >= limit
  <2>1. queue' = Tail(queue) /\ UNCHANGED <<visited, impacted>>
    BY <1>1, <1>4, <1>8 DEF Round
  <2>2. /\ queue' \in Seq(Entry) /\ Len(queue) \in Nat
        /\ Len(queue') = Len(queue) - 1
        /\ \A i \in DOMAIN queue' : i < Len(queue) /\ queue'[i] = queue[i + 1] /\ i + 1 \in DOMAIN queue
        /\ \A i \in DOMAIN queue : i = 1 \/ (i - 1 \in DOMAIN queue' /\ queue'[i - 1] = queue[i])
    BY <1>1, <2>1
  <2>3. Ordered(queue')
    BY <1>1, <1>4, <2>2, OrderStays
  <2>4. \A i \in DOMAIN queue' : Distant(queue'[i].node, queue'[i].depth) /\ queue'[i].depth <= limit
    BY <2>2 DEF RadiusInv
  <2>5. ASSUME NEW m \in visited PROVE Done(m)'
    <3>1. Done(m)
      BY DEF RadiusInv
    <3>2. CASE \E i \in DOMAIN queue : queue[i].node = m
      <4>1. PICK i \in DOMAIN queue : queue[i].node = m
        BY <3>2
      <4>2. CASE i = 1
        <5>1. Distant(m, limit)
          <6>1. d = limit /\ m = n
            BY <1>1, <1>4, <1>8, <4>1, <4>2
          <6> QED
            BY <1>4, <6>1
        <5> QED
          BY <1>2, <1>3, <5>1 DEF Done
      <4>3. CASE i # 1
        BY <2>2, <4>1, <4>3 DEF Done
      <4> QED
        BY <4>2, <4>3
    <3>3. CASE Distant(m, limit)
      BY <1>2, <1>3, <3>3 DEF Done
    <3>4. CASE \A k \in Node : <<m, k>> \in Candidates => k \in visited
      BY <1>2, <2>1, <3>4 DEF Done
    <3> QED
      BY <3>1, <3>2, <3>3, <3>4 DEF Done
  <2>6. RadiusTypeOK'
    BY <1>2, <1>4, <2>1, <2>2 DEF RadiusTypeOK
  <2> QED
    BY <1>2, <1>3, <2>1, <2>3, <2>4, <2>5, <2>6 DEF RadiusInv
<1>9. CASE d < limit
  <2>1. /\ visited' = visited \cup new
        /\ impacted' = impacted \cup {[node |-> m, depth |-> d + 1] : m \in new}
        /\ \E o \in Orders(new) :
             queue' = Enqueue([i \in DOMAIN o |-> [node |-> o[i], depth |-> d + 1]])
    <3>1. ~(d >= limit)
      BY <1>1, <1>4, <1>9
    <3> QED
      BY <1>1, <3>1, Zenon DEF Round
  <2>2. /\ queue' \in Seq(Entry)
        /\ \A i \in DOMAIN queue' :
             \/ i < Len(queue) /\ queue'[i] = queue[i + 1]
             \/ /\ i >= Len(queue)
                /\ queue'[i].node \in new /\ queue'[i].depth = d + 1
        /\ \A i \in DOMAIN queue : i = 1 \/ (i - 1 \in DOMAIN queue' /\ queue'[i - 1] = queue[i])
        /\ \A m \in new : \E i \in DOMAIN queue' : queue'[i].node = m
    <3> HIDE DEF new, d
    <3>1. PICK o \in Orders(new) :
            queue' = Enqueue([i \in DOMAIN o |-> [node |-> o[i], depth |-> d + 1]])
      BY <2>1
    <3> QED
      BY <1>1, <1>7, <3>1, Enqueued
  <2>3. Ordered(queue')
    BY <1>1, <1>4, <2>2, OrderStays
  <2>4. ASSUME NEW m \in new
        PROVE  Distant(m, d + 1)
    <3>1. m \in Node /\ <<n, m>> \in Candidates /\ m \notin visited
      BY <1>6, <1>7
    <3>2. m \in Within(Candidates, d + 1)
      <4>1. Within(Candidates, d + 1) = Next(Candidates, Within(Candidates, d))
        BY <1>1, WithinSteps
      <4>2. n \in Within(Candidates, d)
        BY <1>4 DEF Distant
      <4> HIDE DEF n, d, new
      <4> QED
        BY <3>1, <4>1, <4>2 DEF Next
    <3>3. m \notin Within(Candidates, d)
      BY <1>5, <3>1
    <3>4. (d + 1) - 1 = d
      BY <1>1
    <3> QED
      BY <3>2, <3>3, <3>4 DEF Distant
  <2> HIDE DEF new, d, n
  <2>5. \A i \in DOMAIN queue' : Distant(queue'[i].node, queue'[i].depth) /\ queue'[i].depth <= limit
    <3> SUFFICES ASSUME NEW i \in DOMAIN queue'
                 PROVE  Distant(queue'[i].node, queue'[i].depth) /\ queue'[i].depth <= limit
      OBVIOUS
    <3>1. CASE i < Len(queue) /\ queue'[i] = queue[i + 1]
      <4>1. i + 1 \in DOMAIN queue
        BY <1>1, <2>2, <3>1
      <4> QED
        BY <3>1, <4>1 DEF RadiusInv
    <3>2. CASE queue'[i].node \in new /\ queue'[i].depth = d + 1
      BY <1>1, <1>4, <1>9, <2>4, <3>2
    <3> QED
      BY <2>2, <3>1, <3>2
  <2>6. \A s \in impacted' : Distant(s.node, s.depth) /\ s.depth \in 1 .. limit
    <3>1. d + 1 \in 1 .. limit
      BY <1>1, <1>4, <1>9
    <3> QED
      BY <2>1, <2>4, <3>1 DEF RadiusInv
  <2>7. visited' = {Root} \cup {s.node : s \in impacted'}
    <3> DEFINE found == {[node |-> m, depth |-> d + 1] : m \in new}
    <3>1. {s.node : s \in found} = new
      <4>1. \A m \in new : [node |-> m, depth |-> d + 1] \in found
        OBVIOUS
      <4>2. \A s \in found : s.node \in new
        OBVIOUS
      <4> QED
        BY <4>1, <4>2
    <3> HIDE DEF found
    <3>2. visited = {Root} \cup {s.node : s \in impacted}
      BY DEF RadiusInv
    <3>3. impacted' = impacted \cup found /\ visited' = visited \cup new
      BY <2>1 DEF found
    <3> QED
      BY <3>1, <3>2, <3>3
  <2>8. ASSUME NEW m \in visited' PROVE Done(m)'
    <3>1. CASE m \in new
      BY <2>2, <3>1 DEF Done
    <3>2. CASE m \in visited
      <4>1. Done(m)
        BY <3>2 DEF RadiusInv
      <4>2. CASE \E i \in DOMAIN queue : queue[i].node = m
        <5>1. PICK i \in DOMAIN queue : queue[i].node = m
          BY <4>2
        <5>2. CASE i = 1
          <6>1. \A k \in Node : <<m, k>> \in Candidates => k \in visited'
            BY <1>6, <2>1, <5>1, <5>2 DEF n, new
          <6> QED
            BY <1>2, <6>1 DEF Done
        <5>3. CASE i # 1
          BY <2>2, <5>1, <5>3 DEF Done
        <5> QED
          BY <5>2, <5>3
      <4>3. CASE Distant(m, limit)
        BY <1>2, <1>3, <4>3 DEF Done
      <4>4. CASE \A k \in Node : <<m, k>> \in Candidates => k \in visited
        BY <1>2, <2>1, <4>4 DEF Done
      <4> QED
        BY <4>1, <4>2, <4>3, <4>4 DEF Done
    <3> QED
      BY <2>1, <3>1, <3>2
  <2>9. RadiusTypeOK'
    <3>1. impacted' \subseteq Entry
      BY <1>1, <1>4, <1>7, <2>1 DEF Entry
    <3> QED
      BY <1>2, <1>4, <1>7, <2>1, <2>2, <3>1 DEF RadiusTypeOK
  <2> QED
    BY <1>2, <1>3, <2>3, <2>5, <2>6, <2>7, <2>8, <2>9 DEF RadiusInv
<1> QED
  BY <1>1, <1>4, <1>8, <1>9

LEMMA RadiusStutters ==
  ASSUME RadiusInv, UNCHANGED radius_vars
  PROVE  RadiusInv'
<1>1. UNCHANGED <<rank, links, mode, limit, visited, queue, impacted>>
  BY DEF radius_vars
<1>2. Candidates' = Candidates
  BY <1>1 DEF Candidates, Along, Against, Outbound, Inbound, Uncertain, Orientation
<1> QED
  BY <1>1, <1>2 DEF RadiusInv, RadiusTypeOK, Distant, Done

\* Every node that was found but the root is impacted once.
LEMMA ImpactedOnce ==
  ASSUME RadiusInv
  PROVE  Cardinality(impacted) = Cardinality(visited) - 1
<1> DEFINE f == [s \in impacted |-> s.node]
           others == visited \ {Root}
<1>1. /\ impacted \subseteq Entry /\ visited = {Root} \cup {s.node : s \in impacted}
      /\ visited \subseteq Node
      /\ \A s \in impacted : Distant(s.node, s.depth) /\ s.depth \in Nat /\ s.depth > 0
  BY DEF RadiusInv, RadiusTypeOK
<1>2. \A s \in impacted : s.node # Root
  <2> SUFFICES ASSUME NEW s \in impacted, s.node = Root PROVE FALSE
    OBVIOUS
  <2>1. Root \in Within(Candidates, 0)
    BY WithinSteps
  <2>2. s.depth <= 0
    BY <1>1, <2>1, OneDistance
  <2> QED
    BY <1>1, <2>2
<1>3. \A s, t \in impacted : s.node = t.node => s = t
  <2> SUFFICES ASSUME NEW s \in impacted, NEW t \in impacted, s.node = t.node PROVE s = t
    OBVIOUS
  <2>1. s.depth <= t.depth /\ t.depth <= s.depth
    BY <1>1, OneDistance DEF Distant
  <2>2. s.depth = t.depth
    BY <1>1, <2>1
  <2> QED
    BY <1>1, <2>2 DEF Entry
<1>4. f \in Injection(impacted, others) /\ f \in Surjection(impacted, others)
  BY <1>1, <1>2, <1>3 DEF Injection, Surjection, IsInjective
<1>5. IsFiniteSet(visited) /\ Root \in visited
  BY <1>1, RadiusAssumption, FS_Subset
<1>6. IsFiniteSet(others) /\ Cardinality(others) = Cardinality(visited) - 1
  BY <1>5, FS_RemoveElement
<1> HIDE DEF f, others
<1>7. Cardinality(impacted) = Cardinality(others)
  BY <1>4, <1>6, FS_Injection
<1> QED
  BY <1>6, <1>7

\* In mode "auto" a link that does not lead upstream is followed.
LEMMA NotUpstreamFollowed ==
  ASSUME RadiusTypeOK, mode = "auto"
  PROVE  NotUpstream \subseteq Candidates
<1> SUFFICES ASSUME NEW p \in Node \X Node, p \in NotUpstream PROVE p \in Candidates
  BY DEF NotUpstream
<1>1. p = <<p[1], p[2]>> /\ p[1] \in Node /\ p[2] \in Node
  OBVIOUS
<1>2. CASE p \in links
  BY <1>1, <1>2 DEF Candidates, Along, Outbound
<1>3. CASE <<p[2], p[1]>> \in links
  <2>1. Orientation(p[1], p[2]) # "low"
    BY DEF NotUpstream
  <2>2. Orientation(p[1], p[2]) \in {"medium", "high"}
    BY <2>1 DEF Orientation
  <2>3. Orientation(p[2], p[1]) \in {"medium", "low"}
    <3> SUFFICES ASSUME Orientation(p[2], p[1]) = "high" PROVE FALSE
      BY DEF Orientation
    <3>1. \A n \in Node : rank[n] \in Int
      <4>1. \A n \in Node : rank[n] \in Rank \cup {NoRank}
        BY DEF RadiusTypeOK
      <4>2. Rank \subseteq Nat
        BY RadiusAssumption, Zenon
      <4>3. Rank \subseteq Int /\ NoRank \in Int
        BY <4>2 DEF NoRank
      <4> QED
        BY <4>1, <4>3, Zenon
    <3> QED
      BY <1>1, <2>1, <3>1 DEF Orientation
  <2>4. p[2] \in Uncertain(p[1])
    BY <1>1, <1>3, <2>3 DEF Uncertain, Inbound
  <2> QED
    BY <1>1, <2>4 DEF Candidates, Against
<1> QED
  BY <1>2, <1>3 DEF NotUpstream

LEMMA RadiusInvImplies == RadiusInv => SearchExact
<1> SUFFICES ASSUME RadiusInv, queue = << >> PROVE SearchExact
  BY DEF SearchExact
<1>1. limit \in Nat
  BY DEF RadiusInv, RadiusTypeOK
<1>2. Within(Candidates, limit) \subseteq visited
  BY <1>1, FoundSoFar
<1>3. visited \subseteq Within(Candidates, limit)
  <2> SUFFICES ASSUME NEW m \in visited PROVE m \in Within(Candidates, limit)
    OBVIOUS
  <2>1. CASE m = Root
    BY <1>1, <2>1, WithinSteps, WithinGrows
  <2>2. CASE m # Root
    <3>1. PICK s \in impacted : m = s.node /\ Distant(s.node, s.depth) /\ s.depth \in 1 .. limit
      BY <2>2 DEF RadiusInv
    <3>2. s.depth \in Nat /\ s.depth <= limit
      BY <1>1, <3>1
    <3> QED
      BY <1>1, <3>1, <3>2, WithinGrows DEF Distant
  <2> QED
    BY <2>1, <2>2
<1>4. \A s \in impacted : /\ s.node \in Within(Candidates, s.depth)
                          /\ s.node \notin Within(Candidates, s.depth - 1)
  BY <1>1 DEF RadiusInv, Distant
<1>5. Cardinality(impacted) = Cardinality(visited) - 1
  BY ImpactedOnce
<1>6. mode = "auto" => Within(NotUpstream, limit) \subseteq visited
  BY <1>1, <1>2, NotUpstreamFollowed, WithinMore DEF RadiusInv
<1> QED
  BY <1>2, <1>3, <1>4, <1>5, <1>6 DEF SearchExact

(* A search that is over has found what is within its limit, each node     *)
(* once and at its distance, in any topology, whatever the roles are and   *)
(* in whichever order the links of a node came (topology_impact.py).       *)
THEOREM SearchesAreExact == RadiusSpec => []SearchExact
<1>1. RadiusInv /\ [Round]_radius_vars => RadiusInv'
  BY RoundKeeps, RadiusStutters
<1> QED
  BY <1>1, RadiusInitInv, RadiusInvImplies, PTL DEF RadiusSpec

-----------------------------------------------------------------------------
(* ServiceScores.  Sums.                                                   *)
\* Induction over the subsets of a finite set.
LEMMA SubsetInduction ==
  ASSUME NEW D, IsFiniteSet(D), NEW P,
         \A s \in SUBSET D : (\A x \in s : s \ {x} \in P) => s \in P
  PROVE  \A s \in SUBSET D : s \in P
<1> SUFFICES ASSUME NEW t \in SUBSET D, t \notin P PROVE FALSE
  OBVIOUS
<1> DEFINE Fails == {Cardinality(s) : s \in (SUBSET D) \ P}
<1>1. \A s \in SUBSET D : IsFiniteSet(s) /\ Cardinality(s) \in Nat
  BY FS_Subset, FS_CardinalityType
<1>2. PICK n \in Fails : \A m \in Fails : n <= m
  <2>1. Fails \subseteq Nat
    BY <1>1
  <2>2. Cardinality(t) \in Fails
    OBVIOUS
  <2> HIDE DEF Fails
  <2> QED
    BY <2>1, <2>2, LeastNumber
<1>3. PICK s \in (SUBSET D) \ P : Cardinality(s) = n
  OBVIOUS
<1>4. ASSUME NEW x \in s PROVE s \ {x} \in P
  <2>1. Cardinality(s \ {x}) = Cardinality(s) - 1
    BY <1>1, FS_RemoveElement
  <2>2. s \ {x} \in SUBSET D /\ ~(n <= Cardinality(s \ {x}))
    BY <1>1, <1>3, <2>1
  <2> QED
    BY <1>2, <2>2
<1> QED
  BY <1>3, <1>4

\* The recursive function of MapThenSumSet.
IsSum(f, sum) ==
  sum = [s \in SUBSET DOMAIN f |->
           IF s = {} THEN 0
           ELSE LET x == CHOOSE x \in s : TRUE IN f[x] + sum[s \ {x}]]

SumOf(f) == CHOOSE sum : IsSum(f, sum)

LEMMA TotalIsSum ==
  ASSUME NEW f
  PROVE  Total(f) = SumOf(f)[DOMAIN f]
BY DEF Total, MapThenSumSet, MapThenFoldSet, IsSum, SumOf

Small(f, n) == {s \in SUBSET DOMAIN f : Cardinality(s) <= n}

\* The same of the sets up to a size.
IsSumTo(f, n, sum) ==
  sum = [s \in Small(f, n) |->
           IF s = {} THEN 0
           ELSE LET x == CHOOSE x \in s : TRUE IN f[x] + sum[s \ {x}]]

LEMMA SumsToExist ==
  ASSUME NEW f, IsFiniteSet(DOMAIN f), NEW n \in Nat
  PROVE  \E sum : IsSumTo(f, n, sum)
<1> DEFINE Fails == {m \in Nat : ~\E sum : IsSumTo(f, m, sum)}
<1> SUFFICES ASSUME Fails # {} PROVE FALSE
  OBVIOUS
<1>1. PICK m \in Fails : \A j \in Fails : m <= j
  <2>1. Fails \subseteq Nat
    OBVIOUS
  <2> HIDE DEF Fails
  <2> QED
    BY <2>1, LeastNumber
<1>2. m \in Nat /\ ~\E sum : IsSumTo(f, m, sum)
  OBVIOUS
<1>3. \A s \in SUBSET DOMAIN f : /\ IsFiniteSet(s) /\ Cardinality(s) \in Nat
                                 /\ Cardinality(s) = 0 <=> s = {}
  BY FS_Subset, FS_CardinalityType, FS_EmptySet
<1>4. \A s \in SUBSET DOMAIN f : \A x \in s :
        Cardinality(s \ {x}) = Cardinality(s) - 1 /\ s \ {x} \in SUBSET DOMAIN f
  BY <1>3, FS_RemoveElement
<1> HIDE DEF Fails
<1> DEFINE x(s) == CHOOSE x \in s : TRUE
<1>5. \A s : s # {} => x(s) \in s
  OBVIOUS
<1> HIDE DEF x
<1>6. CASE m = 0
  <2> DEFINE sum == [s \in Small(f, 0) |-> 0]
  <2>1. \A s \in Small(f, 0) : s = {}
    BY <1>3 DEF Small
  <2>2. sum = [s \in Small(f, 0) |->
                 IF s = {} THEN 0
                 ELSE LET y == CHOOSE y \in s : TRUE IN f[y] + sum[s \ {y}]]
    BY <2>1
  <2> QED
    BY <1>2, <1>6, <2>2 DEF IsSumTo
<1>7. CASE m # 0
  <2>1. m - 1 \in Nat /\ ~(m <= m - 1)
    BY <1>2, <1>7
  <2>2. PICK less : IsSumTo(f, m - 1, less)
    <3>1. m - 1 \notin Fails
      BY <1>1, <2>1
    <3> QED
      BY <2>1, <3>1 DEF Fails
  <2> DEFINE sum == [s \in Small(f, m) |->
                       IF s \in Small(f, m - 1) THEN less[s] ELSE f[x(s)] + less[s \ {x(s)}]]
  <2>3. ASSUME NEW s \in Small(f, m)
        PROVE  sum[s] = IF s = {} THEN 0 ELSE f[x(s)] + sum[s \ {x(s)}]
    <3>1. s \in SUBSET DOMAIN f /\ Cardinality(s) \in Nat /\ Cardinality(s) <= m
      BY <1>3 DEF Small
    <3>2. s # {} => /\ s \ {x(s)} \in Small(f, m - 1) /\ s \ {x(s)} \in Small(f, m)
                    /\ Cardinality(s) - 1 <= m - 1
      BY <1>2, <1>4, <1>5, <3>1 DEF Small
    <3>3. s # {} => sum[s \ {x(s)}] = less[s \ {x(s)}]
      BY <3>2
    <3>4. CASE s \in Small(f, m - 1)
      <4>1. less[s] = IF s = {} THEN 0 ELSE f[x(s)] + less[s \ {x(s)}]
        BY <2>2, <3>4 DEF IsSumTo, x
      <4> QED
        BY <3>3, <3>4, <4>1
    <3>5. CASE s \notin Small(f, m - 1)
      <4>1. s # {}
        BY <1>3, <2>1, <3>1, <3>5 DEF Small
      <4> QED
        BY <3>3, <3>5, <4>1
    <3> QED
      BY <3>4, <3>5
  <2>4. sum = [s \in Small(f, m) |-> sum[s]]
    OBVIOUS
  <2> HIDE DEF sum
  <2>5. IsSumTo(f, m, sum)
    BY <2>3, <2>4 DEF IsSumTo, x
  <2> QED
    BY <1>2, <2>5
<1> QED
  BY <1>6, <1>7

LEMMA SumExists ==
  ASSUME NEW f, IsFiniteSet(DOMAIN f)
  PROVE  IsSum(f, SumOf(f))
<1> DEFINE n == Cardinality(DOMAIN f)
<1>1. n \in Nat
  BY FS_CardinalityType
<1>2. PICK sum : IsSumTo(f, n, sum)
  <2> HIDE DEF n
  <2> QED
    BY <1>1, SumsToExist
<1>3. Small(f, n) = SUBSET DOMAIN f
  BY FS_Subset DEF Small
<1>4. IsSum(f, sum)
  BY <1>2, <1>3 DEF IsSum, IsSumTo
<1> QED
  BY <1>4 DEF SumOf

\* What a sum over whole numbers does: whichever of them is taken out.
LEMMA SumType ==
  ASSUME NEW f, IsFiniteSet(DOMAIN f), \A x \in DOMAIN f : f[x] \in Int
  PROVE  SumOf(f)[{}] = 0 /\ \A s \in SUBSET DOMAIN f : SumOf(f)[s] \in Int
<1> DEFINE D == DOMAIN f
           sum == SumOf(f)
           c(s) == CHOOSE x \in s : TRUE
           P == {s \in SUBSET D : sum[s] \in Int}
<1>1. /\ sum[{}] = 0
      /\ \A s \in SUBSET D : s # {} => sum[s] = f[c(s)] + sum[s \ {c(s)}]
  BY SumExists DEF IsSum
<1>2. \A s : s # {} => c(s) \in s
  OBVIOUS
<1> HIDE DEF sum, c
<1>3. ASSUME NEW s \in SUBSET D, \A x \in s : s \ {x} \in P
      PROVE  sum[s] \in Int
  <2>1. CASE s = {}
    BY <1>1, <2>1
  <2>2. CASE s # {}
    <3>1. c(s) \in s /\ f[c(s)] \in Int /\ sum[s \ {c(s)}] \in Int
      BY <1>2, <1>3, <2>2
    <3>2. sum[s] = f[c(s)] + sum[s \ {c(s)}]
      BY <1>1, <2>2
    <3> QED
      BY <3>1, <3>2
  <2> QED
    BY <2>1, <2>2
<1>4. \A s \in SUBSET D : s \in P
  <2>1. \A s \in SUBSET D : (\A x \in s : s \ {x} \in P) => s \in P
    BY <1>3
  <2>2. IsFiniteSet(D)
    OBVIOUS
  <2> HIDE DEF P, D
  <2> QED
    BY <2>1, <2>2, SubsetInduction
<1> QED
  BY <1>1, <1>4 DEF sum

LEMMA SumTakes ==
  ASSUME NEW f, IsFiniteSet(DOMAIN f), \A x \in DOMAIN f : f[x] \in Int
  PROVE  /\ SumOf(f)[{}] = 0
         /\ \A s \in SUBSET DOMAIN f :
              /\ SumOf(f)[s] \in Int
              /\ \A x \in s : SumOf(f)[s] = f[x] + SumOf(f)[s \ {x}]
<1> DEFINE D == DOMAIN f
           sum == SumOf(f)
           c(s) == CHOOSE x \in s : TRUE
           Right(s) == sum[s] \in Int /\ \A x \in s : sum[s] = f[x] + sum[s \ {x}]
           P == {s \in SUBSET D : Right(s)}
<1>1. /\ sum[{}] = 0
      /\ \A s \in SUBSET D : s # {} => sum[s] = f[c(s)] + sum[s \ {c(s)}]
  BY SumExists DEF IsSum
<1>2. \A s : s # {} => c(s) \in s
  OBVIOUS
<1> HIDE DEF sum, c
<1>3. sum[{}] = 0
  BY <1>1
<1>4. ASSUME NEW s \in SUBSET D, \A x \in s : s \ {x} \in P
      PROVE  Right(s)
  <2>1. CASE s = {}
    BY <1>3, <2>1
  <2>2. CASE s # {}
    <3> DEFINE d == c(s)
    <3>1. d \in s /\ d \in D /\ f[d] \in Int
      BY <1>2, <2>2
    <3>2. sum[s] = f[d] + sum[s \ {d}]
      BY <1>1, <2>2
    <3> HIDE DEF d
    <3>3. Right(s \ {d})
      BY <1>4, <3>1
    <3>4. ASSUME NEW x \in s
          PROVE  sum[s] = f[x] + sum[s \ {x}]
      <4>1. CASE x = d
        BY <3>2, <4>1
      <4>2. CASE x # d
        <5>1. x \in s \ {d} /\ d \in s \ {x} /\ f[x] \in Int
          BY <3>1, <4>2
        <5>2. sum[s \ {d}] = f[x] + sum[(s \ {d}) \ {x}]
          BY <3>3, <5>1
        <5>3. Right(s \ {x})
          BY <1>4
        <5>4. sum[s \ {x}] = f[d] + sum[(s \ {x}) \ {d}]
          BY <5>1, <5>3
        <5> DEFINE rest == sum[(s \ {d}) \ {x}]
        <5>5. sum[s \ {x}] = f[d] + rest
          <6>1. (s \ {d}) \ {x} = (s \ {x}) \ {d}
            OBVIOUS
          <6> QED
            BY <5>4, <6>1
        <5>6. rest \in Int
          BY SumType DEF sum
        <5> HIDE DEF rest
        <5>7. sum[s] = f[d] + (f[x] + rest)
          BY <3>2, <5>2 DEF rest
        <5> QED
          BY <3>1, <5>1, <5>5, <5>6, <5>7
      <4> QED
        BY <4>1, <4>2
    <3>5. sum[s] \in Int
      BY SumType DEF sum
    <3> QED
      BY <3>4, <3>5
  <2> QED
    BY <2>1, <2>2
<1>5. \A s \in SUBSET D : s \in P
  <2>1. \A s \in SUBSET D : (\A x \in s : s \ {x} \in P) => s \in P
    BY <1>4
  <2>2. IsFiniteSet(D)
    OBVIOUS
  <2> HIDE DEF P, D
  <2> QED
    BY <2>1, <2>2, SubsetInduction
<1> QED
  BY <1>3, <1>5 DEF sum
LEMMA SumNotNegative ==
  ASSUME NEW f, IsFiniteSet(DOMAIN f), \A x \in DOMAIN f : f[x] \in Nat
  PROVE  \A s \in SUBSET DOMAIN f : SumOf(f)[s] \in Nat
<1> DEFINE D == DOMAIN f
           sum == SumOf(f)
           P == {s \in SUBSET D : sum[s] \in Nat}
<1>1. /\ sum[{}] = 0
      /\ \A s \in SUBSET D : \A x \in s : sum[s] = f[x] + sum[s \ {x}]
  BY SumTakes
<1> HIDE DEF sum
<1>2. ASSUME NEW s \in SUBSET D, \A x \in s : s \ {x} \in P
      PROVE  sum[s] \in Nat
  <2>1. CASE s = {}
    BY <1>1, <2>1
  <2>2. CASE s # {}
    <3>1. PICK x \in s : x \in D
      BY <2>2
    <3>2. f[x] \in Nat /\ sum[s \ {x}] \in Nat /\ sum[s] = f[x] + sum[s \ {x}]
      BY <1>1, <1>2, <3>1
    <3> QED
      BY <3>2
  <2> QED
    BY <2>1, <2>2
<1>3. \A s \in SUBSET D : s \in P
  <2>1. \A s \in SUBSET D : (\A x \in s : s \ {x} \in P) => s \in P
    BY <1>2
  <2>2. IsFiniteSet(D)
    OBVIOUS
  <2> HIDE DEF P, D
  <2> QED
    BY <2>1, <2>2, SubsetInduction
<1> QED
  BY <1>3 DEF sum

\* What has at least as much for each thing amounts to at least as much.
LEMMA TotalsCompare ==
  ASSUME NEW f, IsFiniteSet(DOMAIN f), \A x \in DOMAIN f : f[x] \in Int,
         NEW g, IsFiniteSet(DOMAIN g), \A y \in DOMAIN g : g[y] \in Nat,
         NEW h \in Injection(DOMAIN f, DOMAIN g),
         \A x \in DOMAIN f : f[x] <= g[h[x]]
  PROVE  Total(f) \in Int /\ Total(g) \in Nat /\ Total(f) <= Total(g)
<1> DEFINE D == DOMAIN f
           E == DOMAIN g
           F == SumOf(f)
           G == SumOf(g)
           Less(s) == \A t \in SUBSET E : (\A x \in s : h[x] \in t) => F[s] <= G[t]
           P == {s \in SUBSET D : Less(s)}
<1>1. /\ F[{}] = 0
      /\ \A s \in SUBSET D : F[s] \in Int /\ \A x \in s : F[s] = f[x] + F[s \ {x}]
  BY SumTakes
<1>2. \A t \in SUBSET E : G[t] \in Nat
  BY SumNotNegative
<1>3. \A t \in SUBSET E : \A y \in t : G[t] = g[y] + G[t \ {y}]
  <2>1. \A y \in E : g[y] \in Int
    OBVIOUS
  <2> QED
    BY <2>1, SumTakes
<1>4. /\ \A x \in D : h[x] \in E /\ f[x] \in Int /\ g[h[x]] \in Int /\ f[x] <= g[h[x]]
      /\ \A x, y \in D : h[x] = h[y] => x = y
  BY DEF Injection, IsInjective
<1> HIDE DEF F, G
<1>5. ASSUME NEW s \in SUBSET D, \A x \in s : s \ {x} \in P
      PROVE  Less(s)
  <2> SUFFICES ASSUME NEW t \in SUBSET E, \A x \in s : h[x] \in t
               PROVE  F[s] <= G[t]
    OBVIOUS
  <2>1. CASE s = {}
    BY <1>1, <1>2, <2>1
  <2>2. CASE s # {}
    <3>1. PICK x \in s : x \in D
      BY <2>2
    <3> DEFINE u == t \ {h[x]}
    <3>2. u \in SUBSET E /\ \A y \in s \ {x} : h[y] \in u
      BY <1>4, <3>1
    <3>3. Less(s \ {x})
      BY <1>5
    <3>4. F[s \ {x}] <= G[u]
      BY <3>2, <3>3
    <3>5. F[s] = f[x] + F[s \ {x}] /\ F[s \ {x}] \in Int
      BY <1>1, <3>1
    <3>6. G[t] = g[h[x]] + G[u] /\ G[u] \in Int
      <4>1. h[x] \in t
        OBVIOUS
      <4> QED
        BY <1>2, <1>3, <3>2, <4>1
    <3>7. f[x] \in Int /\ g[h[x]] \in Int /\ f[x] <= g[h[x]]
      BY <1>4, <3>1
    <3> HIDE DEF u
    <3> QED
      BY <3>4, <3>5, <3>6, <3>7
  <2> QED
    BY <2>1, <2>2
<1>6. \A s \in SUBSET D : s \in P
  <2>1. \A s \in SUBSET D : (\A x \in s : s \ {x} \in P) => s \in P
    BY <1>5
  <2>2. IsFiniteSet(D)
    OBVIOUS
  <2> HIDE DEF P, D
  <2> QED
    BY <2>1, <2>2, SubsetInduction
<1>7. F[D] <= G[E]
  BY <1>4, <1>6
<1>8. F[D] \in Int /\ G[E] \in Nat
  BY <1>1, <1>2
<1> QED
  BY <1>7, <1>8, TotalIsSum DEF F, G

-----------------------------------------------------------------------------
(* What rounding and clamping keep.                                        *)
LEMMA ClampKeeps ==
  /\ \A n \in Int : Clamp[n] \in 0 .. 100
  /\ \A n, m \in Int : n <= m => Clamp[n] <= Clamp[m]
BY DEF Clamp

LEMMA Quotients ==
  ASSUME NEW n \in Int, NEW m \in Int, n <= m, NEW d \in Nat, d # 0
  PROVE  /\ n \div d \in Int /\ m \div d \in Int /\ n % d \in Int /\ m % d \in Int
         /\ \/ n \div d + 1 <= m \div d
            \/ n \div d = m \div d /\ n % d <= m % d
<1> DEFINE a == n \div d
           b == m \div d
           r == n % d
           s == m % d
<1>1. a \in Int /\ b \in Int /\ r \in 0 .. d - 1 /\ s \in 0 .. d - 1
  OBVIOUS
<1>2. n = d * a + r /\ m = d * b + s
  OBVIOUS
<1> HIDE DEF a, b, r, s
<1>3. CASE b + 1 <= a
  <2>1. d * (b + 1) <= d * a
    BY <1>1, <1>3
  <2>2. d * (b + 1) = d * b + d
    BY <1>1
  <2> QED
    BY <1>1, <1>2, <2>1, <2>2
<1>4. CASE a = b
  BY <1>1, <1>2, <1>4 DEF a, b, r, s
<1>5. CASE a + 1 <= b
  BY <1>1, <1>5 DEF a, b, r, s
<1> QED
  BY <1>1, <1>3, <1>4, <1>5

LEMMA RoundKeepsOrder ==
  ASSUME NEW n \in Int, NEW m \in Int, n <= m, NEW d \in Nat \ {0}
  PROVE  /\ RoundHalfEven(n, d) \in Int /\ RoundHalfEven(m, d) \in Int
         /\ RoundHalfEven(n, d) <= RoundHalfEven(m, d)
<1> DEFINE a == n \div d
           b == m \div d
           r == n % d
           s == m % d
           round(q, t) == IF 2 * t > d \/ (2 * t = d /\ q % 2 = 1) THEN q + 1 ELSE q
<1>1. a \in Int /\ b \in Int /\ r \in Int /\ s \in Int /\ (a + 1 <= b \/ (a = b /\ r <= s))
  BY Quotients
<1>2. RoundHalfEven(n, d) = round(a, r) /\ RoundHalfEven(m, d) = round(b, s)
  BY DEF RoundHalfEven
<1> HIDE DEF a, b, r, s
<1>3. round(a, r) \in Int /\ round(b, s) \in Int
  BY <1>1
<1>4. CASE a + 1 <= b
  BY <1>1, <1>2, <1>4
<1>5. CASE a = b /\ r <= s
  BY <1>1, <1>2, <1>5
<1> QED
  BY <1>1, <1>2, <1>3, <1>4, <1>5
-----------------------------------------------------------------------------
(* Scores.                                                                 *)
Alarm == [on : SUBSET Part, severity : Severity, times : Nat \ {0}]

ScoresTypeOK ==
  /\ standing \in Seq(Alarm)
  /\ down \subseteq Port

LEMMA Penalties ==
  /\ \A severity \in Severity : SeverityWeight[severity] \in Nat
  /\ \A alarm \in Alarm : SeverityPenalty(alarm) \in Nat
  /\ \A a, b \in Alarm :
       /\ SeverityWeight[a.severity] <= SeverityWeight[b.severity]
       /\ a.times <= b.times
       => SeverityPenalty(a) <= SeverityPenalty(b)
<1>1. \A severity \in Severity : SeverityWeight[severity] \in Nat
  BY ScoresAssumption DEF SeverityWeight
<1>2. \A n \in Nat : Min({n, 5}) = IF n <= 5 THEN n ELSE 5
  BY DEF Min
<1> DEFINE counted(n) == Min({n, 5})
<1>3. \A n \in Nat : counted(n) \in Nat
  BY <1>2
<1>4. \A n, m \in Nat : n <= m => counted(n) <= counted(m)
  BY <1>2
<1>5. \A a \in Alarm : /\ SeverityPenalty(a) = SeverityWeight[a.severity] * counted(a.times)
                       /\ a.severity \in Severity /\ a.times \in Nat
  BY DEF SeverityPenalty, Alarm
<1> HIDE DEF counted
<1>6. \A v, w, n, m \in Nat : v <= w /\ n <= m => v * n <= w * m /\ v * n \in Nat
  <2> SUFFICES ASSUME NEW v \in Nat, NEW w \in Nat, NEW n \in Nat, NEW m \in Nat,
                      v <= w, n <= m
               PROVE  v * n <= w * m /\ v * n \in Nat
    OBVIOUS
  <2>1. v * n <= w * n /\ w * n <= w * m
    OBVIOUS
  <2>2. v * n \in Nat /\ w * n \in Nat /\ w * m \in Nat
    OBVIOUS
  <2> QED
    BY <2>1, <2>2
<1>7. \A alarm \in Alarm : SeverityPenalty(alarm) \in Nat
  BY <1>1, <1>3, <1>5
<1>8. ASSUME NEW a \in Alarm, NEW b \in Alarm,
             SeverityWeight[a.severity] <= SeverityWeight[b.severity], a.times <= b.times
      PROVE  SeverityPenalty(a) <= SeverityPenalty(b)
  BY <1>1, <1>3, <1>4, <1>5, <1>6, <1>8
<1> QED
  BY <1>1, <1>7, <1>8

\* The alarm that RepeatAlarm appends.
Again(a, severity) == [a EXCEPT !.times = @ + 1, !.severity = severity]

LEMMA AlarmAgain ==
  ASSUME NEW a \in Alarm, NEW severity \in Severity
  PROVE  /\ Again(a, severity) \in Alarm
         /\ Again(a, severity).on = a.on /\ Again(a, severity).severity = severity
         /\ Again(a, severity).times = a.times + 1
<1> DEFINE n == a.times + 1
<1>1. n \in Nat \ {0} /\ a.on \in SUBSET Part /\ DOMAIN a = {"on", "severity", "times"}
  BY DEF Alarm
<1>2. a = [x \in DOMAIN a |-> a[x]]
  BY DEF Alarm
<1> DEFINE more == [a EXCEPT !.times = n]
           again == [more EXCEPT !.severity = severity]
<1>3. Again(a, severity) = again
  BY DEF Again
<1>4. more = [x \in DOMAIN a |-> IF x = "times" THEN n ELSE a[x]]
  OBVIOUS
<1>5. again = [x \in DOMAIN a |-> IF x = "severity" THEN severity ELSE more[x]]
  OBVIOUS
<1> HIDE DEF n, more, again
<1>6. again.on = a.on /\ again.severity = severity /\ again.times = n
  BY <1>1, <1>4, <1>5
<1>7. again \in Alarm
  BY <1>1, <1>5, <1>6 DEF Alarm
<1> QED
  BY <1>3, <1>6, <1>7 DEF n

LEMMA WithoutType ==
  ASSUME ScoresTypeOK, NEW i \in DOMAIN standing
  PROVE  /\ Without(i) \in Seq(Alarm) /\ Len(Without(i)) = Len(standing) - 1
         /\ \A j \in 1 .. Len(standing) - 1 :
              Without(i)[j] = standing[IF j < i THEN j ELSE j + 1]
<1>1. /\ Len(standing) \in Nat /\ i \in 1 .. Len(standing)
      /\ \A j \in 1 .. Len(standing) : standing[j] \in Alarm
  BY DEF ScoresTypeOK
<1>2. \A j \in 1 .. Len(standing) - 1 : standing[IF j < i THEN j ELSE j + 1] \in Alarm
  BY <1>1
<1>3. Len(standing) - 1 \in Nat
  BY <1>1
<1>4. Without(i) \in [1 .. Len(standing) - 1 -> Alarm]
  BY <1>2 DEF Without
<1> QED
  BY <1>3, <1>4 DEF Without

LEMMA ScoresTypeKept ==
  ASSUME ScoresTypeOK, [ScoresNext]_scores_vars
  PROVE  ScoresTypeOK'
<1>1. ASSUME NEW on \in Reach, NEW severity \in Severity, RaiseAlarm(on, severity)
      PROVE  ScoresTypeOK'
  <2>1. [on |-> on, severity |-> severity, times |-> 1] \in Alarm
    BY ScoresAssumption DEF Alarm
  <2> QED
    BY <1>1, <2>1 DEF RaiseAlarm, ScoresTypeOK
<1>2. ASSUME NEW i \in DOMAIN standing, ClearAlarm(i)
      PROVE  ScoresTypeOK'
  BY <1>2, WithoutType DEF ClearAlarm, ScoresTypeOK
<1>3. ASSUME NEW i \in DOMAIN standing, NEW severity \in Severity, RepeatAlarm(i, severity)
      PROVE  ScoresTypeOK'
  <2>1. standing[i] \in Alarm
    BY DEF ScoresTypeOK
  <2>2. Again(standing[i], severity) \in Alarm
    BY <2>1, AlarmAgain
  <2> QED
    BY <1>3, <2>2, WithoutType DEF RepeatAlarm, ScoresTypeOK, Again
<1>4. ASSUME NEW p \in Port, PortChanges(p)
      PROVE  ScoresTypeOK'
  BY <1>4 DEF PortChanges, ScoresTypeOK
<1>5. CASE UNCHANGED scores_vars
  BY <1>5 DEF scores_vars, ScoresTypeOK
<1> QED
  BY <1>1, <1>2, <1>3, <1>4, <1>5 DEF ScoresNext

\* Each alarm that stood still stands, on the same parts, and weighs no less.
Heavier(h) ==
  /\ h \in Injection(DOMAIN standing, DOMAIN standing')
  /\ \A i \in DOMAIN standing :
       /\ standing'[h[i]].on = standing[i].on
       /\ SeverityPenalty(standing[i]) <= SeverityPenalty(standing'[h[i]])

LEMMA WorseIsHeavier ==
  ASSUME ScoresTypeOK, ScoresTypeOK', Worsens
  PROVE  down \subseteq down' /\ \E h : Heavier(h)
<1>1. /\ Len(standing) \in Nat /\ DOMAIN standing = 1 .. Len(standing)
      /\ \A i \in DOMAIN standing : standing[i] \in Alarm /\ SeverityPenalty(standing[i]) \in Nat
  BY Penalties DEF ScoresTypeOK
<1> DEFINE same == [i \in DOMAIN standing |-> i]
<1>2. ASSUME NEW on \in Reach, NEW severity \in Severity, RaiseAlarm(on, severity)
      PROVE  down \subseteq down' /\ Heavier(same)
  <2>1. /\ Len(standing') = Len(standing) + 1
        /\ \A i \in DOMAIN standing : standing'[i] = standing[i]
        /\ DOMAIN standing' = 1 .. Len(standing')
    BY <1>1, <1>2 DEF RaiseAlarm, ScoresTypeOK
  <2>2. same \in Injection(DOMAIN standing, DOMAIN standing')
    BY <1>1, <2>1 DEF Injection, IsInjective
  <2> QED
    BY <1>1, <1>2, <2>1, <2>2 DEF Heavier, RaiseAlarm
<1>3. ASSUME NEW i \in DOMAIN standing, NEW severity \in Severity, RepeatAlarm(i, severity),
             SeverityWeight[severity] >= SeverityWeight[standing[i].severity]
      PROVE  down \subseteq down' /\ \E h : Heavier(h)
  <2> DEFINE again == Again(standing[i], severity)
             h == [j \in DOMAIN standing |->
                     IF j < i THEN j ELSE IF j = i THEN Len(standing) ELSE j - 1]
  <2>1. /\ standing[i] \in Alarm /\ again \in Alarm /\ again.on = standing[i].on
        /\ again.severity = severity /\ again.times = standing[i].times + 1
    <3>1. standing[i] \in Alarm
      BY <1>1
    <3> QED
      BY <3>1, AlarmAgain
  <2>2. SeverityPenalty(standing[i]) <= SeverityPenalty(again)
    <3>1. /\ SeverityWeight[standing[i].severity] <= SeverityWeight[again.severity]
          /\ standing[i].times <= again.times
      <4>1. SeverityWeight[standing[i].severity] \in Nat /\ SeverityWeight[severity] \in Nat
        BY <2>1, Penalties DEF Alarm
      <4>2. standing[i].times \in Nat
        BY <2>1 DEF Alarm
      <4> QED
        BY <1>3, <2>1, <4>1, <4>2
    <3> HIDE DEF again
    <3> QED
      BY <2>1, <3>1, Penalties
  <2> HIDE DEF again
  <2>3. standing' = Append(Without(i), again) /\ down' = down
    BY <1>3 DEF RepeatAlarm, again, Again
  <2>4. /\ Len(standing') = Len(standing) /\ DOMAIN standing' = 1 .. Len(standing)
        /\ \A j \in 1 .. Len(standing) - 1 : standing'[j] = standing[IF j < i THEN j ELSE j + 1]
        /\ standing'[Len(standing)] = again
    <3> DEFINE w == Without(i)
    <3>1. /\ w \in Seq(Alarm) /\ Len(w) = Len(standing) - 1
          /\ \A j \in 1 .. Len(standing) - 1 : w[j] = standing[IF j < i THEN j ELSE j + 1]
      BY WithoutType
    <3> HIDE DEF w
    <3>2. /\ Len(Append(w, again)) = Len(standing)
          /\ DOMAIN Append(w, again) = 1 .. Len(standing)
          /\ \A j \in 1 .. Len(standing) - 1 : Append(w, again)[j] = w[j]
          /\ Append(w, again)[Len(standing)] = again
      <4> DEFINE n == Len(standing)
      <4>1. n \in Nat /\ n >= 1 /\ (n - 1) + 1 = n
        BY <1>1
      <4> HIDE DEF n
      <4>2. w \in Seq(Alarm) /\ Len(w) = n - 1 /\ again \in Alarm
        BY <2>1, <3>1 DEF n
      <4>3. Append(w, again) \in Seq(Alarm) /\ Len(Append(w, again)) = n
        BY <4>1, <4>2
      <4>4. DOMAIN Append(w, again) = 1 .. n
        BY <4>1, <4>3
      <4>5. Append(w, again)[n] = again
        BY <4>1, <4>2
      <4>6. \A j \in 1 .. n - 1 : Append(w, again)[j] = w[j]
        BY <4>1, <4>2
      <4> QED
        BY <4>3, <4>4, <4>5, <4>6 DEF n
    <3> QED
      BY <2>3, <3>1, <3>2 DEF w
  <2>5. ASSUME NEW j \in DOMAIN standing
        PROVE  h[j] \in 1 .. Len(standing) /\ standing'[h[j]] = IF j = i THEN again ELSE standing[j]
    <3>1. i \in 1 .. Len(standing) /\ j \in 1 .. Len(standing)
      BY <1>1
    <3>2. CASE j = i
      BY <2>4, <3>1, <3>2
    <3>3. CASE j < i
      <4>1. j \in 1 .. Len(standing) - 1 /\ h[j] = j
        BY <1>1, <3>1, <3>3
      <4> QED
        BY <1>1, <2>4, <3>3, <4>1
    <3>4. CASE j > i
      <4>1. j - 1 \in 1 .. Len(standing) - 1 /\ h[j] = j - 1 /\ ~(j - 1 < i) /\ (j - 1) + 1 = j
        BY <1>1, <3>1, <3>4
      <4> QED
        BY <1>1, <2>4, <3>4, <4>1
    <3> QED
      BY <3>1, <3>2, <3>3, <3>4
  <2>6. h \in Injection(DOMAIN standing, DOMAIN standing')
    <3>1. \A j, k \in DOMAIN standing : h[j] = h[k] => j = k
      BY <1>1
    <3>2. h \in [DOMAIN standing -> DOMAIN standing']
      <4>1. \A j \in DOMAIN standing : h[j] \in DOMAIN standing'
        BY <2>4, <2>5
      <4> QED
        BY <4>1
    <3> HIDE DEF h
    <3> QED
      BY <3>1, <3>2 DEF Injection, IsInjective
  <2> HIDE DEF h
  <2>7. Heavier(h)
    BY <1>1, <2>1, <2>2, <2>5, <2>6 DEF Heavier
  <2> QED
    BY <2>3, <2>7
<1>4. ASSUME NEW p \in Port \ down, PortChanges(p)
      PROVE  down \subseteq down' /\ Heavier(same)
  <2>1. standing' = standing /\ down' = down \cup {p}
    BY <1>4 DEF PortChanges
  <2>2. same \in Injection(DOMAIN standing, DOMAIN standing')
    BY <2>1 DEF Injection, IsInjective
  <2> QED
    BY <1>1, <2>1, <2>2 DEF Heavier
<1> HIDE DEF same
<1> QED
  BY <1>2, <1>3, <1>4 DEF Worsens

LEMMA AlarmsFinite ==
  ASSUME ScoresTypeOK, NEW piece
  PROVE  /\ AlarmsOf(piece) \subseteq DOMAIN standing /\ IsFiniteSet(AlarmsOf(piece))
         /\ \A i \in AlarmsOf(piece) : SeverityPenalty(standing[i]) \in Nat
<1>1. Len(standing) \in Nat /\ DOMAIN standing = 1 .. Len(standing)
  BY DEF ScoresTypeOK
<1>2. IsFiniteSet(DOMAIN standing)
  BY <1>1, FS_Interval
<1>3. AlarmsOf(piece) \subseteq DOMAIN standing
  BY DEF AlarmsOf
<1>4. \A i \in DOMAIN standing : SeverityPenalty(standing[i]) \in Nat
  BY Penalties DEF ScoresTypeOK
<1> QED
  BY <1>2, <1>3, <1>4, FS_Subset

LEMMA PenaltyGrows ==
  ASSUME ScoresTypeOK, ScoresTypeOK', Len(standing') <= MaxLoaded,
         NEW h, Heavier(h), NEW piece
  PROVE  /\ AlarmPenalty(piece) \in Int /\ AlarmPenalty(piece)' \in Int
         /\ AlarmPenalty(piece) <= AlarmPenalty(piece)'
<1> DEFINE A == AlarmsOf(piece)
           B == AlarmsOf(piece)'
           f == [i \in A |-> SeverityPenalty(standing[i])]
           g == [i \in B |-> SeverityPenalty(standing'[i])]
           k == [i \in A |-> h[i]]
<1>1. AlarmPenalty(piece) = Total(f) /\ AlarmPenalty(piece)' = Total(g)
  BY DEF AlarmPenalty
<1>2. /\ A \subseteq DOMAIN standing /\ IsFiniteSet(A)
      /\ \A i \in A : SeverityPenalty(standing[i]) \in Nat
  BY AlarmsFinite
<1>3. /\ B \subseteq DOMAIN standing' /\ IsFiniteSet(B)
      /\ \A i \in B : SeverityPenalty(standing'[i]) \in Nat
  <2>1. Len(standing') \in Nat /\ DOMAIN standing' = 1 .. Len(standing')
    BY DEF ScoresTypeOK
  <2>2. IsFiniteSet(DOMAIN standing')
    BY <2>1, FS_Interval
  <2>3. B \subseteq DOMAIN standing'
    BY DEF AlarmsOf
  <2>4. \A i \in DOMAIN standing' : SeverityPenalty(standing'[i]) \in Nat
    BY Penalties DEF ScoresTypeOK
  <2> QED
    BY <2>2, <2>3, <2>4, FS_Subset
<1>4. /\ Len(standing') \in Nat /\ DOMAIN standing' = 1 .. Len(standing') /\ MaxLoaded \in Nat
  BY ScoresAssumption DEF ScoresTypeOK
<1>5. \A i \in A : h[i] \in B
  <2> SUFFICES ASSUME NEW i \in A PROVE h[i] \in B
    OBVIOUS
  <2>1. i \in DOMAIN standing /\ piece \in standing[i].on
    BY DEF AlarmsOf
  <2>2. h[i] \in DOMAIN standing' /\ piece \in standing'[h[i]].on
    BY <2>1 DEF Heavier, Injection
  <2>3. h[i] > Len(standing') - MaxLoaded
    BY <1>4, <2>2
  <2> QED
    BY <2>2, <2>3 DEF AlarmsOf
<1>6. \A i, j \in A : h[i] = h[j] => i = j
  BY <1>2 DEF Heavier, Injection, IsInjective
<1>7. \A i \in A : SeverityPenalty(standing[i]) <= SeverityPenalty(standing'[h[i]])
  BY <1>2 DEF Heavier
<1> HIDE DEF A, B
<1>8. k \in Injection(A, B)
  <2>1. k \in [A -> B] /\ \A i, j \in A : k[i] = k[j] => i = j
    BY <1>5, <1>6
  <2> HIDE DEF k
  <2> QED
    BY <2>1 DEF Injection, IsInjective
<1>9. /\ DOMAIN f = A /\ DOMAIN g = B
      /\ \A i \in A : f[i] \in Int /\ f[i] <= g[k[i]]
      /\ \A i \in B : g[i] \in Nat
  BY <1>2, <1>3, <1>5, <1>7
<1> HIDE DEF f, g, k
<1>10. Total(f) \in Int /\ Total(g) \in Nat /\ Total(f) <= Total(g)
  BY <1>2, <1>3, <1>8, <1>9, TotalsCompare
<1> QED
  BY <1>1, <1>10

\* What the score of a part does.
LEMMA PartsWorse ==
  ASSUME ScoresTypeOK, ScoresTypeOK', Worsens, Len(standing') <= MaxLoaded, NEW piece
  PROVE  /\ PartScore(piece) \in 0 .. 100 /\ PartScore(piece)' \in 0 .. 100
         /\ PartScore(piece)' <= PartScore(piece)
<1>1. PICK h : down \subseteq down' /\ Heavier(h)
  BY WorseIsHeavier
<1> DEFINE m == AlarmPenalty(piece)
           n == AlarmPenalty(piece)'
           v == IF piece \in down THEN 20 ELSE 0
           w == IF piece \in down' THEN 20 ELSE 0
<1>2. m \in Int /\ n \in Int /\ m <= n
  BY <1>1, PenaltyGrows
<1>3. v \in Int /\ w \in Int /\ v <= w
  BY <1>1
<1>4. PartScore(piece) = Clamp[100 - m - v] /\ PartScore(piece)' = Clamp[100 - n - w]
  BY DEF PartScore
<1> HIDE DEF m, n, v, w
<1>5. 100 - m - v \in Int /\ 100 - n - w \in Int /\ 100 - n - w <= 100 - m - v
  BY <1>2, <1>3
<1> QED
  BY <1>4, <1>5, ClampKeeps

\* What the score of a service without its dependencies does.
LEMMA BasesWorse ==
  ASSUME ScoresTypeOK, ScoresTypeOK', Worsens, Len(standing') <= MaxLoaded,
         NEW s \in Service
  PROVE  /\ BaseScore(s) \in 0 .. 100 /\ BaseScore(s)' \in 0 .. 100
         /\ BaseScore(s)' <= BaseScore(s)
<1> DEFINE member == DOMAIN Weight[s]
           f == [p \in member |-> PartScore(p)' * Weight[s][p]]
           g == [p \in member |-> PartScore(p) * Weight[s][p]]
           total == Total(Weight[s])
           d == IF total = 0 THEN Cardinality(member) ELSE total
<1>1. IsFiniteSet(member) /\ \A p \in member : Weight[s][p] \in Nat
  BY ScoresAssumption, FS_Subset
<1>2. total \in Nat
  BY <1>1, SumNotNegative, TotalIsSum
<1>3. Cardinality(member) \in Nat /\ (Cardinality(member) = 0 <=> member = {})
  BY <1>1, FS_CardinalityType, FS_EmptySet
<1>4. \A p \in member : f[p] \in Nat /\ g[p] \in Nat /\ f[p] <= g[p]
  <2> SUFFICES ASSUME NEW p \in member PROVE f[p] \in Nat /\ g[p] \in Nat /\ f[p] <= g[p]
    OBVIOUS
  <2> DEFINE a == PartScore(p)'
             b == PartScore(p)
             w == Weight[s][p]
  <2>1. a \in Nat /\ b \in Nat /\ a <= b
    <3>1. a \in 0 .. 100 /\ b \in 0 .. 100 /\ a <= b
      BY PartsWorse, Zenon
    <3> HIDE DEF a, b
    <3> QED
      BY <3>1
  <2>2. w \in Nat
    BY <1>1
  <2>3. f[p] = a * w /\ g[p] = b * w
    OBVIOUS
  <2> HIDE DEF a, b, w, f, g
  <2> QED
    BY <2>1, <2>2, <2>3
<1>5. DOMAIN f = member /\ DOMAIN g = member
  OBVIOUS
<1> DEFINE same == [p \in member |-> p]
<1>6. same \in Injection(member, member) /\ \A p \in member : same[p] = p
  BY DEF Injection, IsInjective
<1>7. /\ BaseScore(s)  = IF member = {} THEN 100 ELSE Clamp[RoundHalfEven(Total(g), d)]
      /\ BaseScore(s)' = IF member = {} THEN 100 ELSE Clamp[RoundHalfEven(Total(f), d)]
  BY DEF BaseScore
<1> HIDE DEF f, g, member, total, same
<1>8. Total(f) \in Int /\ Total(g) \in Int /\ Total(f) <= Total(g)
  BY <1>1, <1>4, <1>5, <1>6, TotalsCompare
<1>9. CASE member = {}
  BY <1>7, <1>9
<1>10. CASE member # {}
  <2>1. d \in Nat \ {0}
    BY <1>2, <1>3, <1>10
  <2> HIDE DEF d
  <2>2. /\ RoundHalfEven(Total(f), d) \in Int /\ RoundHalfEven(Total(g), d) \in Int
        /\ RoundHalfEven(Total(f), d) <= RoundHalfEven(Total(g), d)
    BY <1>8, <2>1, RoundKeepsOrder
  <2> QED
    BY <1>7, <1>10, <2>2, ClampKeeps
<1> QED
  BY <1>9, <1>10

LEMMA PenaltyOrder ==
  ASSUME NEW b \in 0 .. 100, NEW c \in 0 .. 100, b <= c,
         NEW dependency, dependency.weight \in Nat
  PROVE  /\ DependencyPenalty(b, dependency) \in Nat
         /\ DependencyPenalty(c, dependency) \in Nat
         /\ DependencyPenalty(c, dependency) <= DependencyPenalty(b, dependency)
<1> DEFINE w == dependency.weight
           factor == IF dependency.critical THEN 60 ELSE 35
           gap(base) == RoundHalfEven((100 - base) * w * factor, 100)
           bounded(n) == IF n < 1 THEN 1 ELSE IF n > 60 THEN 60 ELSE n
<1>1. \A base : DependencyPenalty(base, dependency) = IF base >= 90 THEN 0 ELSE bounded(gap(base))
  BY DEF DependencyPenalty
<1>2. gap(c) \in Int /\ gap(b) \in Int /\ gap(c) <= gap(b)
  <2>1. w \in Nat /\ factor \in {60, 35}
    OBVIOUS
  <2> HIDE DEF w, factor
  <2>2. (100 - c) * w \in Nat /\ (100 - b) * w \in Nat /\ (100 - c) * w <= (100 - b) * w
    BY <2>1
  <2> DEFINE x == (100 - c) * w
             y == (100 - b) * w
  <2> HIDE DEF x, y
  <2>3. x \in Nat /\ y \in Nat /\ x <= y
    BY <2>2 DEF x, y
  <2>4. x * factor \in Int /\ y * factor \in Int /\ x * factor <= y * factor
    BY <2>1, <2>3
  <2> QED
    BY <2>4, RoundKeepsOrder DEF x, y
<1> HIDE DEF gap
<1>3. bounded(gap(c)) \in Nat /\ bounded(gap(b)) \in Nat /\ bounded(gap(c)) <= bounded(gap(b))
  BY <1>2
<1> HIDE DEF bounded
<1> QED
  BY <1>1, <1>3

LEMMA ScoresWorse ==
  ASSUME ScoresTypeOK, ScoresTypeOK', Worsens, Len(standing') <= MaxLoaded,
         NEW s \in Service
  PROVE  Score(s)' <= Score(s)
<1> DEFINE D == DOMAIN Dependency[s]
           f == [t \in D |-> DependencyPenalty(BaseScore(t), Dependency[s][t])]
           g == [t \in D |-> DependencyPenalty(BaseScore(t)', Dependency[s][t])]
           same == [t \in D |-> t]
<1>1. /\ IsFiniteSet(D) /\ \A t \in D : t \in Service /\ Dependency[s][t].weight \in Nat
  BY ScoresAssumption, FS_Subset
<1>2. \A t \in D : f[t] \in Nat /\ g[t] \in Nat /\ f[t] <= g[t]
  <2> SUFFICES ASSUME NEW t \in D PROVE f[t] \in Nat /\ g[t] \in Nat /\ f[t] <= g[t]
    OBVIOUS
  <2> DEFINE b == BaseScore(t)'
             c == BaseScore(t)
  <2>1. b \in 0 .. 100 /\ c \in 0 .. 100 /\ b <= c
    BY <1>1, BasesWorse
  <2>2. /\ f[t] = DependencyPenalty(c, Dependency[s][t])
        /\ g[t] = DependencyPenalty(b, Dependency[s][t])
    OBVIOUS
  <2> HIDE DEF b, c, f, g
  <2> QED
    BY <1>1, <2>1, <2>2, PenaltyOrder
<1>3. DOMAIN f = D /\ DOMAIN g = D
  OBVIOUS
<1>4. same \in Injection(D, D) /\ \A t \in D : same[t] = t
  BY DEF Injection, IsInjective
<1>5. Score(s) = Clamp[BaseScore(s) - Total(f)] /\ Score(s)' = Clamp[BaseScore(s)' - Total(g)]
  BY DEF Score
<1> HIDE DEF D, f, g, same
<1>6. Total(f) \in Int /\ Total(g) \in Int /\ Total(f) <= Total(g)
  BY <1>1, <1>2, <1>3, <1>4, TotalsCompare
<1> DEFINE b == BaseScore(s)'
           c == BaseScore(s)
<1>7. b \in Int /\ c \in Int /\ b <= c
  <2>1. b \in 0 .. 100 /\ c \in 0 .. 100 /\ b <= c
    BY BasesWorse, Zenon
  <2> HIDE DEF b, c
  <2> QED
    BY <2>1
<1> HIDE DEF b, c
<1>8. b - Total(g) \in Int /\ c - Total(f) \in Int /\ b - Total(g) <= c - Total(f)
  BY <1>6, <1>7
<1>9. Clamp[b - Total(g)] <= Clamp[c - Total(f)]
  BY <1>8, ClampKeeps
<1> QED
  BY <1>5, <1>9 DEF b, c

(* More alarms, alarms that occur again or are more severe, and more ports *)
(* that are down never raise the score of a service, through any members,  *)
(* weights and dependencies, circular ones too (api/assurance/scoring.py). *)
THEOREM WorseIsNeverBetter == ScoresSpec => WorseNeverBetter
<1>1. ScoresInit => ScoresTypeOK
  BY DEF ScoresInit, ScoresTypeOK
<1>2. ScoresTypeOK /\ [ScoresNext]_scores_vars => ScoresTypeOK'
  BY ScoresTypeKept
<1>3. ScoresTypeOK /\ ScoresTypeOK' =>
        (scores_vars' # scores_vars /\ Worsens /\ Len(standing') <= MaxLoaded =>
           \A s \in Service : Score(s)' <= Score(s))
  BY ScoresWorse
<1> QED
  BY <1>1, <1>2, <1>3, PTL DEF ScoresSpec, WorseNeverBetter

=============================================================================
