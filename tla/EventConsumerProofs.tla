------------------------ MODULE EventConsumerProofs ------------------------
(***************************************************************************)
(* Theorems about EventConsumer, for any number of workers, events,        *)
(* poison events, any batch size and any cap of the stream.                *)
(***************************************************************************)
EXTENDS EventConsumer, FiniteSetTheorems, TLAPS

(* Oldest(S, n) is a part of S that has, with an entry, every older entry  *)
(* of S: XREADGROUP and XAUTOCLAIM leave no hole behind what they return.  *)
LEMMA OldestClosed ==
  ASSUME NEW m \in Nat, NEW S \in SUBSET (1..m), NEW n \in Nat,
         NEW i \in S, NEW j \in Oldest(S, n), i < j
  PROVE  i \in Oldest(S, n)
<1> DEFINE Below(k) == {l \in S : l < k}
<1>0. IsFiniteSet(1..m)
  BY FS_Interval
<1>1. IsFiniteSet(Below(j))
  BY <1>0, FS_Subset
<1>2. Below(i) \subseteq Below(j)
  <2> SUFFICES ASSUME NEW l \in Below(i)
               PROVE  l \in Below(j)
    OBVIOUS
  <2>1. i \in Nat /\ j \in Nat /\ l \in Nat /\ l \in S /\ l < i
    BY DEF Oldest
  <2> QED
    BY <2>1
<1>3. Cardinality(Below(i)) <= Cardinality(Below(j))
  BY <1>1, <1>2, FS_Subset
<1>4. Cardinality(Below(i)) \in Nat /\ Cardinality(Below(j)) \in Nat
  BY <1>1, <1>2, FS_Subset, FS_CardinalityType
<1>5. Cardinality(Below(j)) < n
  BY DEF Oldest
<1>6. Cardinality(Below(i)) < n
  BY <1>3, <1>4, <1>5
<1> QED
  BY <1>6 DEF Oldest

-----------------------------------------------------------------------------
(* What the workers and the group hold are entries of the stream.          *)
Bounded ==
  /\ lastDelivered <= Len(stream)
  /\ pending \cup acked \subseteq Entry
  /\ \A w \in Worker : batch[w] \subseteq Entry

(* A worker about to acknowledge an entry has processed its event.         *)
AckPhase ==
  \A w \in Worker : phase[w] = "ack" =>
    \A i \in batch[w] : IsNext(w, i) => stream[i] \in processed[w]

(* What a worker remembers, its handler finished with.                     *)
ProcessedHasEffect ==
  \A w \in Worker : \A e \in processed[w] : effects[w][e] > 0

(* A start leaves one effect per event, spent once the event is processed. *)
EffectBudget ==
  \A w \in Worker, e \in EventId :
    /\ effects[w][e] <= starts[w]
    /\ phase[w] # "down" /\ e \notin processed[w] => effects[w][e] < starts[w]

IndInv ==
  /\ TypeOK
  /\ Bounded
  /\ AckPhase
  /\ ProcessedHasEffect
  /\ EffectBudget
  /\ NothingForgotten
  /\ AckedWasHandled

-----------------------------------------------------------------------------
(* XREADGROUP returns entries after the last delivered one, and skips none *)
(* that the stream still holds.                                            *)
LEMMA FreshFacts ==
  ASSUME TypeOK
  PROVE  /\ Fresh \subseteq Entry
         /\ Fresh \subseteq Nat
         /\ \A j \in Fresh : j > lastDelivered
         /\ \A i \in Undelivered, j \in Fresh : i < j => i \in Fresh
<1>1. Len(stream) \in Nat /\ Entry = 1..Len(stream)
  BY DEF TypeOK, Entry
<1>2. Undelivered \in SUBSET (1..Len(stream))
  BY <1>1 DEF Undelivered
<1>3. Fresh \subseteq Undelivered
  BY DEF Fresh, Oldest
<1>4. Batch \in Nat
  BY ConsumerAssumption
<1>5. \A i \in Undelivered, j \in Fresh : i < j => i \in Fresh
  BY <1>1, <1>2, <1>4, OldestClosed DEF Fresh
<1> QED
  BY <1>1, <1>2, <1>3, <1>5 DEF Undelivered

(* So reading on leaves nothing behind.                                    *)
LEMMA ReadForgetsNothing ==
  ASSUME TypeOK, NothingForgotten, ExecRead, UNCHANGED acked
  PROVE  NothingForgotten'
<1>1. CASE Fresh = {}
  BY <1>1 DEF TypeOK, NothingForgotten, ExecRead
<1>2. ASSUME NEW n \in Fresh, lastDelivered' = n
      PROVE  NothingForgotten'
  <2> SUFFICES ASSUME NEW i \in 1..n, i > trimmed
               PROVE  i \in pending' \cup acked'
    BY <1>2 DEF NothingForgotten, ExecRead, TypeOK
  <2>1. CASE i <= lastDelivered
    BY <2>1, FreshFacts DEF NothingForgotten, ExecRead, TypeOK
  <2>2. CASE i > lastDelivered
    <3>1. n \in Nat /\ n \in Entry /\ Entry = 1..Len(stream) /\ Len(stream) \in Nat
      BY FreshFacts DEF TypeOK, Entry
    <3>2. i \in Undelivered
      BY <2>2, <3>1 DEF Undelivered
    <3>3. i \in Fresh
      BY <3>1, <3>2, FreshFacts
    <3> QED
      BY <3>3 DEF ExecRead
  <2> QED
    BY <2>1, <2>2 DEF TypeOK
<1> QED
  BY <1>1, <1>2 DEF ExecRead

-----------------------------------------------------------------------------
LEMMA InitIndInv == Init => IndInv
BY ConsumerAssumption
DEF Init, IndInv, TypeOK, Bounded, AckPhase, ProcessedHasEffect, EffectBudget,
    NothingForgotten, AckedWasHandled, Phase, Entry

LEMMA PublishStep ==
  ASSUME IndInv, NEW e \in EventId, Publish(e)
  PROVE  IndInv'
<1>1. TypeOK'
  BY DEF IndInv, TypeOK, Phase, Publish, worker
<1>2. Bounded'
  BY DEF IndInv, TypeOK, Bounded, Entry, Publish, worker
<1>3. AckPhase'
  BY DEF IndInv, TypeOK, AckPhase, IsNext, Bounded, Entry, Publish, worker
<1>4. ProcessedHasEffect'
  BY DEF IndInv, ProcessedHasEffect, Publish, worker
<1>5. EffectBudget'
  BY DEF IndInv, EffectBudget, Publish, worker
<1>6. NothingForgotten'
  BY DEF IndInv, TypeOK, NothingForgotten, Publish, worker
<1>7. AckedWasHandled'
  BY DEF IndInv, TypeOK, AckedWasHandled, Bounded, Entry, Publish, worker
<1> QED
  BY <1>1, <1>2, <1>3, <1>4, <1>5, <1>6, <1>7 DEF IndInv

LEMMA GrowStaleStep ==
  ASSUME IndInv, NEW i \in pending, GrowStale(i)
  PROVE  IndInv'
<1>1. TypeOK'
  BY DEF IndInv, TypeOK, Phase, GrowStale, worker
<1>2. Bounded'
  BY DEF IndInv, Bounded, Entry, GrowStale, worker
<1>3. AckPhase'
  BY DEF IndInv, AckPhase, IsNext, GrowStale, worker
<1>4. ProcessedHasEffect'
  BY DEF IndInv, ProcessedHasEffect, GrowStale, worker
<1>5. EffectBudget'
  BY DEF IndInv, EffectBudget, GrowStale, worker
<1>6. NothingForgotten'
  BY DEF IndInv, NothingForgotten, GrowStale, worker
<1>7. AckedWasHandled'
  BY DEF IndInv, AckedWasHandled, GrowStale, worker
<1> QED
  BY <1>1, <1>2, <1>3, <1>4, <1>5, <1>6, <1>7 DEF IndInv

LEMMA StartStep ==
  ASSUME IndInv, NEW w \in Worker, Start(w)
  PROVE  IndInv'
<1>1. TypeOK'
  BY DEF IndInv, TypeOK, Phase, Start, redis
<1>2. Bounded'
  BY DEF IndInv, Bounded, Entry, Start, redis
<1>3. AckPhase'
  BY DEF IndInv, AckPhase, IsNext, Start, redis
<1>4. ProcessedHasEffect'
  BY DEF IndInv, ProcessedHasEffect, Start, redis
<1>5. EffectBudget'
  BY DEF IndInv, TypeOK, EffectBudget, Start, redis
<1>6. NothingForgotten'
  BY DEF IndInv, NothingForgotten, Start, redis
<1>7. AckedWasHandled'
  BY DEF IndInv, AckedWasHandled, Start, redis
<1> QED
  BY <1>1, <1>2, <1>3, <1>4, <1>5, <1>6, <1>7 DEF IndInv

LEMMA CrashStep ==
  ASSUME IndInv, NEW w \in Worker, Crash(w)
  PROVE  IndInv'
<1>1. TypeOK'
  BY DEF IndInv, TypeOK, Phase, Crash, redis
<1>2. Bounded'
  BY DEF IndInv, Bounded, Entry, Crash, redis
<1>3. AckPhase'
  BY DEF IndInv, TypeOK, AckPhase, IsNext, Crash, redis
<1>4. ProcessedHasEffect'
  BY DEF IndInv, ProcessedHasEffect, Crash, redis
<1>5. EffectBudget'
  BY DEF IndInv, TypeOK, EffectBudget, Crash, redis
<1>6. NothingForgotten'
  BY DEF IndInv, NothingForgotten, Crash, redis
<1>7. AckedWasHandled'
  BY DEF IndInv, AckedWasHandled, Crash, redis
<1> QED
  BY <1>1, <1>2, <1>3, <1>4, <1>5, <1>6, <1>7 DEF IndInv

(* An XAUTOCLAIM touches pending entries only.                             *)
LEMMA ClaimsPending == Claimable \subseteq Reachable /\ Reachable \subseteq pending
BY DEF Claimable, Reachable, Scanned, Oldest

LEMMA ClaimStaleStep ==
  ASSUME IndInv, NEW w \in Worker, ClaimStale(w)
  PROVE  IndInv'
<1>a. Claimable \subseteq Reachable /\ Reachable \subseteq pending
  BY ClaimsPending
<1>1. TypeOK'
  BY <1>a DEF IndInv, TypeOK, Phase, ClaimStale, ExecClaim, Deliver
<1>2. Bounded'
  BY <1>a DEF IndInv, TypeOK, Bounded, Entry, ClaimStale, ExecClaim, Deliver
<1>3. AckPhase'
  BY <1>a DEF IndInv, TypeOK, AckPhase, IsNext, ClaimStale, ExecClaim, Deliver
<1>4. ProcessedHasEffect'
  BY <1>a DEF IndInv, ProcessedHasEffect, ClaimStale, ExecClaim, Deliver
<1>5. EffectBudget'
  BY <1>a DEF IndInv, TypeOK, EffectBudget, ClaimStale, ExecClaim, Deliver
<1>6. NothingForgotten'
  BY <1>a DEF IndInv, NothingForgotten, ClaimStale, ExecClaim, Deliver
<1>7. AckedWasHandled'
  BY <1>a DEF IndInv, AckedWasHandled, ClaimStale, ExecClaim, Deliver
<1> QED
  BY <1>1, <1>2, <1>3, <1>4, <1>5, <1>6, <1>7 DEF IndInv

LEMMA ClaimStaleFailsStep ==
  ASSUME IndInv, NEW w \in Worker, ClaimStaleFails(w)
  PROVE  IndInv'
<1>a. Claimable \subseteq Reachable /\ Reachable \subseteq pending
  BY ClaimsPending
<1>1. TypeOK'
  BY <1>a DEF IndInv, TypeOK, Phase, ClaimStaleFails, ExecClaim, redis
<1>2. Bounded'
  BY <1>a DEF IndInv, Bounded, Entry, ClaimStaleFails, ExecClaim, redis
<1>3. AckPhase'
  BY <1>a DEF IndInv, AckPhase, IsNext, ClaimStaleFails, ExecClaim, redis
<1>4. ProcessedHasEffect'
  BY <1>a DEF IndInv, ProcessedHasEffect, ClaimStaleFails, ExecClaim, redis
<1>5. EffectBudget'
  BY <1>a DEF IndInv, EffectBudget, ClaimStaleFails, ExecClaim, redis
<1>6. NothingForgotten'
  BY <1>a DEF IndInv, NothingForgotten, ClaimStaleFails, ExecClaim, redis
<1>7. AckedWasHandled'
  BY <1>a DEF IndInv, AckedWasHandled, ClaimStaleFails, ExecClaim, redis
<1> QED
  BY <1>1, <1>2, <1>3, <1>4, <1>5, <1>6, <1>7 DEF IndInv

LEMMA ReadGroupStep ==
  ASSUME IndInv, NEW w \in Worker, ReadGroup(w)
  PROVE  IndInv'
<1>1. TypeOK'
  BY FreshFacts DEF IndInv, TypeOK, Bounded, Entry, redis, worker, ReadGroup, ExecRead, Deliver, Phase
<1>2. Bounded'
  <2>1. Fresh \subseteq Entry /\ Entry = 1..Len(stream) /\ Len(stream) \in Nat
    BY FreshFacts DEF IndInv, TypeOK, Entry
  <2>2. UNCHANGED <<stream, acked>> /\ Entry' = Entry
    BY DEF ReadGroup, ExecRead, redis, Entry
  <2>3. pending' \subseteq Entry /\ lastDelivered' <= Len(stream)
    <3>1. lastDelivered' \in Fresh \cup {lastDelivered} /\ pending' \subseteq pending \cup Fresh
      BY DEF ReadGroup, ExecRead, redis
    <3>2. lastDelivered <= Len(stream) /\ pending \subseteq Entry
      BY DEF IndInv, Bounded
    <3> QED
      BY <2>1, <3>1, <3>2
  <2>4. \A v \in Worker : batch'[v] \subseteq Entry
    BY <2>1 DEF ReadGroup, Deliver, IndInv, TypeOK, Bounded
  <2> QED
    BY <2>2, <2>3, <2>4 DEF IndInv, Bounded
<1>3. AckPhase'
  BY DEF IndInv, AckPhase, IsNext, ReadGroup, ExecRead, Deliver
<1>4. ProcessedHasEffect'
  BY DEF IndInv, ProcessedHasEffect, ReadGroup, ExecRead, Deliver
<1>5. EffectBudget'
  BY DEF IndInv, EffectBudget, ReadGroup, ExecRead, Deliver
<1>6. NothingForgotten'
  BY ReadForgetsNothing DEF IndInv, ReadGroup
<1>7. AckedWasHandled'
  BY DEF IndInv, AckedWasHandled, ReadGroup, ExecRead, Deliver
<1> QED
  BY <1>1, <1>2, <1>3, <1>4, <1>5, <1>6, <1>7 DEF IndInv

LEMMA ReadGroupFailsStep ==
  ASSUME IndInv, NEW w \in Worker, ReadGroupFails(w)
  PROVE  IndInv'
<1>1. TypeOK'
  BY FreshFacts DEF IndInv, TypeOK, Bounded, Entry, redis, worker, ReadGroupFails, ExecRead, Phase
<1>2. Bounded'
  <2>1. Fresh \subseteq Entry /\ Entry = 1..Len(stream) /\ Len(stream) \in Nat
    BY FreshFacts DEF IndInv, TypeOK, Entry
  <2>2. UNCHANGED <<stream, acked>> /\ Entry' = Entry
    BY DEF ReadGroupFails, ExecRead, redis, Entry
  <2>3. pending' \subseteq Entry /\ lastDelivered' <= Len(stream)
    <3>1. lastDelivered' \in Fresh \cup {lastDelivered} /\ pending' \subseteq pending \cup Fresh
      BY DEF ReadGroupFails, ExecRead, redis
    <3>2. lastDelivered <= Len(stream) /\ pending \subseteq Entry
      BY DEF IndInv, Bounded
    <3> QED
      BY <2>1, <3>1, <3>2
  <2>4. \A v \in Worker : batch'[v] \subseteq Entry
    BY <2>1 DEF ReadGroupFails, IndInv, TypeOK, Bounded
  <2> QED
    BY <2>2, <2>3, <2>4 DEF IndInv, Bounded
<1>3. AckPhase'
  BY DEF IndInv, AckPhase, IsNext, ReadGroupFails, ExecRead, redis
<1>4. ProcessedHasEffect'
  BY DEF IndInv, ProcessedHasEffect, ReadGroupFails, ExecRead, redis
<1>5. EffectBudget'
  BY DEF IndInv, EffectBudget, ReadGroupFails, ExecRead, redis
<1>6. NothingForgotten'
  BY ReadForgetsNothing DEF IndInv, ReadGroupFails, NothingForgotten, redis
<1>7. AckedWasHandled'
  BY DEF IndInv, AckedWasHandled, ReadGroupFails, ExecRead, redis
<1> QED
  BY <1>1, <1>2, <1>3, <1>4, <1>5, <1>6, <1>7 DEF IndInv

LEMMA SkipDuplicateStep ==
  ASSUME IndInv, NEW w \in Worker, NEW i \in batch[w], SkipDuplicate(w, i)
  PROVE  IndInv'
<1>1. TypeOK'
  BY DEF IndInv, TypeOK, Phase, SkipDuplicate, IsNext, redis
<1>2. Bounded'
  BY DEF IndInv, Bounded, Entry, SkipDuplicate, IsNext, redis
<1>3. AckPhase'
  BY DEF IndInv, TypeOK, AckPhase, IsNext, SkipDuplicate, redis
<1>4. ProcessedHasEffect'
  BY DEF IndInv, ProcessedHasEffect, SkipDuplicate, IsNext, redis
<1>5. EffectBudget'
  BY DEF IndInv, EffectBudget, SkipDuplicate, IsNext, redis
<1>6. NothingForgotten'
  BY DEF IndInv, NothingForgotten, SkipDuplicate, IsNext, redis
<1>7. AckedWasHandled'
  BY DEF IndInv, AckedWasHandled, SkipDuplicate, IsNext, redis
<1> QED
  BY <1>1, <1>2, <1>3, <1>4, <1>5, <1>6, <1>7 DEF IndInv

LEMMA HandleReturnsStep ==
  ASSUME IndInv, NEW w \in Worker, NEW i \in batch[w], HandleReturns(w, i)
  PROVE  IndInv'
<1> DEFINE e == stream[i]
<1>1. e \in EventId /\ e \notin processed[w]
  BY DEF IndInv, TypeOK, Bounded, Entry, HandleReturns
<1>2. /\ processed' = [processed EXCEPT ![w] = @ \cup {e}]
      /\ phase' = [phase EXCEPT ![w] = "ack"]
      /\ UNCHANGED <<redis, batch, starts, acked>>
  BY DEF HandleReturns
<1>3. effects' \in [Worker -> [EventId -> Nat]]
  BY <1>1 DEF IndInv, TypeOK, HandleReturns
<1>4. \A v \in Worker, f \in EventId :
        effects'[v][f] = IF v = w /\ f = e THEN effects[v][f] + 1 ELSE effects[v][f]
  BY <1>1 DEF IndInv, TypeOK, HandleReturns
<1> HIDE DEF e
<1>5. TypeOK'
  BY <1>1, <1>2, <1>3 DEF IndInv, TypeOK, Phase, redis
<1>6. Bounded'
  BY <1>2 DEF IndInv, Bounded, Entry, redis
<1>7. AckPhase'
  <2> SUFFICES ASSUME NEW v \in Worker, phase'[v] = "ack",
                      NEW j \in batch[v], IsNext(v, j)
               PROVE  stream[j] \in processed'[v]
    BY <1>2 DEF AckPhase, IsNext, redis
  <2>1. CASE v = w
    <3>1. j = i
      BY <2>1 DEF HandleReturns, IsNext, IndInv, TypeOK
    <3> QED
      BY <2>1, <3>1, <1>2 DEF e, IndInv, TypeOK
  <2>2. CASE v # w
    BY <2>2, <1>2 DEF IndInv, TypeOK, AckPhase
  <2> QED
    BY <2>1, <2>2
<1>8. ProcessedHasEffect'
  BY <1>1, <1>2, <1>3, <1>4 DEF IndInv, TypeOK, ProcessedHasEffect
<1>9. EffectBudget'
  <2> SUFFICES ASSUME NEW v \in Worker, NEW f \in EventId
               PROVE  /\ effects'[v][f] <= starts[v]
                      /\ phase'[v] # "down" /\ f \notin processed'[v]
                           => effects'[v][f] < starts[v]
    BY <1>2 DEF EffectBudget
  <2>1. phase[w] # "down"
    BY DEF HandleReturns
  <2>2. CASE v = w /\ f = e
    BY <1>1, <1>2, <1>4, <2>1, <2>2 DEF IndInv, TypeOK, EffectBudget
  <2>3. CASE ~(v = w /\ f = e)
    BY <1>2, <1>4, <2>1, <2>3 DEF IndInv, TypeOK, EffectBudget
  <2> QED
    BY <2>2, <2>3
<1>10. NothingForgotten'
  BY <1>2 DEF IndInv, NothingForgotten, redis
<1>11. AckedWasHandled'
  <2> SUFFICES ASSUME NEW j \in acked
               PROVE  \E v \in Worker : effects'[v][stream[j]] > 0
    BY <1>2 DEF AckedWasHandled, redis
  <2>1. stream[j] \in EventId
    BY DEF IndInv, TypeOK, Bounded, Entry
  <2>2. PICK v \in Worker : effects[v][stream[j]] > 0
    BY DEF IndInv, AckedWasHandled
  <2>3. effects[v][stream[j]] \in Nat
    BY <2>1 DEF IndInv, TypeOK
  <2>4. effects'[v][stream[j]] > 0
    BY <1>4, <2>1, <2>2, <2>3
  <2> QED
    BY <2>4
<1> QED
  BY <1>5, <1>6, <1>7, <1>8, <1>9, <1>10, <1>11 DEF IndInv

LEMMA HandleRaisesStep ==
  ASSUME IndInv, NEW w \in Worker, NEW i \in batch[w], HandleRaises(w, i)
  PROVE  IndInv'
<1>1. TypeOK'
  BY DEF IndInv, TypeOK, Phase, HandleRaises, IsNext, Advance, redis
<1>2. Bounded'
  BY DEF IndInv, Bounded, Entry, HandleRaises, IsNext, Advance, redis
<1>3. AckPhase'
  BY DEF IndInv, AckPhase, IsNext, HandleRaises, Advance, redis
<1>4. ProcessedHasEffect'
  BY DEF IndInv, ProcessedHasEffect, HandleRaises, IsNext, Advance, redis
<1>5. EffectBudget'
  BY DEF IndInv, EffectBudget, HandleRaises, IsNext, Advance, redis
<1>6. NothingForgotten'
  BY DEF IndInv, NothingForgotten, HandleRaises, IsNext, Advance, redis
<1>7. AckedWasHandled'
  BY DEF IndInv, AckedWasHandled, HandleRaises, IsNext, Advance, redis
<1> QED
  BY <1>1, <1>2, <1>3, <1>4, <1>5, <1>6, <1>7 DEF IndInv

LEMMA AckStep ==
  ASSUME IndInv, NEW w \in Worker, NEW i \in batch[w], Ack(w, i)
  PROVE  IndInv'
<1>1. TypeOK'
  BY DEF IndInv, TypeOK, Phase, Ack, IsNext, Advance, ExecAck
<1>2. Bounded'
  BY DEF IndInv, Bounded, Entry, Ack, IsNext, Advance, ExecAck
<1>3. AckPhase'
  BY DEF IndInv, TypeOK, AckPhase, IsNext, Ack, Advance, ExecAck
<1>4. ProcessedHasEffect'
  BY DEF IndInv, ProcessedHasEffect, Ack, IsNext, Advance, ExecAck
<1>5. EffectBudget'
  BY DEF IndInv, EffectBudget, Ack, IsNext, Advance, ExecAck
<1>6. NothingForgotten'
  BY DEF IndInv, NothingForgotten, Ack, IsNext, Advance, ExecAck
<1>7. AckedWasHandled'
  <2>1. effects[w][stream[i]] > 0
    BY DEF IndInv, AckPhase, ProcessedHasEffect, Ack
  <2> QED
    BY <2>1 DEF IndInv, AckedWasHandled, Ack, ExecAck, redis
<1> QED
  BY <1>1, <1>2, <1>3, <1>4, <1>5, <1>6, <1>7 DEF IndInv

LEMMA AckFailsStep ==
  ASSUME IndInv, NEW w \in Worker, NEW i \in batch[w], AckFails(w, i)
  PROVE  IndInv'
<1>1. TypeOK'
  BY DEF IndInv, TypeOK, Phase, AckFails, IsNext, ExecAck, redis
<1>2. Bounded'
  BY DEF IndInv, Bounded, Entry, AckFails, IsNext, ExecAck, redis
<1>3. AckPhase'
  BY DEF IndInv, AckPhase, IsNext, AckFails, ExecAck, redis
<1>4. ProcessedHasEffect'
  BY DEF IndInv, ProcessedHasEffect, AckFails, IsNext, ExecAck, redis
<1>5. EffectBudget'
  BY DEF IndInv, EffectBudget, AckFails, IsNext, ExecAck, redis
<1>6. NothingForgotten'
  BY DEF IndInv, NothingForgotten, AckFails, IsNext, ExecAck, redis
<1>7. AckedWasHandled'
  <2>1. effects[w][stream[i]] > 0
    BY DEF IndInv, AckPhase, ProcessedHasEffect, AckFails
  <2> QED
    BY <2>1 DEF IndInv, AckedWasHandled, AckFails, ExecAck, redis
<1> QED
  BY <1>1, <1>2, <1>3, <1>4, <1>5, <1>6, <1>7 DEF IndInv

-----------------------------------------------------------------------------
LEMMA NextIndInv == IndInv /\ [Next]_vars => IndInv'
<1> SUFFICES ASSUME IndInv, [Next]_vars
             PROVE  IndInv'
  OBVIOUS
<1>1. ASSUME NEW w \in Worker, NEW i \in batch[w], Work(w, i)
      PROVE  IndInv'
  BY <1>1, SkipDuplicateStep, HandleReturnsStep, HandleRaisesStep, AckStep, AckFailsStep
  DEF Work
<1>2. CASE UNCHANGED vars
  BY <1>2 DEF vars, redis, worker, IndInv, TypeOK, Bounded, Entry, AckPhase, IsNext,
    ProcessedHasEffect, EffectBudget, NothingForgotten, AckedWasHandled
<1> QED
  BY <1>1, <1>2, PublishStep, GrowStaleStep, StartStep, CrashStep, ClaimStaleStep,
    ClaimStaleFailsStep, ReadGroupStep, ReadGroupFailsStep DEF Next

THEOREM Inductive == Spec => []IndInv
BY InitIndInv, NextIndInv, PTL DEF Spec

(* Every variable keeps its type.                                          *)
THEOREM TypeCorrect == Spec => []TypeOK
BY Inductive, PTL DEF IndInv

(* The group forgets no entry it delivered (bus.py: read_group, ack,       *)
(* claim_stale): pending, acknowledged, or fallen to the stream's cap.     *)
THEOREM ForgetsNothing == Spec => []NothingForgotten
BY Inductive, PTL DEF IndInv

(* poll_once acknowledges only what some handler finished with.            *)
THEOREM AcksOnlyHandled == Spec => []AckedWasHandled
BY Inductive, PTL DEF IndInv

(* process_one runs a handler to its end once per event and start.         *)
THEOREM HandlesOncePerStart == Spec => []OncePerStart
<1>1. IndInv => OncePerStart
  BY DEF IndInv, EffectBudget, OncePerStart
<1> QED
  BY <1>1, Inductive, PTL

-----------------------------------------------------------------------------
(* The mapped state of AtLeastOnce, and the steps that leave it alone.     *)
Done == {e \in EventId : \E w \in Worker : effects[w][e] > 0}

LEMMA Stutter ==
  ASSUME UNCHANGED <<stream, trimmed, effects, acked>>
  PROVE  UNCHANGED Promise!vars
BY DEF Promise!vars

LEMMA PublishPosts ==
  ASSUME IndInv, NEW e \in EventId, Publish(e)
  PROVE  Promise!Post(e)
<1>1. stream' = Append(stream, e) /\ UNCHANGED <<effects, acked>>
  BY DEF Publish
<1>2. trimmed' >= trimmed /\ (trimmed' = trimmed \/ trimmed' + MaxLen <= Len(stream'))
  BY ConsumerAssumption DEF Publish, IndInv, TypeOK
<1> QED
  BY <1>1, <1>2 DEF Promise!Post

LEMMA HandleReturnsPerforms ==
  ASSUME IndInv, NEW w \in Worker, NEW i \in batch[w], HandleReturns(w, i)
  PROVE  Promise!Perform(stream[i])
<1>1. i \in DOMAIN stream /\ stream[i] \in EventId
  BY DEF IndInv, TypeOK, Bounded, Entry
<1>2. effects \in [Worker -> [EventId -> Nat]]
  BY DEF IndInv, TypeOK
<1>3. effects' = [effects EXCEPT ![w][stream[i]] = @ + 1]
  BY DEF HandleReturns
<1>4. \A e \in EventId : (\E v \in Worker : effects'[v][e] > 0)
        <=> e = stream[i] \/ \E v \in Worker : effects[v][e] > 0
  BY <1>1, <1>2, <1>3
<1>5. Done' = Done \cup {stream[i]}
  BY <1>1, <1>4 DEF Done
<1> QED
  BY <1>1, <1>5 DEF Promise!Perform, Done, HandleReturns, redis

LEMMA AckSettles ==
  ASSUME IndInv, NEW w \in Worker, NEW i \in batch[w],
         Ack(w, i) \/ AckFails(w, i)
  PROVE  Promise!Settle(i) \/ UNCHANGED Promise!vars
<1>1. i \in DOMAIN stream /\ stream[i] \in EventId
  BY DEF IndInv, TypeOK, Bounded, Entry
<1>2. effects[w][stream[i]] > 0
  BY DEF IndInv, AckPhase, ProcessedHasEffect, Ack, AckFails
<1>3. stream[i] \in Done
  BY <1>1, <1>2 DEF Done
<1>4. UNCHANGED <<stream, trimmed, effects>>
  BY DEF Ack, AckFails, ExecAck, redis
<1>5. acked' = acked \cup {i} \/ acked' = acked
  BY DEF Ack, AckFails, ExecAck, redis
<1> QED
  BY <1>1, <1>3, <1>4, <1>5 DEF Promise!Settle, Promise!vars, Done

LEMMA NextRefines == IndInv /\ [Next]_vars => [Promise!Next]_Promise!vars
<1> SUFFICES ASSUME IndInv, [Next]_vars
             PROVE  Promise!Next \/ UNCHANGED Promise!vars
  OBVIOUS
<1>1. ASSUME NEW e \in EventId, Publish(e)
      PROVE  Promise!Next
  BY <1>1, PublishPosts DEF Promise!Next
<1>2. ASSUME NEW w \in Worker, NEW i \in batch[w], Work(w, i)
      PROVE  Promise!Next \/ UNCHANGED Promise!vars
  <2>1. i \in DOMAIN stream /\ stream[i] \in EventId
    BY DEF IndInv, TypeOK, Bounded, Entry
  <2>2. CASE HandleReturns(w, i)
    <3>1. Promise!Perform(stream[i])
      BY <2>2, HandleReturnsPerforms
    <3>2. \E e \in EventId : Promise!Perform(e)
      BY <2>1, <3>1 DEF Promise!Perform
    <3> QED
      BY <3>2 DEF Promise!Next
  <2>3. CASE Ack(w, i) \/ AckFails(w, i)
    BY <2>1, <2>3, AckSettles DEF Promise!Next
  <2>4. CASE SkipDuplicate(w, i) \/ HandleRaises(w, i)
    BY <2>4, Stutter DEF SkipDuplicate, HandleRaises, redis
  <2> QED
    BY <1>2, <2>2, <2>3, <2>4 DEF Work
<1>3. ASSUME NEW w \in Worker,
             \/ Start(w) \/ Crash(w)
             \/ ClaimStale(w) \/ ClaimStaleFails(w)
             \/ ReadGroup(w) \/ ReadGroupFails(w)
      PROVE  UNCHANGED Promise!vars
  BY <1>3, Stutter DEF Start, Crash, ClaimStale, ClaimStaleFails, ExecClaim,
    ReadGroup, ReadGroupFails, ExecRead, redis
<1>4. ASSUME NEW i \in pending, GrowStale(i)
      PROVE  UNCHANGED Promise!vars
  BY <1>4, Stutter DEF GrowStale
<1>5. CASE UNCHANGED vars
  BY <1>5, Stutter DEF vars, redis
<1> QED
  BY <1>1, <1>2, <1>3, <1>4, <1>5 DEF Next

(* The group and its workers implement at-least-once delivery: whatever    *)
(* crashes, is lost, or is claimed by two workers, an entry is settled     *)
(* only after its event was handled and expires only over the cap.         *)
THEOREM ImplementsPromise == Spec => ImplementsAtLeastOnce
<1>1. Init => Promise!Init
  BY DEF Init, Promise!Init
<1> QED
  BY <1>1, Inductive, NextRefines, PTL DEF Spec, ImplementsAtLeastOnce, Promise!Spec
=============================================================================
