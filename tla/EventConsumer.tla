--------------------------- MODULE EventConsumer ---------------------------
(***************************************************************************)
(* One consumer group of the Redis stream nms:events and the worker        *)
(* processes that share it (services/events/bus.py, consumers.py and the   *)
(* event consumer loop of workers/supervisor.py).                          *)
(*                                                                         *)
(* A stream entry is named by its position.  Redis keeps the stream, the   *)
(* group's last-delivered id and its pending entries; what a worker keeps  *)
(* is in memory and dies with it.  Each await of poll_once is a step, so   *)
(* workers interleave, crash and lose replies between any two of them.     *)
(***************************************************************************)
EXTENDS Naturals, Sequences, FiniteSets

CONSTANTS
  Worker,     \* the replicas of one kind of event worker
  EventId,    \* event_id values
  Poison,     \* the events whose handler raises on every attempt
  Batch,      \* count of poll_once: entries per claim or read
  MaxLen,     \* maxlen of EventBus.publish
  MaxEntries, \* bound: entries published in a behaviour
  MaxStarts   \* bound: starts of one worker in a behaviour

ASSUME ConsumerAssumption ==
  /\ Poison \subseteq EventId
  /\ Batch \in Nat \ {0}
  /\ MaxLen \in Nat
  /\ MaxEntries \in Nat
  /\ MaxStarts \in Nat

VARIABLES
  stream,         \* every entry ever added: the event_id at each position
  trimmed,        \* entries 1..trimmed were dropped by the MAXLEN of XADD
  lastDelivered,  \* the group's last-delivered-id
  pending,        \* the group's pending entries list
  stale,          \* the pending entries idle for stale_ms or longer
  phase,          \* what a worker awaits
  batch,          \* the entries poll_once has yet to finish with
  processed,      \* stats.processed_event_ids of a worker
  \* History, for the properties:
  effects,        \* how often a worker's handler finished with an event
  starts,         \* how often a worker was started
  acked           \* the entries XACK was executed for

redis  == <<stream, trimmed, lastDelivered, pending, stale>>
worker == <<phase, batch, processed>>
vars   == <<redis, worker, effects, starts, acked>>

Phase == {"down", "claim", "read", "handle", "ack"}

Entry == DOMAIN stream

TypeOK ==
  /\ stream \in Seq(EventId)
  /\ trimmed \in Nat
  /\ lastDelivered \in Nat
  /\ pending \subseteq Nat
  /\ stale \subseteq pending
  /\ phase \in [Worker -> Phase]
  /\ batch \in [Worker -> SUBSET Nat]
  /\ processed \in [Worker -> SUBSET EventId]
  /\ effects \in [Worker -> [EventId -> Nat]]
  /\ starts \in [Worker -> Nat]
  /\ acked \subseteq Nat

-----------------------------------------------------------------------------
Oldest(S, n) == {i \in S : Cardinality({j \in S : j < i}) < n}

\* The loop of poll_once takes a batch in stream order.
IsNext(w, i) == i \in batch[w] /\ \A j \in batch[w] : i <= j

\* The worker goes on to entry i's successors, or to its next pass.
Advance(w, i) ==
  /\ batch' = [batch EXCEPT ![w] = @ \ {i}]
  /\ phase' = [phase EXCEPT ![w] = IF batch[w] = {i} THEN "claim" ELSE "handle"]

\* A worker takes delivery of S, which starts its idle clock anew.
Deliver(w, S) ==
  /\ batch' = [batch EXCEPT ![w] = S]
  /\ phase' = [phase EXCEPT ![w] = IF S = {} THEN "claim" ELSE "handle"]

Init ==
  /\ stream = <<>>
  /\ trimmed = 0
  /\ lastDelivered = 0
  /\ pending = {}
  /\ stale = {}
  /\ phase = [w \in Worker |-> "down"]
  /\ batch = [w \in Worker |-> {}]
  /\ processed = [w \in Worker |-> {}]
  /\ effects = [w \in Worker |-> [e \in EventId |-> 0]]
  /\ starts = [w \in Worker |-> 0]
  /\ acked = {}

-----------------------------------------------------------------------------
\* Mutant of Publish: the cap keeps one entry less than it says.
PublishKeepsLess(e) ==
  /\ Len(stream) < MaxEntries
  /\ stream' = Append(stream, e)
  /\ \E n \in trimmed..MaxEntries :
       /\ n = trimmed \/ n + MaxLen <= Len(stream') + 1
       /\ trimmed' = n
  /\ UNCHANGED <<lastDelivered, pending, stale, worker, effects, starts, acked>>

(* The publishers.  XADD trims approximately: it may keep more than MaxLen. *)
(* A failed publish is swallowed and changes nothing.                       *)
Publish(e) ==
  /\ Len(stream) < MaxEntries
  /\ stream' = Append(stream, e)
  /\ \E n \in trimmed..MaxEntries :
       /\ n = trimmed \/ n + MaxLen <= Len(stream')
       /\ trimmed' = n
  /\ UNCHANGED <<lastDelivered, pending, stale, worker, effects, starts, acked>>

(* A pending entry passes min_idle_time, whether or not a worker still     *)
(* works on it.                                                            *)
GrowStale(i) ==
  /\ i \in pending \ stale
  /\ stale' = stale \cup {i}
  /\ UNCHANGED <<stream, trimmed, lastDelivered, pending, worker, effects, starts, acked>>

-----------------------------------------------------------------------------
(* The supervisor's loop creates the consumer, with an empty memory.  The  *)
(* group was created at 0-0 by whoever came first, so it owes everything.  *)
Start(w) ==
  /\ phase[w] = "down"
  /\ starts[w] < MaxStarts
  /\ phase' = [phase EXCEPT ![w] = "claim"]
  /\ starts' = [starts EXCEPT ![w] = @ + 1]
  /\ UNCHANGED <<redis, batch, processed, effects, acked>>

(* A worker process dies, or is stopped, at any await: what it held and    *)
(* what it knew are gone, what Redis holds is not.                         *)
Crash(w) ==
  /\ phase[w] # "down"
  /\ starts[w] < MaxStarts
  /\ phase' = [phase EXCEPT ![w] = "down"]
  /\ batch' = [batch EXCEPT ![w] = {}]
  /\ processed' = [processed EXCEPT ![w] = {}]
  /\ UNCHANGED <<redis, effects, starts, acked>>

(* XAUTOCLAIM from 0-0: in order it forgets the pending entries that the   *)
(* stream no longer holds and hands over the stale ones, Batch in all.  It *)
(* looks at no more than ten times as many.                                *)
Scanned   == Oldest(pending, 10 * Batch)
Reachable == Oldest({i \in Scanned : i <= trimmed \/ i \in stale}, Batch)
Claimable == {i \in Reachable : i > trimmed}

ExecClaim ==
  /\ pending' = pending \ {i \in Reachable : i <= trimmed}
  /\ stale' = stale \ Reachable
  /\ UNCHANGED <<stream, trimmed, lastDelivered>>

\* Mutant of ClaimStale: the poll claims nothing before it reads.
ClaimStaleSkipped(w) ==
  /\ phase[w] = "claim"
  /\ phase' = [phase EXCEPT ![w] = "read"]
  /\ UNCHANGED <<redis, batch, processed, effects, starts, acked>>

ClaimStale(w) ==
  /\ phase[w] = "claim"
  /\ ExecClaim
  /\ IF Claimable = {}
     THEN phase' = [phase EXCEPT ![w] = "read"] /\ UNCHANGED batch
     ELSE Deliver(w, Claimable)
  /\ UNCHANGED <<processed, effects, starts, acked>>

(* claim_stale swallows an error and returns nothing: the command may have *)
(* been executed all the same.                                             *)
ClaimStaleFails(w) ==
  /\ phase[w] = "claim"
  /\ ExecClaim \/ UNCHANGED redis
  /\ phase' = [phase EXCEPT ![w] = "read"]
  /\ UNCHANGED <<batch, processed, effects, starts, acked>>

Undelivered == {i \in Entry : i > lastDelivered /\ i > trimmed}
Fresh       == Oldest(Undelivered, Batch)

ExecRead ==
  /\ pending' = pending \cup Fresh
  /\ \/ Fresh = {} /\ UNCHANGED lastDelivered
     \/ \E i \in Fresh : (\A j \in Fresh : j <= i) /\ lastDelivered' = i
  /\ UNCHANGED <<stream, trimmed, stale>>

\* Mutant of ReadGroup: the entries are read with noack.
ReadGroupNoAck(w) ==
  /\ phase[w] = "read"
  /\ lastDelivered' \in {lastDelivered} \cup Fresh
  /\ \A i \in Fresh : i <= lastDelivered'
  /\ Deliver(w, Fresh)
  /\ UNCHANGED <<stream, trimmed, pending, stale, processed, effects, starts, acked>>

(* XREADGROUP with id ">": the next Batch entries become pending.          *)
ReadGroup(w) ==
  /\ phase[w] = "read"
  /\ ExecRead
  /\ Deliver(w, Fresh)
  /\ UNCHANGED <<processed, effects, starts, acked>>

(* read_group raises; the supervisor's loop catches that and polls again.  *)
(* The entries may have been delivered to a worker that never saw them.    *)
ReadGroupFails(w) ==
  /\ phase[w] = "read"
  /\ ExecRead \/ UNCHANGED redis
  /\ phase' = [phase EXCEPT ![w] = "claim"]
  /\ UNCHANGED <<batch, processed, effects, starts, acked>>

-----------------------------------------------------------------------------
(* process_one finds the event among the processed ones: no handler runs,  *)
(* and poll_once goes on to acknowledge the entry.                         *)
SkipDuplicate(w, i) ==
  /\ phase[w] = "handle"
  /\ IsNext(w, i)
  /\ stream[i] \in processed[w]
  /\ phase' = [phase EXCEPT ![w] = "ack"]
  /\ UNCHANGED <<redis, batch, processed, effects, starts, acked>>

\* Mutant of HandleReturns: the event is not remembered.
HandleReturnsForgets(w, i) ==
  /\ phase[w] = "handle"
  /\ IsNext(w, i)
  /\ stream[i] \notin processed[w] \cup Poison
  /\ effects' = [effects EXCEPT ![w][stream[i]] = @ + 1]
  /\ phase' = [phase EXCEPT ![w] = "ack"]
  /\ UNCHANGED <<redis, batch, processed, starts, acked>>

\* Mutant of HandleReturns: the stream id is remembered, not the event_id.
HandleReturnsByStreamId(w, i) ==
  /\ phase[w] = "handle"
  /\ IsNext(w, i)
  /\ stream[i] \notin processed[w] \cup Poison
  /\ processed' = [processed EXCEPT ![w] = @ \cup {i}]
  /\ effects' = [effects EXCEPT ![w][stream[i]] = @ + 1]
  /\ phase' = [phase EXCEPT ![w] = "ack"]
  /\ UNCHANGED <<redis, batch, starts, acked>>

(* The handler returns, and the event is remembered.                       *)
HandleReturns(w, i) ==
  /\ phase[w] = "handle"
  /\ IsNext(w, i)
  /\ stream[i] \notin processed[w]
  /\ stream[i] \notin Poison
  /\ processed' = [processed EXCEPT ![w] = @ \cup {stream[i]}]
  /\ effects' = [effects EXCEPT ![w][stream[i]] = @ + 1]
  /\ phase' = [phase EXCEPT ![w] = "ack"]
  /\ UNCHANGED <<redis, batch, starts, acked>>

\* Mutant of HandleRaises: an error is no reason not to acknowledge.
HandleRaisesAcked(w, i) ==
  /\ phase[w] = "handle"
  /\ IsNext(w, i)
  /\ stream[i] \notin processed[w]
  /\ phase' = [phase EXCEPT ![w] = "ack"]
  /\ UNCHANGED <<redis, batch, processed, effects, starts, acked>>

(* The handler raises: errors is incremented, so the entry is not          *)
(* acknowledged and stays pending until it is stale.                       *)
HandleRaises(w, i) ==
  /\ phase[w] = "handle"
  /\ IsNext(w, i)
  /\ stream[i] \notin processed[w]
  /\ Advance(w, i)
  /\ UNCHANGED <<redis, processed, effects, starts, acked>>

ExecAck(i) ==
  /\ pending' = pending \ {i}
  /\ stale' = stale \ {i}
  /\ acked' = acked \cup {i}
  /\ UNCHANGED <<stream, trimmed, lastDelivered>>

Ack(w, i) ==
  /\ phase[w] = "ack"
  /\ IsNext(w, i)
  /\ ExecAck(i)
  /\ Advance(w, i)
  /\ UNCHANGED <<processed, effects, starts>>

(* XACK raises out of poll_once, which drops the rest of the batch.  The   *)
(* supervisor's loop keeps the consumer, and so what it has processed.     *)
AckFails(w, i) ==
  /\ phase[w] = "ack"
  /\ IsNext(w, i)
  /\ ExecAck(i) \/ (UNCHANGED <<redis, acked>>)
  /\ batch' = [batch EXCEPT ![w] = {}]
  /\ phase' = [phase EXCEPT ![w] = "claim"]
  /\ UNCHANGED <<processed, effects, starts>>

-----------------------------------------------------------------------------
Work(w, i) ==
  \/ SkipDuplicate(w, i)
  \/ HandleReturns(w, i)
  \/ HandleRaises(w, i)
  \/ Ack(w, i)
  \/ AckFails(w, i)

Next ==
  \/ \E e \in EventId : Publish(e)
  \/ \E i \in pending : GrowStale(i)
  \/ \E w \in Worker :
       \/ Start(w)
       \/ Crash(w)
       \/ ClaimStale(w)
       \/ ClaimStaleFails(w)
       \/ ReadGroup(w)
       \/ ReadGroupFails(w)
       \/ \E i \in batch[w] : Work(w, i)

Spec == Init /\ [][Next]_vars

-----------------------------------------------------------------------------
(* Fairness.  A running worker's loop goes on, Docker restarts a worker    *)
(* that died, idle time passes (WF).  A lost reply, a handler that raises  *)
(* and a failing XACK are outages, not the fault of one entry: of what is  *)
(* tried again and again for an entry, some attempt succeeds (SF).         *)
(* Publishers, crashes and lost replies are not fair: they may never come. *)
Fairness ==
  /\ \A w \in Worker :
       /\ WF_vars(Start(w))
       /\ WF_vars(ClaimStale(w) \/ ClaimStaleFails(w))
       /\ WF_vars(ReadGroup(w) \/ ReadGroupFails(w))
       /\ WF_vars(\E i \in batch[w] : Work(w, i))
  /\ SF_vars(\E w \in Worker : ClaimStale(w))
  /\ SF_vars(Fresh # {} /\ \E w \in Worker : ReadGroup(w))
  /\ \A i \in 1..MaxEntries :
       /\ WF_vars(GrowStale(i))
       /\ SF_vars(i \in Claimable /\ \E w \in Worker : ClaimStale(w))
       /\ SF_vars(\E w \in Worker : HandleReturns(w, i))
       /\ SF_vars(\E w \in Worker : Ack(w, i))

FairSpec == Spec /\ Fairness

-----------------------------------------------------------------------------
(* At-least-once, the group's side: an entry that was delivered is still   *)
(* pending, or was acknowledged, or fell to the stream's cap.  No crash,   *)
(* lost reply, claim or failing handler makes the group forget one.        *)
NothingForgotten ==
  \A i \in 1..lastDelivered : i \in pending \cup acked \/ i <= trimmed

(* At-least-once, the workers' side: an entry is acknowledged only when    *)
(* the handler of some worker has finished with its event; the entries     *)
(* process_one skips as duplicates are acknowledged too, and the events    *)
(* that make their handler raise never are.                                *)
AckedWasHandled ==
  \A i \in acked : \E w \in Worker : effects[w][stream[i]] > 0

(* Idempotency by event_id goes as far as the process that remembers it:   *)
(* a worker's handler finishes with an event at most once per start of the *)
(* worker, however often the event is published, redelivered or claimed.   *)
OncePerStart ==
  \A w \in Worker, e \in EventId : effects[w][e] <= starts[w]

(* The group and its workers keep the promise of the bus.                  *)
Promise == INSTANCE AtLeastOnce WITH
  log     <- stream,
  handled <- {e \in EventId : \E w \in Worker : effects[w][e] > 0},
  settled <- acked,
  expired <- trimmed

ImplementsAtLeastOnce == Promise!Spec

(* Every entry whose event can be handled is in the end acknowledged, or   *)
(* pushed out by the cap, if two things hold of the poll.  It claims stale *)
(* entries from the oldest on, so the ones that fail for ever must not     *)
(* fill a batch; and it reads new entries only when it claimed nothing, so *)
(* some worker must now and then find nothing stale.                       *)
PollNotClogged ==
  /\ [](Cardinality({i \in Entry : stream[i] \in Poison}) < Batch)
  /\ []<>(\E w \in Worker : phase[w] = "read")

EventuallySettled ==
  PollNotClogged =>
    \A i \in 1..MaxEntries :
      i \in Entry /\ stream[i] \notin Poison ~> i \in acked \/ i <= trimmed
=============================================================================
