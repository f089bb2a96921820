----------------------------- MODULE LoopProofs -----------------------------
(***************************************************************************)
(* Theorems about what the supervisor's loops drive.  PullCollector: no    *)
(* file is stored twice, for any number of files and of faults and any     *)
(* window that is wide enough for what the device keeps.  WatchCollector:  *)
(* no write of the transfer job is lost, and none is stored twice, for any *)
(* files, any number of writes and of mishaps, and any order of the two    *)
(* processes' steps.  MonitoringPolicies: its types, for any pollers, runs *)
(* and devices.                                                            *)
(***************************************************************************)
EXTENDS PullCollector, WatchCollector, MonitoringPolicies, FiniteSetTheorems,
        SequenceTheorems, TLAPS

Values(w) == {w[i] : i \in DOMAIN w}

(* No name is noted twice, and no file so much older than one noted before *)
(* that the device could not have kept both.                               *)
Spread(w) == \A i, j \in DOMAIN w : i < j => w[i] # w[j] /\ w[j] > w[i] - Capacity

First(f) == f \in todo /\ \A g \in todo : f <= g

\* What the collector has, of its notes and of its pass, was written before.
DeviceKeeps ==
  /\ \A f \in remote : f <= written /\ f > written - Capacity
  /\ \A f \in todo \cup Noted : f <= written
  /\ \A f \in File : f > written => ingested[f] = 0

Notes ==
  /\ Spread(window)
  /\ \A f \in File : at \in {"ingest", "note"} /\ First(f) => Spread(Append(window, f))
  /\ todo \cap Noted = {}

(* A file that can still be pulled is noted, is about to be, or was stored *)
(* no more often than its note was lost.                                   *)
Fresh(f) == f \in Noted \/ (at = "note" /\ First(f)) \/ ingested[f] <= unnoted[f]

PullInv ==
  /\ PullTypeOK
  /\ DeviceKeeps
  /\ Notes
  /\ \A f \in remote \cup todo : Fresh(f)
  /\ PulledOnce

-----------------------------------------------------------------------------
LEMMA Numbers ==
  /\ MaxFiles \in Nat /\ Capacity \in Nat /\ Capacity >= 1 /\ Window \in Nat /\ Window >= 1
  /\ \A f \in File : f \in Nat
  BY PullAssumption DEF File

LEMMA FaultIsSmall ==
  ASSUME PullTypeOK, Fault \/ UNCHANGED faults
  PROVE  faults' \in 0..MaxFaults
  BY PullAssumption DEF PullTypeOK, Fault

LEMMA OneFirst ==
  ASSUME PullTypeOK, NEW f \in File, First(f), NEW g \in File, First(g)
  PROVE  f = g
  BY Numbers DEF First

LEMMA AppendedValues ==
  ASSUME NEW w \in Seq(File), NEW f \in File
  PROVE  /\ Append(w, f) \in Seq(File) /\ Len(Append(w, f)) = Len(w) + 1
         /\ DOMAIN Append(w, f) = 1..Len(w) + 1 /\ DOMAIN w = 1..Len(w) /\ Len(w) \in Nat
         /\ \A i \in 1..Len(w) : Append(w, f)[i] = w[i]
         /\ Append(w, f)[Len(w) + 1] = f
         /\ Values(Append(w, f)) = Values(w) \cup {f}
  <1>1. /\ Append(w, f) \in Seq(File) /\ Len(Append(w, f)) = Len(w) + 1
        /\ \A i \in 1..Len(w) : Append(w, f)[i] = w[i]
        /\ Append(w, f)[Len(w) + 1] = f
    BY AppendProperties
  <1>2. DOMAIN Append(w, f) = 1..Len(w) + 1 /\ DOMAIN w = 1..Len(w) /\ Len(w) \in Nat
    BY <1>1
  <1> DEFINE all == Append(w, f)
  <1> HIDE DEF all
  <1>3. \A i \in 1..Len(w) + 1 : i \in 1..Len(w) \/ i = Len(w) + 1
    BY <1>2
  <1>4. Values(all) = Values(w) \cup {f}
    <2>1. ASSUME NEW i \in 1..Len(w) + 1
          PROVE  all[i] \in Values(w) \cup {f}
      BY <1>1, <1>2, <1>3 DEF all, Values
    <2>2. ASSUME NEW i \in 1..Len(w)
          PROVE  w[i] \in Values(all)
      <3>1. i \in 1..Len(w) + 1
        BY <1>2
      <3> QED
        BY <3>1, <1>1, <1>2 DEF all, Values
    <2>3. f \in Values(all)
      <3>1. Len(w) + 1 \in 1..Len(w) + 1
        BY <1>2
      <3> QED
        BY <3>1, <1>1, <1>2 DEF all, Values
    <2> QED
      BY <2>1, <2>2, <2>3, <1>2 DEF all, Values
  <1> QED
    BY <1>1, <1>2, <1>4 DEF all

LEMMA TailValues ==
  ASSUME NEW w \in Seq(File), Len(w) >= 1, Spread(w)
  PROVE  /\ Tail(w) \in Seq(File) /\ Len(Tail(w)) = Len(w) - 1
         /\ Spread(Tail(w))
         /\ Values(Tail(w)) = Values(w) \ {w[1]}
  <1>1. /\ Tail(w) \in Seq(File) /\ Len(Tail(w)) = Len(w) - 1
        /\ \A i \in 1..Len(w) - 1 : Tail(w)[i] = w[i + 1]
    <2>1. w # <<>>
      OBVIOUS
    <2> QED
      BY <2>1, HeadTailProperties
  <1>2. DOMAIN Tail(w) = 1..Len(w) - 1 /\ DOMAIN w = 1..Len(w) /\ Len(w) \in Nat
    BY <1>1
  <1> DEFINE rest == Tail(w)
  <1> HIDE DEF rest
  <1>3. \A i \in 1..Len(w) - 1 : rest[i] = w[i + 1] /\ i + 1 \in 1..Len(w) /\ i \in Int
    BY <1>1, <1>2 DEF rest
  <1>4. Spread(rest)
    <2> SUFFICES ASSUME NEW i \in 1..Len(w) - 1, NEW j \in 1..Len(w) - 1, i < j
                 PROVE  rest[i] # rest[j] /\ rest[j] > rest[i] - Capacity
      BY <1>2 DEF Spread, rest
    <2>1. i + 1 < j + 1
      BY <1>3
    <2> QED
      BY <2>1, <1>2, <1>3 DEF Spread
  <1>5. Values(rest) = Values(w) \ {w[1]}
    <2>1. ASSUME NEW i \in 1..Len(w) - 1
          PROVE  rest[i] \in Values(w) \ {w[1]}
      <3>1. 1 \in 1..Len(w) /\ 1 < i + 1
        BY <1>2
      <3> QED
        BY <3>1, <1>2, <1>3 DEF Spread, Values
    <2>2. ASSUME NEW i \in 1..Len(w), w[i] # w[1]
          PROVE  w[i] \in Values(rest)
      <3>1. i - 1 \in 1..Len(w) - 1 /\ (i - 1) + 1 = i
        BY <2>2, <1>2
      <3>2. rest[i - 1] = w[i]
        BY <3>1, <1>3
      <3> QED
        BY <3>1, <3>2, <1>2 DEF Values, rest
    <2> QED
      BY <2>1, <2>2, <1>2 DEF Values, rest
  <1> QED
    BY <1>1, <1>4, <1>5 DEF rest

(* The heart of the matter: of more names than the window holds, the first *)
(* is not of a file that the device still keeps.  The others are of files  *)
(* less than Capacity away from it, and there are not enough of those.     *)
LEMMA HeadIsGone ==
  ASSUME NEW w \in Seq(File), Spread(w), Len(w) = Window + 1, NEW n \in Nat,
         \A i \in DOMAIN w : w[i] <= n
  PROVE  ~(w[1] > n - Capacity)
  <1> SUFFICES ASSUME w[1] > n - Capacity
               PROVE  FALSE
    OBVIOUS
  <1> DEFINE h     == w[1]
             near  == (h - Capacity + 1)..(h + Capacity - 1)
             later == 2..Window + 1
             g     == [i \in later |-> w[i]]
  <1>1. DOMAIN w = 1..Window + 1 /\ \A i \in 1..Window + 1 : w[i] \in Nat
    BY Numbers
  <1>2. 1 \in 1..Window + 1 /\ \A i \in later : i \in 1..Window + 1 /\ 1 < i
    BY Numbers
  <1>3. h \in Nat /\ h > n - Capacity
    BY <1>1, <1>2
  <1>4. ASSUME NEW i \in later
        PROVE  w[i] \in near \ {h}
    <2>1. w[i] # h /\ w[i] > h - Capacity /\ w[i] <= n /\ w[i] \in Nat
      BY <1>1, <1>2 DEF Spread
    <2> HIDE DEF h
    <2> QED
      BY <2>1, <1>3, Numbers
  <1>5. g \in [later -> near \ {h}]
    BY <1>4
  <1> HIDE DEF h
  <1>6. IsFiniteSet(near) /\ Cardinality(near) = 2 * Capacity - 1 /\ h \in near
    <2> DEFINE a == h - Capacity + 1
               b == h + Capacity - 1
    <2>1. a \in Int /\ b \in Int /\ ~(a > b) /\ b - a + 1 = 2 * Capacity - 1 /\ h \in a..b
      BY <1>3, Numbers
    <2> HIDE DEF a, b
    <2>2. IsFiniteSet(a..b) /\ Cardinality(a..b) = IF a > b THEN 0 ELSE b - a + 1
      BY <2>1, FS_Interval
    <2> QED
      BY <2>1, <2>2 DEF a, b
  <1>7. IsFiniteSet(near \ {h}) /\ Cardinality(near \ {h}) = 2 * Capacity - 2
    <2>1. IsFiniteSet(near \ {h}) /\ Cardinality(near \ {h}) = Cardinality(near) - 1
      BY <1>6, FS_RemoveElement
    <2> QED
      BY <2>1, <1>6, Numbers
  <1>8. IsFiniteSet(later) /\ Cardinality(later) = Window
    <2>1. IsFiniteSet(later) /\ Cardinality(later) =
            IF 2 > Window + 1 THEN 0 ELSE (Window + 1) - 2 + 1
      BY Numbers, FS_Interval
    <2> QED
      BY <2>1, Numbers
  <1>9. Cardinality(near \ {h}) < Cardinality(later)
    BY <1>7, <1>8, PullAssumption
  <1>10. \A x \in later : g[x] = w[x]
    OBVIOUS
  <1> HIDE DEF near, later, g
  <1>11. PICK x \in later, y \in later : x # y /\ g[x] = g[y]
    <2>1. \E x, y \in later : x # y /\ g[x] = g[y]
      BY <1>5, <1>7, <1>8, <1>9, FS_PigeonHole
    <2> QED
      BY <2>1
  <1>12. w[x] = w[y] /\ x \in 1..Window + 1 /\ y \in 1..Window + 1 /\ (x < y \/ y < x)
    BY <1>2, <1>10, <1>11
  <1> QED
    BY <1>1, <1>12 DEF Spread

LEMMA PullInitInv == PullInit => PullInv
  <1> SUFFICES ASSUME PullInit
               PROVE  PullInv
    OBVIOUS
  <1>1. window \in Seq(File) /\ Len(window) = 0 /\ DOMAIN window = {}
    BY DEF PullInit
  <1>2. PullTypeOK
    BY <1>1, PullAssumption DEF PullInit, PullTypeOK
  <1>3. Noted = {}
    BY <1>1 DEF Noted
  <1> QED
    BY <1>1, <1>2, <1>3 DEF PullInit, PullInv, DeviceKeeps, Notes, Spread, PulledOnce

-----------------------------------------------------------------------------
(* The device.                                                             *)
LEMMA ProduceKeepsInv == PullInv /\ Produce => PullInv'
  <1> SUFFICES ASSUME PullInv, Produce
               PROVE  PullInv'
    OBVIOUS
  <1> USE DEF PullInv
  <1> DEFINE w == written + 1
  <1>1. /\ written < MaxFiles /\ written' = w
        /\ remote' = {f \in remote : f > w - Capacity} \cup {w}
        /\ UNCHANGED <<window, ingested, at, todo, faults, unnoted>>
    BY DEF Produce
  <1>2. w \in File /\ w \in Nat /\ written \in Nat /\ w > written /\ w > w - Capacity
    BY <1>1, Numbers DEF PullTypeOK, File
  <1>3. PullTypeOK'
    <2>1. written' \in 0..MaxFiles
      BY <1>1, <1>2 DEF File
    <2>2. remote' \subseteq File
      BY <1>1, <1>2 DEF PullTypeOK
    <2> HIDE DEF w
    <2> QED
      BY <1>1, <2>1, <2>2 DEF PullTypeOK
  <1>4. Noted' = Noted
    BY <1>1 DEF Noted
  <1>5. remote \subseteq File /\ todo \subseteq File /\ Noted \subseteq File
    BY DEF PullTypeOK, Noted
  <1>6. DeviceKeeps'
    <2>1. \A f \in File : f \in Nat
      BY Numbers
    <2>2. \A f \in remote : f <= w
      BY <1>2, <1>5, <2>1 DEF DeviceKeeps
    <2>3. \A f \in todo \cup Noted : f <= w
      BY <1>2, <1>5, <2>1 DEF DeviceKeeps
    <2>4. \A f \in File : f > w => ingested[f] = 0
      BY <1>2, <2>1 DEF DeviceKeeps
    <2>5. w <= w
      BY <1>2
    <2> HIDE DEF w
    <2> QED
      BY <1>1, <1>2, <1>4, <2>2, <2>3, <2>4, <2>5 DEF DeviceKeeps
  <1>7. Notes'
    BY <1>1, <1>4 DEF Notes, Spread, First
  <1>8. \A f \in remote' \cup todo' : Fresh(f)'
    <2>1. \A f \in remote \cup todo : Fresh(f)'
      BY <1>1, <1>4 DEF Fresh, First
    <2>2. ingested[w] <= unnoted[w]
      BY <1>2 DEF DeviceKeeps, PullTypeOK
    <2> HIDE DEF w
    <2> QED
      BY <1>1, <2>1, <2>2 DEF Fresh
  <1>9. PulledOnce'
    BY <1>1 DEF PulledOnce
  <1> QED
    BY <1>3, <1>6, <1>7, <1>8, <1>9

LEMMA DiscardKeepsInv ==
  ASSUME PullInv, NEW f \in remote, Discard(f)
  PROVE  PullInv'
  <1> USE DEF PullInv
  <1>1. remote' \subseteq remote /\ UNCHANGED <<written, window, ingested, at, todo, faults, unnoted>>
    BY DEF Discard
  <1>2. Noted' = Noted
    BY <1>1 DEF Noted
  <1>3. PullTypeOK'
    BY <1>1 DEF PullTypeOK
  <1>4. DeviceKeeps' /\ Notes' /\ PulledOnce'
    BY <1>1, <1>2 DEF DeviceKeeps, Notes, Spread, First, PulledOnce
  <1>5. \A g \in remote' \cup todo' : Fresh(g)'
    BY <1>1, <1>2 DEF Fresh, First
  <1> QED
    BY <1>3, <1>4, <1>5

-----------------------------------------------------------------------------
(* The collector.                                                          *)
LEMMA BeginPassKeepsInv == PullInv /\ BeginPass => PullInv'
  <1> SUFFICES ASSUME PullInv, BeginPass
               PROVE  PullInv'
    OBVIOUS
  <1> USE DEF PullInv
  <1>1. /\ at = "idle" /\ at' = "read" /\ todo' = remote \ Noted
        /\ UNCHANGED <<remote, written, window, ingested, faults, unnoted>>
    BY DEF BeginPass
  <1>2. Noted' = Noted
    BY <1>1 DEF Noted
  <1>3. PullTypeOK'
    BY <1>1 DEF PullTypeOK
  <1>4. DeviceKeeps' /\ Notes' /\ PulledOnce'
    BY <1>1, <1>2 DEF DeviceKeeps, Notes, Spread, PulledOnce
  <1>5. \A g \in remote' \cup todo' : Fresh(g)'
    BY <1>1, <1>2 DEF Fresh
  <1> QED
    BY <1>3, <1>4, <1>5

LEMMA EndPassKeepsInv == PullInv /\ EndPass => PullInv'
  <1> SUFFICES ASSUME PullInv, EndPass
               PROVE  PullInv'
    OBVIOUS
  <1> USE DEF PullInv
  <1>1. /\ at = "read" /\ at' = "idle"
        /\ UNCHANGED <<remote, written, window, ingested, todo, faults, unnoted>>
    BY DEF EndPass
  <1>2. Noted' = Noted
    BY <1>1 DEF Noted
  <1>3. PullTypeOK'
    BY <1>1 DEF PullTypeOK
  <1>4. DeviceKeeps' /\ Notes' /\ PulledOnce'
    BY <1>1, <1>2 DEF DeviceKeeps, Notes, Spread, PulledOnce
  <1>5. \A g \in remote' \cup todo' : Fresh(g)'
    BY <1>1, <1>2 DEF Fresh
  <1> QED
    BY <1>3, <1>4, <1>5

(* A file that is read is still on the device, so it is not much older     *)
(* than what was noted.                                                    *)
LEMMA ReadIsNear ==
  ASSUME PullInv, NEW f \in File, f \in remote, f \in todo
  PROVE  Spread(Append(window, f))
  <1> USE DEF PullInv
  <1> DEFINE all == Append(window, f)
             n   == Len(window)
  <1>1. /\ DOMAIN all = 1..n + 1 /\ DOMAIN window = 1..n /\ n \in Nat
        /\ \A i \in 1..n : all[i] = window[i]
        /\ all[n + 1] = f
    BY AppendedValues DEF PullTypeOK
  <1> HIDE DEF all, n
  <1>2. \A i \in 1..n : window[i] \in Noted /\ window[i] \in File
    BY <1>1 DEF Noted, PullTypeOK
  <1>3. ASSUME NEW i \in 1..n
        PROVE  window[i] # f /\ f > window[i] - Capacity
    <2>1. window[i] # f
      BY <1>2 DEF Notes
    <2>2. window[i] <= written /\ f > written - Capacity
      BY <1>2 DEF DeviceKeeps
    <2>3. window[i] \in Nat /\ f \in Nat /\ written \in Nat /\ Capacity \in Nat
      BY <1>2, Numbers DEF PullTypeOK
    <2> QED
      BY <2>1, <2>2, <2>3
  <1>4. ASSUME NEW i \in 1..n + 1, NEW j \in 1..n + 1, i < j
        PROVE  all[i] # all[j] /\ all[j] > all[i] - Capacity
    <2>1. i \in 1..n
      BY <1>1, <1>4
    <2>2. CASE j \in 1..n
      BY <2>1, <2>2, <1>1, <1>4 DEF Notes, Spread
    <2>3. CASE j = n + 1
      BY <2>1, <2>3, <1>1, <1>3
    <2> QED
      BY <2>2, <2>3, <1>1
  <1>5. Spread(all)
    BY <1>1, <1>4 DEF Spread
  <1> QED
    BY <1>5 DEF all

LEMMA ReadKeepsInv ==
  ASSUME PullInv, NEW f \in File, Read(f)
  PROVE  PullInv'
  <1> USE DEF PullInv
  <1>1. /\ at = "read" /\ at' = "ingest" /\ First(f) /\ f \in todo /\ f \in remote
        /\ UNCHANGED <<remote, written, window, ingested, todo, faults, unnoted>>
    BY DEF Read, AtFile, First
  <1>2. Noted' = Noted
    BY <1>1 DEF Noted
  <1>3. PullTypeOK'
    BY <1>1 DEF PullTypeOK
  <1>4. DeviceKeeps' /\ PulledOnce'
    BY <1>1, <1>2 DEF DeviceKeeps, PulledOnce
  <1>5. Notes'
    <2>1. ASSUME NEW g \in File, First(g)
          PROVE  Spread(Append(window, g))
      <3>1. g = f
        BY <1>1, <2>1, OneFirst
      <3> QED
        BY <3>1, <1>1, ReadIsNear
    <2> QED
      BY <1>1, <1>2, <2>1 DEF Notes, Spread, First
  <1>6. \A g \in remote' \cup todo' : Fresh(g)'
    BY <1>1, <1>2 DEF Fresh
  <1> QED
    BY <1>3, <1>4, <1>5, <1>6

\* What the steps that give a file up have in common.
LEMMA Skipped ==
  ASSUME PullInv, NEW f \in File, NextFile(f),
         faults' \in 0..MaxFaults,
         UNCHANGED <<remote, written, window, ingested>>,
         unnoted' \in [File -> Nat],
         \A g \in File : unnoted[g] <= unnoted'[g],
         \A g \in File : at = "note" /\ First(g) => unnoted'[g] = unnoted[g] + 1
  PROVE  PullInv'
  <1> USE DEF PullInv
  <1>1. at' = "read" /\ todo' = todo \ {f}
    BY DEF NextFile
  <1>2. Noted' = Noted
    BY DEF Noted
  <1>3. PullTypeOK'
    BY <1>1 DEF PullTypeOK
  <1>4. DeviceKeeps' /\ Notes'
    BY <1>1, <1>2 DEF DeviceKeeps, Notes, Spread
  <1>5. \A g \in File : ingested[g] \in Nat /\ unnoted[g] \in Nat /\ unnoted'[g] \in Nat
    BY DEF PullTypeOK
  <1>6. PulledOnce'
    BY <1>5 DEF PulledOnce
  <1>7. ASSUME NEW g \in remote \cup todo
        PROVE  Fresh(g)'
    <2>1. g \in File
      BY DEF PullTypeOK
    <2>2. CASE g \in Noted
      BY <2>2, <1>2 DEF Fresh
    <2>3. CASE at = "note" /\ First(g)
      BY <2>1, <2>3, <1>5 DEF PulledOnce, Fresh
    <2>4. CASE ingested[g] <= unnoted[g]
      BY <2>1, <2>4, <1>5 DEF Fresh
    <2> QED
      BY <2>2, <2>3, <2>4 DEF Fresh
  <1> QED
    BY <1>1, <1>3, <1>4, <1>6, <1>7

LEMMA FailureKeepsInv ==
  ASSUME PullInv, NEW f \in File, ReadFails(f) \/ IngestFails(f) \/ NoteFails(f)
  PROVE  PullInv'
  <1> USE DEF PullInv
  <1>1. unnoted \in [File -> Nat] /\ \A g \in File : unnoted[g] \in Nat
    BY DEF PullTypeOK
  <1>2. faults' \in 0..MaxFaults
    BY FaultIsSmall DEF ReadFails, IngestFails, NoteFails
  <1>3. CASE ReadFails(f) \/ IngestFails(f)
    <2>1. at # "note" /\ NextFile(f) /\ UNCHANGED <<remote, written, window, ingested, unnoted>>
      BY <1>3 DEF ReadFails, IngestFails, AtFile
    <2>2. \A g \in File : unnoted[g] <= unnoted'[g]
      BY <2>1, <1>1
    <2> QED
      BY <2>1, <2>2, <1>1, <1>2, Skipped
  <1>4. CASE NoteFails(f)
    <2>1. /\ at = "note" /\ First(f) /\ NextFile(f)
          /\ unnoted' = [unnoted EXCEPT ![f] = @ + 1]
          /\ UNCHANGED <<remote, written, window, ingested>>
      BY <1>4 DEF NoteFails, AtFile, First
    <2>2. unnoted' \in [File -> Nat] /\ unnoted'[f] = unnoted[f] + 1
      BY <2>1, <1>1
    <2>3. \A g \in File : unnoted[g] <= unnoted'[g]
      BY <2>1, <1>1
    <2>4. \A g \in File : First(g) => g = f
      BY <2>1, OneFirst
    <2> QED
      BY <2>1, <2>2, <2>3, <2>4, <1>2, Skipped
  <1> QED
    BY <1>3, <1>4

LEMMA IngestKeepsInv ==
  ASSUME PullInv, NEW f \in File, Ingest(f)
  PROVE  PullInv'
  <1> USE DEF PullInv
  <1>1. /\ at = "ingest" /\ at' = "note" /\ First(f) /\ f \in todo
        /\ ingested' = [ingested EXCEPT ![f] = @ + 1]
        /\ UNCHANGED <<remote, written, window, todo, faults, unnoted>>
    BY DEF Ingest, AtFile, First
  <1>2. Noted' = Noted
    BY <1>1 DEF Noted
  <1>3. \A g \in File : ingested[g] \in Nat /\ unnoted[g] \in Nat
    BY DEF PullTypeOK
  <1>4. /\ ingested' \in [File -> Nat] /\ ingested'[f] = ingested[f] + 1
        /\ \A g \in File : g # f => ingested'[g] = ingested[g]
    BY <1>1, <1>3 DEF PullTypeOK
  <1>5. PullTypeOK'
    BY <1>1, <1>4 DEF PullTypeOK
  <1>6. DeviceKeeps'
    <2>1. f <= written /\ f \in Nat /\ written \in Nat
      BY <1>1, Numbers DEF DeviceKeeps, PullTypeOK
    <2>2. ~(f > written)
      BY <2>1
    <2> QED
      BY <1>1, <1>2, <1>4, <2>2 DEF DeviceKeeps
  <1>7. Notes'
    BY <1>1, <1>2 DEF Notes, Spread, First
  <1>8. ingested[f] <= unnoted[f]
    BY <1>1 DEF Fresh, Notes
  <1>9. PulledOnce'
    <2>1. ingested'[f] <= 1 + unnoted[f]
      BY <1>3, <1>4, <1>8
    <2> QED
      BY <2>1, <1>1, <1>4 DEF PulledOnce
  <1>10. ASSUME NEW g \in remote \cup todo
         PROVE  Fresh(g)'
    <2>1. g \in File
      BY DEF PullTypeOK
    <2>2. CASE g = f
      BY <2>2, <1>1 DEF Fresh, First
    <2>3. CASE g # f
      BY <2>1, <2>3, <1>1, <1>2, <1>4 DEF Fresh
    <2> QED
      BY <2>2, <2>3
  <1> QED
    BY <1>1, <1>5, <1>6, <1>7, <1>9, <1>10

LEMMA NoteKeepsInv ==
  ASSUME PullInv, NEW f \in File, Note(f)
  PROVE  PullInv'
  <1> USE DEF PullInv
  <1> DEFINE all == Append(window, f)
  <1>1. /\ at = "note" /\ First(f) /\ f \in todo
        /\ window' = IF Len(all) <= Window THEN all ELSE Tail(all)
        /\ at' = "read" /\ todo' = todo \ {f}
        /\ UNCHANGED <<remote, written, ingested, faults, unnoted>>
    BY DEF Note, AtFile, First, NextFile
  <1>2. window \in Seq(File) /\ Len(window) <= Window
    BY DEF PullTypeOK
  <1>3. /\ all \in Seq(File) /\ Len(all) = Len(window) + 1
        /\ DOMAIN all = 1..Len(window) + 1 /\ Len(window) \in Nat
        /\ Values(all) = Noted \cup {f}
        /\ Values(window) = Noted
    <2>1. Values(window) = Noted
      BY DEF Values, Noted
    <2> QED
      BY <1>2, <2>1, AppendedValues
  <1>4. Spread(all)
    BY <1>1 DEF Notes
  <1>5. \A i \in DOMAIN all : all[i] <= written
    <2>1. \A i \in DOMAIN all : all[i] \in Noted \cup {f}
      BY <1>3 DEF Values
    <2> QED
      BY <2>1, <1>1 DEF DeviceKeeps
  <1> HIDE DEF all
  \* The window keeps every name it had, but for one that is not needed.
  <1>6. /\ window' \in Seq(File) /\ Len(window') <= Window /\ Spread(window')
        /\ Noted' \subseteq Noted \cup {f} /\ f \in Noted'
        /\ \A g \in remote \cap Noted : g \in Noted'
    <2>1. Noted' = Values(window')
      BY DEF Noted, Values
    <2>2. CASE Len(all) <= Window
      BY <2>1, <2>2, <1>1, <1>3, <1>4
    <2>3. CASE ~(Len(all) <= Window)
      <3>1. window' = Tail(all)
        BY <2>3, <1>1
      <3>2. Len(all) = Window + 1 /\ Len(all) >= 1 /\ Len(all) \in Nat /\ Window >= 1
        BY <2>3, <1>2, <1>3, Numbers
      <3>3. /\ Tail(all) \in Seq(File) /\ Len(Tail(all)) = Len(all) - 1
            /\ Spread(Tail(all))
            /\ Values(Tail(all)) = Values(all) \ {all[1]}
        BY <3>2, <1>3, <1>4, TailValues
      <3>4. Len(Tail(all)) <= Window
        BY <3>2, <3>3, Numbers
      <3>5. written \in Nat
        BY DEF PullTypeOK
      <3>6. ~(all[1] > written - Capacity)
        BY <3>2, <3>5, <1>3, <1>4, <1>5, HeadIsGone
      <3>7. all[1] \notin remote
        BY <3>6 DEF DeviceKeeps
      <3>8. all[1] # f
        <4>1. 1 \in DOMAIN all /\ Len(window) + 1 \in DOMAIN all /\ 1 < Len(window) + 1
          BY <3>2, <1>3, Numbers
        <4>2. all[Len(window) + 1] = f
          BY <1>2, AppendedValues DEF all
        <4> QED
          BY <4>1, <4>2, <1>4 DEF Spread
      <3> QED
        BY <3>1, <3>3, <3>4, <3>7, <3>8, <2>1, <1>3
    <2> QED
      BY <2>2, <2>3
  <1>7. PullTypeOK'
    BY <1>1, <1>6 DEF PullTypeOK
  <1>8. DeviceKeeps'
    BY <1>1, <1>6 DEF DeviceKeeps
  <1>9. Notes'
    BY <1>1, <1>6 DEF Notes, Spread
  <1>10. PulledOnce'
    BY <1>1 DEF PulledOnce
  <1>11. ASSUME NEW g \in remote' \cup todo'
         PROVE  Fresh(g)'
    <2>1. g \in File /\ (g \in remote \/ (g \in todo /\ g # f))
      BY <1>1 DEF PullTypeOK
    <2>2. CASE g = f
      BY <2>2, <1>6 DEF Fresh
    <2>3. CASE g # f /\ g \in Noted
      <3>1. g \in remote
        BY <2>1, <2>3 DEF Notes
      <3> QED
        BY <2>3, <3>1, <1>6 DEF Fresh
    <2>4. CASE g # f /\ g \notin Noted
      <3>1. ~First(g)
        BY <2>1, <2>4, <1>1, OneFirst
      <3>2. ingested[g] <= unnoted[g]
        BY <2>1, <2>4, <3>1 DEF Fresh
      <3> QED
        BY <3>2, <1>1 DEF Fresh
    <2> QED
      BY <2>2, <2>3, <2>4
  <1> QED
    BY <1>7, <1>8, <1>9, <1>10, <1>11

LEMMA CrashKeepsInv == PullInv /\ PullCrash => PullInv'
  <1> SUFFICES ASSUME PullInv, PullCrash
               PROVE  PullInv'
    OBVIOUS
  <1> USE DEF PullInv
  <1>1. /\ at' = "idle" /\ todo' = {}
        /\ unnoted' = [g \in File |-> IF AtFile("note", g) THEN unnoted[g] + 1 ELSE unnoted[g]]
        /\ UNCHANGED <<remote, written, window, ingested>>
    BY DEF PullCrash
  <1>2. Noted' = Noted
    BY <1>1 DEF Noted
  <1>3. \A g \in File : ingested[g] \in Nat /\ unnoted[g] \in Nat
    BY DEF PullTypeOK
  <1>4. /\ unnoted' \in [File -> Nat]
        /\ \A g \in File : unnoted[g] <= unnoted'[g] /\ unnoted'[g] \in Nat
        /\ \A g \in File : at = "note" /\ First(g) => unnoted'[g] = unnoted[g] + 1
    BY <1>1, <1>3 DEF AtFile, First
  <1>5. PullTypeOK'
    <2>1. faults' \in 0..MaxFaults
      BY FaultIsSmall DEF PullCrash
    <2> QED
      BY <2>1, <1>1, <1>4 DEF PullTypeOK
  <1>6. DeviceKeeps' /\ Notes'
    BY <1>1, <1>2 DEF DeviceKeeps, Notes, Spread
  <1>7. PulledOnce'
    BY <1>1, <1>3, <1>4 DEF PulledOnce
  <1>8. ASSUME NEW g \in remote
        PROVE  Fresh(g)'
    <2>1. g \in File
      BY DEF PullTypeOK
    <2>2. CASE g \in Noted
      BY <2>2, <1>2 DEF Fresh
    <2>3. CASE at = "note" /\ First(g)
      <3>1. ingested[g] <= 1 + unnoted[g] /\ unnoted'[g] = unnoted[g] + 1
        BY <2>1, <2>3, <1>4 DEF PulledOnce
      <3>2. ingested[g] <= unnoted'[g]
        BY <2>1, <3>1, <1>3
      <3> QED
        BY <3>2, <1>1 DEF Fresh
    <2>4. CASE ingested[g] <= unnoted[g]
      <3>1. ingested[g] <= unnoted'[g]
        BY <2>1, <2>4, <1>3, <1>4
      <3> QED
        BY <3>1, <1>1 DEF Fresh
    <2> QED
      BY <2>2, <2>3, <2>4 DEF Fresh
  <1> QED
    BY <1>1, <1>5, <1>6, <1>7, <1>8

LEMMA PullStepInv == PullInv /\ [PullNext]_pull_vars => PullInv'
  <1> SUFFICES ASSUME PullInv, [PullNext]_pull_vars
               PROVE  PullInv'
    OBVIOUS
  <1>1. ASSUME NEW f \in remote, Discard(f)
        PROVE  PullInv'
    BY <1>1, DiscardKeepsInv
  <1>2. ASSUME NEW f \in File, Read(f) \/ Ingest(f) \/ Note(f)
        PROVE  PullInv'
    BY <1>2, ReadKeepsInv, IngestKeepsInv, NoteKeepsInv
  <1>3. ASSUME NEW f \in File, ReadFails(f) \/ IngestFails(f) \/ NoteFails(f)
        PROVE  PullInv'
    BY <1>3, FailureKeepsInv
  <1>4. CASE UNCHANGED pull_vars
    <2>1. Noted' = Noted
      BY <1>4 DEF pull_vars, Noted
    <2>2. PullTypeOK'
      BY <1>4 DEF pull_vars, PullInv, PullTypeOK
    <2>3. DeviceKeeps' /\ PulledOnce'
      BY <1>4, <2>1 DEF pull_vars, PullInv, DeviceKeeps, PulledOnce
    <2>4. Notes'
      BY <1>4, <2>1 DEF pull_vars, PullInv, Notes, Spread, First
    <2>5. \A f \in remote' \cup todo' : Fresh(f)'
      BY <1>4, <2>1 DEF pull_vars, PullInv, Fresh, First
    <2> QED
      BY <2>2, <2>3, <2>4, <2>5 DEF PullInv
  <1> QED
    BY <1>1, <1>2, <1>3, <1>4, ProduceKeepsInv, BeginPassKeepsInv, EndPassKeepsInv, CrashKeepsInv
       DEF PullNext, Pull

LEMMA PullInvariant == PullSpec => []PullInv
  BY PullInitInv, PullStepInv, PTL DEF PullSpec

(* Every variable has its type, and the notes never outgrow the window.    *)
THEOREM PullTypeCorrect == PullSpec => []PullTypeOK
  <1>1. PullInv => PullTypeOK
    BY DEF PullInv
  <1> QED
    BY <1>1, PullInvariant, PTL

(* No file is stored twice unless the note of a pull was lost, whatever    *)
(* fails and however files come and go, as 2 * Capacity - 1 names outlast  *)
(* every file on the device.                                               *)
THEOREM PullOnce == PullSpec => []PulledOnce
  <1>1. PullInv => PulledOnce
    BY DEF PullInv
  <1> QED
    BY <1>1, PullInvariant, PTL

-----------------------------------------------------------------------------
(* The collector is at the file it has read, and the commit is behind it   *)
(* or has failed.                                                          *)
AtRead(n, v) == phase \in {"move", "setaside"} /\ content = v /\ path = n

\* What is on the disk, or has been read, was written before.
Known ==
  /\ \A n \in Name : directory[n] # None => directory[n] <= writes
  /\ content # None => content <= writes

\* A version has one name at a time.
Apart == \A m, n \in Name : directory[m] = directory[n] /\ directory[m] # None => m = n

\* What the collector has read, and whether it is stored, follows its phase.
InPhase ==
  /\ phase \in {"idle", "next"} => content = None
  /\ phase = "move" => stored[content] > 0

(* A version that can still be committed was stored no more often than the *)
(* collector was kept from moving it aside.                                *)
Once ==
  \A v \in Version :
    /\ stored[v] <= 1 + left[v]
    /\ v > writes => stored[v] = 0
    /\ phase = "commit" /\ content = v => stored[v] <= left[v]
    /\ \A n \in Name : directory[n] = v =>
         /\ AtRead(n, v) \/ stored[v] <= left[v]
         /\ phase = "commit" /\ content = v /\ n # path => stored[v] < left[v]

WatchInv == WatchTypeOK /\ Known /\ Apart /\ InPhase /\ Once /\ Accounted

-----------------------------------------------------------------------------
\* The types, in the form the steps below use them.
LEMMA Types ==
  ASSUME WatchTypeOK
  PROVE  /\ directory \in Folder /\ processed \in Folder /\ failed \in Folder
         /\ writes \in Nat /\ writes <= MaxVersions /\ MaxVersions \in Nat
         /\ stored \in [Version -> Nat] /\ left \in [Version -> Nat]
         /\ \A v \in Version : v \in Nat /\ v # None
  BY WatchAssumption DEF WatchTypeOK, Version

\* A version the collector has read is one the job has written.
LEMMA ContentIsVersion ==
  ASSUME WatchTypeOK, content # None
  PROVE  content \in Version
  BY DEF WatchTypeOK

LEMMA AgainCounts ==
  ASSUME WatchTypeOK, NEW n, Again(n)
  PROVE  /\ left' \in [Version -> Nat]
         /\ \A v \in Version : left[v] <= left'[v]
         /\ content # None /\ directory[n] = content => left'[content] = left[content] + 1
  <1>1. left \in [Version -> Nat]
    BY DEF WatchTypeOK
  <1>2. CASE content # None /\ directory[n] = content
    <2>1. left' = [left EXCEPT ![content] = left[content] + 1] /\ content \in Version
      BY <1>2, ContentIsVersion DEF Again
    <2>2. left[content] \in Nat
      BY <1>1, <2>1
    <2> QED
      BY <1>1, <2>1, <2>2
  <1>3. CASE ~(content # None /\ directory[n] = content)
    BY <1>1, <1>3 DEF Again
  <1> QED
    BY <1>2, <1>3

LEMMA MishapIsSmall ==
  ASSUME WatchTypeOK, Mishap \/ UNCHANGED mishaps
  PROVE  mishaps' \in 0..MaxMishaps
  BY WatchAssumption DEF WatchTypeOK, Mishap

LEMMA WatchInitInv == WatchInit => WatchInv
  <1> SUFFICES ASSUME WatchInit
               PROVE  WatchInv
    OBVIOUS
  <1>1. \A v \in Version : v # None /\ v \in Nat
    BY WatchAssumption DEF Version
  <1> QED
    BY <1>1, WatchAssumption DEF WatchInit, WatchInv, WatchTypeOK, Known, Apart, InPhase, Once,
       Accounted, Folder, AtRead, Version

-----------------------------------------------------------------------------
(* The transfer job.                                                       *)
LEMMA TransferKeepsInv ==
  ASSUME WatchInv, NEW n \in Name, Transfer(n)
  PROVE  WatchInv'
  <1> USE DEF WatchInv
  <1> DEFINE w == writes + 1
  <1>1. /\ writes < MaxVersions /\ writes' = w
        /\ directory' = [directory EXCEPT ![n] = w]
        /\ replaced' = replaced \cup ({directory[n]} \ {None})
        /\ UNCHANGED <<processed, failed, stored, phase, queue, path, content, mishaps, torn, left>>
    BY DEF Transfer, collector
  <1>2. w \in Version /\ w > writes /\ w # None
    BY <1>1, Types, WatchAssumption DEF Version
  <1>3. w \in Nat /\ writes \in Nat
    BY Types
  <1> HIDE DEF w
  <1>4. /\ directory' \in Folder /\ directory'[n] = w
        /\ \A m \in Name : m # n => directory'[m] = directory[m]
    BY <1>1, <1>2, Types DEF Folder
  <1>5. WatchTypeOK'
    <2>1. replaced' \subseteq Version
      BY <1>1, Types DEF WatchTypeOK, Folder
    <2>2. writes' \in 0..MaxVersions
      BY <1>1, <1>2, <1>3 DEF Version
    <2> QED
      BY <1>1, <1>4, <2>1, <2>2 DEF WatchTypeOK
  <1>6. \A m \in Name : directory[m] # w
    BY <1>2, <1>3 DEF Known
  <1>7. content # w
    BY <1>2, <1>3 DEF Known
  <1>8. Known'
    <2>1. \A m \in Name : directory[m] # None => directory[m] \in Nat
      BY Types DEF Folder
    <2>2. content # None => content \in Nat
      BY ContentIsVersion, Types
    <2> QED
      BY <1>1, <1>2, <1>3, <1>4, <2>1, <2>2 DEF Known
  <1>9. Apart'
    BY <1>4, <1>6 DEF Apart
  <1>10. InPhase'
    BY <1>1 DEF InPhase
  <1>11. Once'
    <2> SUFFICES ASSUME NEW v \in Version
                 PROVE  /\ stored[v] <= 1 + left[v]
                        /\ v > w => stored[v] = 0
                        /\ phase = "commit" /\ content = v => stored[v] <= left[v]
                        /\ \A m \in Name : directory'[m] = v =>
                             /\ AtRead(m, v) \/ stored[v] <= left[v]
                             /\ phase = "commit" /\ content = v /\ m # path => stored[v] < left[v]
      BY <1>1 DEF Once, AtRead
    <2>1. v \in Nat /\ stored[v] \in Nat /\ left[v] \in Nat
      BY Types
    <2>2. v > w => stored[v] = 0
      BY <2>1, <1>2, <1>3 DEF Once
    <2>3. v = w => stored[v] = 0
      BY <1>2 DEF Once
    <2> QED
      BY <2>1, <2>2, <2>3, <1>4, <1>7 DEF Once
  <1>12. Accounted'
    <2> SUFFICES ASSUME NEW v \in 1..w
                 PROVE  \/ Holds(directory', v) \/ Holds(failed, v) \/ stored[v] > 0
                        \/ v \in replaced' \cup torn
      BY <1>1 DEF Accounted, Holds
    <2>1. CASE v = w
      BY <2>1, <1>4 DEF Holds
    <2>2. CASE v \in 1..writes
      <3>1. Holds(directory, v) => Holds(directory', v) \/ v \in replaced'
        <4>1. v # None
          BY <2>2, Types DEF Version
        <4> QED
          BY <4>1, <1>1, <1>4 DEF Holds
      <3> QED
        BY <2>2, <3>1, <1>1 DEF Accounted
    <2> QED
      BY <2>1, <2>2, <1>3 DEF w
  <1> QED
    BY <1>5, <1>8, <1>9, <1>10, <1>11, <1>12

LEMMA RenameKeepsInv ==
  ASSUME WatchInv, NEW m \in Temporary, NEW n \in Name \ Temporary, Rename(m, n)
  PROVE  WatchInv'
  <1> USE DEF WatchInv
  <1>1. /\ directory[m] # None
        /\ directory' = [directory EXCEPT ![n] = directory[m], ![m] = None]
        /\ replaced' = replaced \cup ({directory[n]} \ {None})
        /\ Again(m)
        /\ UNCHANGED <<processed, failed, writes, stored, phase, queue, path, content, mishaps, torn>>
    BY DEF Rename, collector
  <1>2. m \in Name /\ n \in Name /\ m # n
    BY WatchAssumption
  <1>3. /\ directory' \in Folder /\ directory'[n] = directory[m] /\ directory'[m] = None
        /\ \A k \in Name : k # m /\ k # n => directory'[k] = directory[k]
    BY <1>1, <1>2, Types DEF Folder
  <1>4. /\ left' \in [Version -> Nat]
        /\ \A v \in Version : left[v] <= left'[v]
        /\ content # None /\ directory[m] = content => left'[content] = left[content] + 1
    BY <1>1, AgainCounts
  <1>5. WatchTypeOK'
    <2>1. replaced' \subseteq Version
      BY <1>1, <1>2, Types DEF WatchTypeOK, Folder
    <2> QED
      BY <1>1, <1>3, <1>4, <2>1 DEF WatchTypeOK
  <1>6. Known'
    BY <1>1, <1>2, <1>3 DEF Known
  <1>7. Apart'
    <2> SUFFICES ASSUME NEW k \in Name, NEW l \in Name, directory'[k] = directory'[l], directory'[k] # None
                 PROVE  k = l
      BY DEF Apart
    <2>1. k # m /\ l # m
      BY <1>3
    <2>2. CASE k = n /\ l # n
      BY <2>1, <2>2, <1>1, <1>2, <1>3 DEF Apart
    <2>3. CASE k # n /\ l = n
      BY <2>1, <2>3, <1>1, <1>2, <1>3 DEF Apart
    <2>4. CASE k # n /\ l # n
      BY <2>1, <2>4, <1>3 DEF Apart
    <2> QED
      BY <2>2, <2>3, <2>4
  <1>8. InPhase'
    BY <1>1 DEF InPhase
  <1>9. Once'
    <2> SUFFICES ASSUME NEW v \in Version
                 PROVE  /\ stored[v] <= 1 + left'[v]
                        /\ v > writes => stored[v] = 0
                        /\ phase = "commit" /\ content = v => stored[v] <= left'[v]
                        /\ \A k \in Name : directory'[k] = v =>
                             /\ AtRead(k, v) \/ stored[v] <= left'[v]
                             /\ phase = "commit" /\ content = v /\ k # path => stored[v] < left'[v]
      BY <1>1 DEF Once, AtRead
    <2>1. v \in Nat /\ stored[v] \in Nat /\ left[v] \in Nat /\ left'[v] \in Nat /\ v # None
      BY <1>4, Types
    <2>2. left[v] <= left'[v]
      BY <1>4
    <2>3. /\ stored[v] <= 1 + left[v]
          /\ v > writes => stored[v] = 0
          /\ phase = "commit" /\ content = v => stored[v] <= left[v]
      BY DEF Once
    <2>4. ASSUME NEW k \in Name, directory'[k] = v
          PROVE  /\ AtRead(k, v) \/ stored[v] <= left'[v]
                 /\ phase = "commit" /\ content = v /\ k # path => stored[v] < left'[v]
      <3>1. CASE k # n
        <4>1. directory[k] = v
          BY <3>1, <2>4, <2>1, <1>2, <1>3
        <4>2. /\ AtRead(k, v) \/ stored[v] <= left[v]
              /\ phase = "commit" /\ content = v /\ k # path => stored[v] < left[v]
          BY <4>1 DEF Once
        <4> QED
          BY <4>2, <2>1, <2>2
      <3>2. CASE k = n /\ content = v
        <4>1. left'[v] = left[v] + 1
          BY <3>2, <2>1, <2>4, <1>3, <1>4
        <4>2. stored[v] <= left'[v]
          BY <4>1, <2>1, <2>3
        <4>3. phase = "commit" => stored[v] < left'[v]
          BY <4>1, <2>1, <2>3, <3>2
        <4> QED
          BY <4>2, <4>3
      <3>3. CASE k = n /\ content # v
        <4>1. directory[m] = v
          BY <3>3, <2>4, <1>3
        <4>2. stored[v] <= left[v]
          BY <3>3, <4>1, <1>2 DEF Once, AtRead
        <4> QED
          BY <3>3, <4>2, <2>1, <2>2
      <3> QED
        BY <3>1, <3>2, <3>3
    <2> QED
      BY <2>1, <2>2, <2>3, <2>4
  <1>10. Accounted'
    <2> SUFFICES ASSUME NEW v \in 1..writes
                 PROVE  \/ Holds(directory', v) \/ Holds(failed, v) \/ stored[v] > 0
                        \/ v \in replaced' \cup torn
      BY <1>1 DEF Accounted, Holds
    <2>1. v # None
      BY Types DEF Version
    <2>2. Holds(directory, v) => Holds(directory', v) \/ v \in replaced'
      <3>1. ASSUME NEW k \in Name, directory[k] = v
            PROVE  Holds(directory', v) \/ v \in replaced'
        <4>1. CASE k = m
          BY <3>1, <4>1, <1>2, <1>3 DEF Holds
        <4>2. CASE k = n
          BY <3>1, <4>2, <1>1, <2>1
        <4>3. CASE k # m /\ k # n
          BY <3>1, <4>3, <1>3 DEF Holds
        <4> QED
          BY <4>1, <4>2, <4>3
      <3> QED
        BY <3>1 DEF Holds
    <2> QED
      BY <2>2, <1>1 DEF Accounted
  <1> QED
    BY <1>5, <1>6, <1>7, <1>8, <1>9, <1>10

-----------------------------------------------------------------------------
(* The collector.  Most of its steps leave the disk and the counts alone.  *)
LEMMA BeginKeepsInv == WatchInv /\ BeginWatch => WatchInv'
  <1> SUFFICES ASSUME WatchInv, BeginWatch
               PROVE  WatchInv'
    OBVIOUS
  <1>1. content = None
    BY DEF WatchInv, InPhase, BeginWatch
  <1> QED
    BY <1>1 DEF WatchInv, BeginWatch, WatchTypeOK, Known, Apart, InPhase, Once, Accounted, AtRead, Holds,
       folders, past

LEMMA EndKeepsInv == WatchInv /\ EndWatch => WatchInv'
  <1> SUFFICES ASSUME WatchInv, EndWatch
               PROVE  WatchInv'
    OBVIOUS
  <1>1. content = None
    BY DEF WatchInv, InPhase, EndWatch
  <1> QED
    BY <1>1 DEF WatchInv, EndWatch, WatchTypeOK, Known, Apart, InPhase, Once, Accounted, AtRead, Holds,
       folders, past

LEMMA WatchReadKeepsInv ==
  ASSUME WatchInv, NEW n \in Name, ReadText(n)
  PROVE  WatchInv'
  <1> USE DEF WatchInv
  <1>1. /\ phase = "next" /\ content = None /\ path' = n /\ queue' = queue \ {n}
        /\ UNCHANGED <<directory, processed, failed, writes, stored, replaced, torn, left>>
    BY DEF ReadText, InPhase, folders, past
  <1>2. n # None
    BY WatchAssumption
  <1>3. \A v \in Version : v \in Nat /\ v # None /\ stored[v] \in Nat /\ left[v] \in Nat
    BY Types
  <1>4. CASE directory[n] # None /\ phase' = "commit" /\ content' = directory[n] /\ UNCHANGED mishaps
    <2>1. WatchTypeOK'
      <3>1. content' \in Version
        BY <1>4, Types DEF Folder
      <3> QED
        BY <1>1, <1>2, <1>4, <3>1 DEF WatchTypeOK
    <2>2. Known' /\ Apart' /\ InPhase' /\ Accounted'
      BY <1>1, <1>4 DEF Known, Apart, InPhase, Accounted, Holds
    <2>3. \A v \in Version, m \in Name : directory[m] = v => stored[v] <= left[v]
      BY <1>1 DEF Once, AtRead
    <2>4. \A m \in Name : directory[m] = directory[n] => m = n
      BY <1>4 DEF Apart
    <2>5. Once'
      BY <1>1, <1>4, <2>3, <2>4 DEF Once, AtRead
    <2> QED
      BY <2>1, <2>2, <2>5
  <1>5. CASE /\ IF directory[n] = None THEN UNCHANGED mishaps ELSE Mishap
             /\ phase' = "setaside"
             /\ UNCHANGED content
    <2>1. mishaps' \in 0..MaxMishaps
      BY <1>5, MishapIsSmall
    <2>2. WatchTypeOK'
      BY <1>1, <1>2, <1>5, <2>1 DEF WatchTypeOK
    <2>3. Known' /\ Apart' /\ InPhase' /\ Accounted'
      BY <1>1, <1>5 DEF Known, Apart, InPhase, Accounted, Holds
    <2>4. Once'
      BY <1>1, <1>3, <1>5 DEF Once, AtRead
    <2> QED
      BY <2>2, <2>3, <2>4
  <1> QED
    BY <1>4, <1>5 DEF ReadText

LEMMA CommitKeepsInv == WatchInv /\ Commit => WatchInv'
  <1> SUFFICES ASSUME WatchInv, Commit
               PROVE  WatchInv'
    OBVIOUS
  <1> USE DEF WatchInv
  <1>1. /\ phase = "commit" /\ phase' = "move"
        /\ stored' = [stored EXCEPT ![content] = @ + 1]
        /\ UNCHANGED <<directory, processed, failed, writes, queue, path, content, mishaps,
                       replaced, torn, left>>
    BY DEF Commit, folders, past
  <1>2. content # None /\ content \in Version /\ path # None
    BY <1>1, ContentIsVersion DEF WatchTypeOK
  <1>3. \A v \in Version : v \in Nat /\ stored[v] \in Nat /\ left[v] \in Nat
    BY Types
  <1>4. /\ stored' \in [Version -> Nat]
        /\ stored'[content] = stored[content] + 1
        /\ \A v \in Version : v # content => stored'[v] = stored[v]
        /\ \A v \in Version : stored[v] <= stored'[v]
    <2>1. stored \in [Version -> Nat]
      BY Types
    <2> QED
      BY <1>1, <1>2, <1>3, <2>1
  <1>5. WatchTypeOK'
    BY <1>1, <1>2, <1>4 DEF WatchTypeOK
  <1>6. Known' /\ Apart'
    BY <1>1 DEF Known, Apart
  <1>7. InPhase'
    <2>1. stored[content] + 1 > 0
      BY <1>2, <1>3
    <2> QED
      BY <1>1, <1>4, <2>1 DEF InPhase
  <1>8. Once'
    <2> SUFFICES ASSUME NEW v \in Version
                 PROVE  /\ stored'[v] <= 1 + left[v]
                        /\ v > writes => stored'[v] = 0
                        /\ \A n \in Name : directory[n] = v => AtRead(n, v)' \/ stored'[v] <= left[v]
      BY <1>1 DEF Once
    <2>1. CASE v # content
      <3>1. \A n \in Name : ~AtRead(n, v)
        BY <1>1 DEF AtRead
      <3> QED
        BY <2>1, <3>1, <1>4 DEF Once
    <2>2. CASE v = content
      <3>1. stored[v] <= left[v] /\ stored'[v] = stored[v] + 1
        BY <2>2, <1>1, <1>4 DEF Once
      <3>2. stored'[v] <= 1 + left[v]
        BY <3>1, <1>3
      <3>3. ~(v > writes)
        <4>1. v <= writes /\ v \in Nat /\ writes \in Nat
          BY <2>2, <1>2, <1>3, Types DEF Known
        <4> QED
          BY <4>1
      <3>4. ASSUME NEW n \in Name, directory[n] = v
            PROVE  AtRead(n, v)' \/ stored'[v] <= left[v]
        <4>1. CASE n = path
          BY <2>2, <4>1, <1>1 DEF AtRead
        <4>2. CASE n # path
          <5>1. stored[v] < left[v]
            BY <2>2, <3>4, <4>2, <1>1 DEF Once
          <5> QED
            BY <3>1, <5>1, <1>3
        <4> QED
          BY <4>1, <4>2
      <3> QED
        BY <3>2, <3>3, <3>4
    <2> QED
      BY <2>1, <2>2
  <1>9. Accounted'
    <2>1. \A v \in 1..writes : v \in Version
      BY Types DEF Version
    <2>2. \A v \in Version : stored[v] > 0 => stored'[v] > 0
      BY <1>3, <1>4 DEF WatchTypeOK
    <2> QED
      BY <2>1, <2>2, <1>1 DEF Accounted, Holds
  <1> QED
    BY <1>5, <1>6, <1>7, <1>8, <1>9

LEMMA CommitFailsKeepsInv == WatchInv /\ CommitFails => WatchInv'
  <1> SUFFICES ASSUME WatchInv, CommitFails
               PROVE  WatchInv'
    OBVIOUS
  <1> USE DEF WatchInv
  <1>1. /\ phase = "commit" /\ phase' = "setaside" /\ content' = None
        /\ UNCHANGED <<directory, processed, failed, writes, stored, queue, path, replaced, torn, left>>
    BY DEF CommitFails, folders, past
  <1>2. mishaps' \in 0..MaxMishaps
    BY MishapIsSmall DEF CommitFails
  <1>3. WatchTypeOK'
    BY <1>1, <1>2 DEF WatchTypeOK
  <1>4. Known' /\ Apart' /\ InPhase' /\ Accounted'
    BY <1>1 DEF Known, Apart, InPhase, Accounted, Holds
  <1>5. Once'
    BY <1>1 DEF Once, AtRead
  <1> QED
    BY <1>3, <1>4, <1>5

LEMMA MoveFailsKeepsInv == WatchInv /\ MoveFails => WatchInv'
  <1> SUFFICES ASSUME WatchInv, MoveFails
               PROVE  WatchInv'
    OBVIOUS
  <1> USE DEF WatchInv
  <1>1. /\ phase = "move" /\ phase' = "setaside"
        /\ UNCHANGED <<directory, processed, failed, writes, stored, queue, path, content, replaced,
                       torn, left>>
    BY DEF MoveFails, folders, past
  <1>2. mishaps' \in 0..MaxMishaps
    BY MishapIsSmall DEF MoveFails
  <1>3. WatchTypeOK'
    BY <1>1, <1>2 DEF WatchTypeOK
  <1>4. Known' /\ Apart' /\ InPhase' /\ Accounted'
    BY <1>1 DEF Known, Apart, InPhase, Accounted, Holds
  <1>5. Once'
    BY <1>1 DEF Once, AtRead
  <1> QED
    BY <1>3, <1>4, <1>5

\* What both ways of moving a file have in common.
LEMMA AwayFromDirectory ==
  ASSUME WatchInv, phase \in {"move", "setaside"}, Leave,
         directory' = [directory EXCEPT ![path] = None],
         UNCHANGED <<writes, stored, left>>
  PROVE  /\ directory' \in Folder /\ path \in Name
         /\ \A v \in Version : Holds(directory, v) => Holds(directory', v) \/ v = directory[path]
         /\ Known' /\ Apart' /\ InPhase' /\ Once'
  <1> USE DEF WatchInv
  <1>1. path \in Name
    BY DEF WatchTypeOK
  <1>2. phase' = "next" /\ path' = None /\ content' = None
    BY DEF Leave
  <1>3. /\ directory' \in Folder /\ directory'[path] = None
        /\ \A n \in Name : n # path => directory'[n] = directory[n]
    BY <1>1, Types DEF Folder
  <1>4. \A v \in Version : Holds(directory, v) => Holds(directory', v) \/ v = directory[path]
    BY <1>3 DEF Holds
  <1>5. Known'
    BY <1>2, <1>3 DEF Known
  <1>6. Apart'
    BY <1>3 DEF Apart
  <1>7. InPhase'
    BY <1>2 DEF InPhase
  <1>8. Once'
    <2>1. \A v \in Version : v # None /\ ~(content' = v)
      BY <1>2, Types
    <2>2. \A v \in Version, n \in Name : directory'[n] = v => n # path /\ directory[n] = v
      BY <2>1, <1>3
    <2>3. \A v \in Version, n \in Name : directory'[n] = v => stored[v] <= left[v]
      BY <2>2 DEF Once, AtRead
    <2> QED
      BY <2>1, <2>3 DEF Once
  <1> QED
    BY <1>1, <1>3, <1>4, <1>5, <1>6, <1>7, <1>8

LEMMA MoveKeepsInv == WatchInv /\ Move => WatchInv'
  <1> SUFFICES ASSUME WatchInv, Move
               PROVE  WatchInv'
    OBVIOUS
  <1> USE DEF WatchInv
  <1>1. /\ phase = "move" /\ Leave /\ directory[path] # None
        /\ processed' = [processed EXCEPT ![path] = directory[path]]
        /\ directory' = [directory EXCEPT ![path] = None]
        /\ torn' = IF directory[path] = content THEN torn ELSE torn \cup {directory[path]}
        /\ UNCHANGED <<failed, writes, stored, queue, mishaps, replaced, left>>
    BY DEF Move
  <1>2. /\ directory' \in Folder /\ path \in Name
        /\ \A v \in Version : Holds(directory, v) => Holds(directory', v) \/ v = directory[path]
        /\ Known' /\ Apart' /\ InPhase' /\ Once'
    BY <1>1, AwayFromDirectory
  <1>3. directory[path] \in Version
    BY <1>1, <1>2, Types DEF Folder
  <1>4. WatchTypeOK'
    <2>1. processed' \in Folder
      BY <1>1, <1>2, <1>3, Types DEF Folder
    <2>2. torn' \subseteq Version
      BY <1>1, <1>3 DEF WatchTypeOK
    <2> QED
      BY <1>1, <1>2, <2>1, <2>2 DEF WatchTypeOK, Leave
  <1>5. Accounted'
    <2>1. stored[content] > 0
      BY <1>1 DEF InPhase
    <2>2. directory[path] \in torn' \/ stored[directory[path]] > 0
      BY <1>1, <2>1
    <2>3. \A v \in 1..writes : v \in Version
      BY Types DEF Version
    <2> QED
      BY <2>2, <2>3, <1>1, <1>2 DEF Accounted, Holds
  <1> QED
    BY <1>2, <1>4, <1>5

LEMMA SetAsideKeepsInv == WatchInv /\ SetAside => WatchInv'
  <1> SUFFICES ASSUME WatchInv, SetAside
               PROVE  WatchInv'
    OBVIOUS
  <1> USE DEF WatchInv
  <1>1. /\ phase = "setaside" /\ Leave /\ directory[path] # None
        /\ failed' = [failed EXCEPT ![path] = directory[path]]
        /\ directory' = [directory EXCEPT ![path] = None]
        /\ replaced' = replaced \cup ({failed[path]} \ {None})
        /\ UNCHANGED <<processed, writes, stored, queue, mishaps, torn, left>>
    BY DEF SetAside
  <1>2. /\ directory' \in Folder /\ path \in Name
        /\ \A v \in Version : Holds(directory, v) => Holds(directory', v) \/ v = directory[path]
        /\ Known' /\ Apart' /\ InPhase' /\ Once'
    BY <1>1, AwayFromDirectory
  <1>3. /\ failed' \in Folder /\ failed'[path] = directory[path]
        /\ \A n \in Name : n # path => failed'[n] = failed[n]
    BY <1>1, <1>2, Types DEF Folder
  <1>4. WatchTypeOK'
    <2>1. replaced' \subseteq Version
      BY <1>1, <1>2, Types DEF WatchTypeOK, Folder
    <2> QED
      BY <1>1, <1>2, <1>3, <2>1 DEF WatchTypeOK, Leave
  <1>5. Accounted'
    <2>1. \A v \in 1..writes : v \in Version /\ v # None
      BY Types DEF Version
    <2>2. Holds(failed', directory[path])
      BY <1>2, <1>3 DEF Holds
    <2>3. \A v \in Version : v # None /\ Holds(failed, v) => Holds(failed', v) \/ v \in replaced'
      BY <1>1, <1>3 DEF Holds
    <2> QED
      BY <2>1, <2>2, <2>3, <1>1, <1>2 DEF Accounted, Holds
  <1> QED
    BY <1>2, <1>4, <1>5

\* The collector gives a file up that is where it was.
LEMMA GivenUp ==
  ASSUME WatchInv, Again(path) \/ (phase = "commit" /\ UNCHANGED left),
         phase' \in {"idle", "next"}, content' = None, path' = None, queue' \subseteq queue,
         mishaps' \in 0..MaxMishaps, UNCHANGED <<folders, writes, stored, replaced, torn>>
  PROVE  WatchInv'
  <1> USE DEF WatchInv, folders
  <1>1. \A v \in Version : v # None /\ stored[v] \in Nat /\ left[v] \in Nat
    BY Types
  <1>2. /\ left' \in [Version -> Nat]
        /\ \A v \in Version : left[v] <= left'[v]
        /\ phase # "commit" /\ content # None /\ directory[path] = content
             => left'[content] = left[content] + 1
    <2>1. CASE Again(path)
      BY <2>1, AgainCounts
    <2>2. CASE phase = "commit" /\ UNCHANGED left
      BY <2>2, <1>1, Types
    <2> QED
      BY <2>1, <2>2
  <1>3. WatchTypeOK'
    BY <1>2 DEF WatchTypeOK
  <1>4. Known' /\ Apart' /\ InPhase' /\ Accounted'
    BY DEF Known, Apart, InPhase, Accounted, Holds
  <1>5. Once'
    <2> SUFFICES ASSUME NEW v \in Version
                 PROVE  /\ stored[v] <= 1 + left'[v]
                        /\ v > writes => stored[v] = 0
                        /\ \A n \in Name : directory[n] = v => stored[v] <= left'[v]
      BY <1>1 DEF Once
    <2>1. stored[v] \in Nat /\ left[v] \in Nat /\ left'[v] \in Nat /\ left[v] <= left'[v] /\ v # None
      BY <1>1, <1>2
    <2>2. stored[v] <= 1 + left[v] /\ (v > writes => stored[v] = 0)
      BY DEF Once
    <2>3. ASSUME NEW n \in Name, directory[n] = v
          PROVE  stored[v] <= left'[v]
      <3>1. CASE AtRead(n, v)
        <4>1. left'[v] = left[v] + 1
          BY <2>1, <2>3, <3>1, <1>2 DEF AtRead
        <4> QED
          BY <4>1, <2>1, <2>2
      <3>2. CASE ~AtRead(n, v)
        <4>1. stored[v] <= left[v]
          BY <2>3, <3>2 DEF Once
        <4> QED
          BY <4>1, <2>1
      <3> QED
        BY <3>1, <3>2
    <2>4. stored[v] <= 1 + left'[v]
      BY <2>1, <2>2
    <2> QED
      BY <2>2, <2>3, <2>4
  <1> QED
    BY <1>3, <1>4, <1>5

LEMMA SetAsideFailsKeepsInv == WatchInv /\ SetAsideFails => WatchInv'
  <1> SUFFICES ASSUME WatchInv, SetAsideFails
               PROVE  WatchInv'
    OBVIOUS
  <1>1. mishaps' \in 0..MaxMishaps
    BY MishapIsSmall DEF SetAsideFails, WatchInv
  <1> QED
    BY <1>1, GivenUp DEF SetAsideFails, Leave

LEMMA WatchCrashKeepsInv == WatchInv /\ WatchCrash => WatchInv'
  <1> SUFFICES ASSUME WatchInv, WatchCrash
               PROVE  WatchInv'
    OBVIOUS
  <1>1. mishaps' \in 0..MaxMishaps
    BY MishapIsSmall DEF WatchCrash, WatchInv
  <1> QED
    BY <1>1, GivenUp DEF WatchCrash

LEMMA WatchStepInv == WatchInv /\ [WatchNext]_watch_vars => WatchInv'
  <1> SUFFICES ASSUME WatchInv, [WatchNext]_watch_vars
               PROVE  WatchInv'
    OBVIOUS
  <1>1. ASSUME NEW n \in Name, Transfer(n)
        PROVE  WatchInv'
    BY <1>1, TransferKeepsInv
  <1>2. ASSUME NEW m \in Temporary, NEW n \in Name \ Temporary, Rename(m, n)
        PROVE  WatchInv'
    BY <1>2, RenameKeepsInv
  <1>3. CASE Watch
    <2>1. ASSUME NEW n \in Name, ReadText(n)
          PROVE  WatchInv'
      BY <2>1, WatchReadKeepsInv
    <2> QED
      BY <1>3, <2>1, BeginKeepsInv, EndKeepsInv, CommitKeepsInv, CommitFailsKeepsInv, MoveKeepsInv,
         MoveFailsKeepsInv, SetAsideKeepsInv, SetAsideFailsKeepsInv DEF Watch
  <1>4. CASE WatchCrash
    BY <1>4, WatchCrashKeepsInv
  <1>5. CASE UNCHANGED watch_vars
    BY <1>5 DEF watch_vars, folders, collector, past, WatchInv, WatchTypeOK, Known, Apart, InPhase, Once,
       Accounted, AtRead, Holds
  <1> QED
    BY <1>1, <1>2, <1>3, <1>4, <1>5 DEF WatchNext

LEMMA WatchInvariant == WatchSpec => []WatchInv
  BY WatchInitInv, WatchStepInv, PTL DEF WatchSpec

(* Every variable has its type, and past the read there is a content.      *)
THEOREM WatchTypeCorrect == WatchSpec => []WatchTypeOK
  <1>1. WatchInv => WatchTypeOK
    BY DEF WatchInv
  <1> QED
    BY <1>1, WatchInvariant, PTL

(* No write of the transfer job is lost: it waits, is in failed/, or is    *)
(* stored, unless it was written over or came between read and move.       *)
THEOREM WatchAccounted == WatchSpec => []Accounted
  <1>1. WatchInv => Accounted
    BY DEF WatchInv
  <1> QED
    BY <1>1, WatchInvariant, PTL

(* No version is stored twice, unless it could not be moved out of the way *)
(* after the commit.                                                       *)
THEOREM WatchOnce == WatchSpec => []WatchedOnce
  <1>1. WatchInv => WatchedOnce
    BY DEF WatchInv, Once, WatchedOnce
  <1> QED
    BY <1>1, WatchInvariant, PTL

(* No write of the job is lost, and none is stored again, but as said.     *)
THEOREM WatchAccountedOnce == WatchSpec => []AccountedOnce
  <1>1. Accounted /\ WatchedOnce => AccountedOnce
    BY DEF AccountedOnce
  <1> QED
    BY <1>1, WatchAccounted, WatchOnce, PTL

-----------------------------------------------------------------------------
(* MonitoringPolicies: a loop waits for one run at a time, so when that    *)
(* run is over no other one finds its loop free.                           *)
LoopsWaitForOne ==
  \A x, y \in Run :
    x # y /\ run[x] # Free /\ run[y] # Free /\ run[x].waits /\ run[y].waits
      => run[x].by # run[y].by

PolicyInv == PolicyTypeOK /\ LoopsWaitForOne

LEMMA PolicyInitInv == PolicyInit => PolicyInv
BY MonitoringAssumption
   DEF PolicyInit, PolicyInv, PolicyTypeOK, LoopsWaitForOne, MonitoringAssumption, Free

\* The parts of PolicyInv a step on the runs has to keep.
RunsOK ==
  /\ run \in [Run -> InFlight \cup {Free}]
  /\ \A x \in Run : run[x] # Free /\ run[x].waits => run[x].by \in busy
  /\ LoopsWaitForOne

LEMMA FreeIsNoFlight == Free \notin InFlight
BY DEF Free, InFlight

LEMMA BeginKeepsRuns ==
  ASSUME PolicyInv, NEW x \in Run, NEW p \in Process, NEW waits \in BOOLEAN,
         run[x] = Free, Begin(x, p, waits),
         p \notin busy \/ ~waits,
         busy' = IF waits THEN busy \cup {p} ELSE busy
  PROVE  RunsOK'
<1>1. [at |-> "load", by |-> p, waits |-> waits, age |-> 0] \in InFlight
  BY MonitoringAssumption DEF InFlight, MonitoringAssumption
<1> DEFINE new == [at |-> "load", by |-> p, waits |-> waits, age |-> 0]
<1>2. /\ run' = [run EXCEPT ![x] = new]
      /\ new \in InFlight /\ new # Free /\ new.waits = waits /\ new.by = p
  BY <1>1, FreeIsNoFlight DEF Begin
<1> HIDE DEF new
<1>3. run' \in [Run -> InFlight \cup {Free}]
  BY <1>2 DEF PolicyInv, PolicyTypeOK
<1>4. \A y \in Run : run'[y] = IF y = x THEN new ELSE run[y]
  BY <1>2 DEF PolicyInv, PolicyTypeOK
<1>5. \A y \in Run : run[y] # Free /\ run[y].waits => run[y].by \in busy
  BY DEF PolicyInv, PolicyTypeOK
<1>6. \A y \in Run : run'[y] # Free /\ run'[y].waits => run'[y].by \in busy'
  BY <1>2, <1>4, <1>5
<1>7. LoopsWaitForOne'
  BY <1>2, <1>4, <1>5 DEF PolicyInv, LoopsWaitForOne
<1> QED
  BY <1>3, <1>6, <1>7 DEF RunsOK

LEMMA FinishKeepsRuns ==
  ASSUME PolicyInv, NEW x \in Run, run[x] # Free, Finish(x)
  PROVE  RunsOK'
<1>1. /\ run' \in [Run -> InFlight \cup {Free}]
      /\ \A y \in Run : run'[y] = IF y = x THEN Free ELSE run[y]
  BY DEF Finish, PolicyInv, PolicyTypeOK
<1>2. busy' = IF run[x].waits THEN busy \ {run[x].by} ELSE busy
  BY DEF Finish
<1>3. \A y \in Run : run[y] # Free /\ run[y].waits => run[y].by \in busy
  BY DEF PolicyInv, PolicyTypeOK
<1>4. LoopsWaitForOne
  BY DEF PolicyInv
<1>5. \A y \in Run : run'[y] # Free /\ run'[y].waits => run'[y].by \in busy'
  BY <1>1, <1>2, <1>3, <1>4 DEF LoopsWaitForOne
<1> QED
  BY <1>1, <1>4, <1>5 DEF RunsOK, LoopsWaitForOne

\* A run goes on to another step, or grows older, or is on its own now.
LEMMA RunsGoOn ==
  ASSUME PolicyInv,
         run' \in [Run -> InFlight \cup {Free}],
         \A y \in Run : run'[y] # Free /\ run'[y].waits =>
           run[y] # Free /\ run[y].waits /\ run'[y].by = run[y].by /\ run[y].by \in busy'
  PROVE  RunsOK'
BY DEF RunsOK, PolicyInv, LoopsWaitForOne

LEMMA PolicyStepInv == PolicyInv /\ [PolicyNext]_policy_vars => PolicyInv'
<1> SUFFICES ASSUME PolicyInv, [PolicyNext]_policy_vars
             PROVE  PolicyInv'
  OBVIOUS
<1>0. /\ policy \in {"enabled", "disabled", "deleted"}
      /\ dueIn \in 0..Interval
      /\ busy \subseteq Replica
      /\ run \in [Run -> InFlight \cup {Free}]
      /\ \A x \in Run : run[x] # Free /\ run[x].waits => run[x].by \in busy
      /\ polled \subseteq Device
      /\ failures \in 0..MaxFailures
      /\ Interval \in Nat /\ MaxFailures \in Nat
  BY MonitoringAssumption DEF PolicyInv, PolicyTypeOK, MonitoringAssumption
<1>a. /\ policy' \in {"enabled", "disabled", "deleted"}
      /\ dueIn' \in 0..Interval
      /\ busy' \subseteq Replica
      /\ RunsOK'
      /\ polled' \subseteq Device
      /\ failures' \in 0..MaxFailures
      => PolicyInv'
  BY DEF PolicyInv, PolicyTypeOK, RunsOK
<1>b. \A x \in Run : run[x] # Free => run[x] \in InFlight
  BY <1>0
<1>c. Failure => failures' \in 0..MaxFailures
  BY <1>0 DEF Failure
<1>d. \A x \in Run : run[x] # Free /\ Finish(x) => busy' \subseteq Replica
  BY <1>0 DEF Finish
<1>1. ASSUME NEW x \in Run, NEW p \in Replica, Due(p, x)
      PROVE  PolicyInv'
  <2>1. RunsOK'
    BY <1>1, BeginKeepsRuns DEF Due, Process
  <2> QED
    BY <1>a, <1>0, <1>1, <2>1 DEF Due
<1>2. ASSUME NEW x \in Run, NEW p \in Api, RunNow(p, x)
      PROVE  PolicyInv'
  <2>1. RunsOK'
    BY <1>2, BeginKeepsRuns DEF RunNow, Process
  <2> QED
    BY <1>a, <1>0, <1>2, <2>1 DEF RunNow
<1>3. ASSUME NEW x \in Run, Load(x)
      PROVE  PolicyInv'
  <2>1. run[x] # Free
    BY <1>3 DEF Load, Free
  <2>2. CASE policy = "deleted"
    BY <1>a, <1>0, <1>d, <1>3, <2>1, <2>2, FinishKeepsRuns DEF Load
  <2>3. CASE policy # "deleted"
    <3>1. run' = [run EXCEPT ![x].at = "poll", ![x].age = 0] /\ busy' = busy
      BY <1>3, <2>3 DEF Load
    <3>a. run'[x] = [run[x] EXCEPT !.at = "poll", !.age = 0] /\ run[x] \in InFlight
      BY <1>0, <1>b, <2>1, <3>1
    <3>b. 0 \in 0..Interval
      BY <1>0
    <3>c. /\ run'[x] = [at |-> "poll", by |-> run[x].by, waits |-> run[x].waits, age |-> 0]
          /\ run[x].by \in Process /\ run[x].waits \in BOOLEAN
      BY <3>a DEF InFlight
    <3>2. run'[x] \in InFlight /\ run'[x].waits = run[x].waits /\ run'[x].by = run[x].by
      BY <3>b, <3>c DEF InFlight
    <3>3. \A y \in Run : y # x => run'[y] = run[y]
      BY <1>0, <3>1
    <3>4. run' \in [Run -> InFlight \cup {Free}]
      BY <1>0, <3>1, <3>2, <3>3
    <3>5. RunsOK'
      BY <1>0, <2>1, <3>1, <3>2, <3>3, <3>4, RunsGoOn
    <3> QED
      BY <1>a, <1>0, <1>3, <3>1, <3>5 DEF Load
  <2> QED
    BY <2>2, <2>3
<1>4. ASSUME NEW x \in Run, Poll(x)
      PROVE  PolicyInv'
  <2>1. run[x] # Free
    BY <1>4 DEF Poll, Free
  <2>2. run' = [run EXCEPT ![x].at = "save"] /\ busy' = busy
    BY <1>4 DEF Poll
  <2>3. run'[x] \in InFlight /\ run'[x].waits = run[x].waits /\ run'[x].by = run[x].by
    BY <1>0, <1>b, <2>1, <2>2 DEF InFlight
  <2>4. \A y \in Run : y # x => run'[y] = run[y]
    BY <1>0, <2>2
  <2>5. run' \in [Run -> InFlight \cup {Free}]
    BY <1>0, <2>2, <2>3, <2>4
  <2>6. RunsOK'
    BY <1>0, <2>1, <2>2, <2>3, <2>4, <2>5, RunsGoOn
  <2>7. polled' \subseteq Device /\ failures' \in 0..MaxFailures
    <3>1. Targets(run[x].by) \subseteq Device
      BY DEF Targets
    <3> QED
      BY <1>0, <1>c, <1>4, <3>1 DEF Poll
  <2> QED
    BY <1>a, <1>0, <1>4, <2>2, <2>6, <2>7 DEF Poll
<1>5. ASSUME NEW x \in Run, Save(x)
      PROVE  PolicyInv'
  <2>1. run[x] # Free
    BY <1>5 DEF Save, Free
  <2>2. RunsOK'
    BY <1>5, <2>1, FinishKeepsRuns DEF Save
  <2>3. run[x].age \in 0..Interval
    BY <1>b, <2>1 DEF InFlight
  <2>4. dueIn' \in 0..Interval
    BY <1>0, <1>5, <2>3 DEF Save
  <2> QED
    BY <1>a, <1>0, <1>d, <1>5, <2>1, <2>2, <2>4 DEF Save
<1>6. ASSUME NEW x \in Run, RunFails(x)
      PROVE  PolicyInv'
  <2>1. run[x] # Free
    BY <1>6 DEF RunFails, Free
  <2>2. RunsOK'
    BY <1>6, <2>1, FinishKeepsRuns DEF RunFails
  <2> QED
    BY <1>a, <1>0, <1>c, <1>d, <1>6, <2>1, <2>2 DEF RunFails
<1>7. ASSUME NEW x \in Run, LoopFails(x)
      PROVE  PolicyInv'
  <2>1. run[x] # Free /\ run[x].waits
    BY <1>7 DEF LoopFails
  <2>2. run' = [run EXCEPT ![x].waits = FALSE] /\ busy' = busy \ {run[x].by}
    BY <1>7 DEF LoopFails
  <2>3. run'[x] \in InFlight /\ ~run'[x].waits
    BY <1>0, <1>b, <2>1, <2>2 DEF InFlight
  <2>4. \A y \in Run : y # x => run'[y] = run[y]
    BY <1>0, <2>2
  <2>5. run' \in [Run -> InFlight \cup {Free}]
    BY <1>0, <2>2, <2>3, <2>4
  <2>6. \A y \in Run : y # x /\ run[y] # Free /\ run[y].waits => run[y].by \in busy'
    BY <1>0, <2>1, <2>2 DEF PolicyInv, LoopsWaitForOne
  <2>7. RunsOK'
    BY <1>0, <2>3, <2>4, <2>5, <2>6, RunsGoOn
  <2> QED
    BY <1>a, <1>0, <1>c, <1>7, <2>2, <2>7 DEF LoopFails
<1>8. ASSUME NEW p \in Process, Dies(p)
      PROVE  PolicyInv'
  <2>1. /\ run' = [x \in Run |-> IF run[x] # Free /\ run[x].by = p THEN Free ELSE run[x]]
        /\ busy' = busy \ {p}
    BY <1>8 DEF Dies
  <2>2. run' \in [Run -> InFlight \cup {Free}]
    BY <1>0, <2>1
  <2>3. RunsOK'
    BY <1>0, <2>1, <2>2, RunsGoOn
  <2> QED
    BY <1>a, <1>0, <1>c, <1>8, <2>1, <2>3 DEF Dies
<1>9. ASSUME NEW to \in {"enabled", "disabled", "deleted"}, Edit(to)
      PROVE  PolicyInv'
  <2>1. RunsOK'
    BY <1>0, <1>9, RunsGoOn DEF Edit
  <2> QED
    BY <1>a, <1>0, <1>9, <2>1 DEF Edit
<1>10. CASE Tick
  <2> DEFINE older(r) == IF r # Free /\ r.age < Interval THEN [r EXCEPT !.age = @ + 1] ELSE r
  <2>1. run' = [x \in Run |-> older(run[x])] /\ busy' = busy
    BY <1>10 DEF Tick
  <2>2. ASSUME NEW x \in Run, run[x] # Free
        PROVE  /\ older(run[x]) \in InFlight
               /\ older(run[x]).waits = run[x].waits
               /\ older(run[x]).by = run[x].by
    BY <1>0, <1>b, <2>2 DEF InFlight
  <2>3. \A x \in Run : run[x] = Free => older(run[x]) = Free
    OBVIOUS
  <2> HIDE DEF older
  <2>4. run' \in [Run -> InFlight \cup {Free}]
    BY <2>1, <2>2, <2>3
  <2>5. RunsOK'
    BY <1>0, <2>1, <2>2, <2>3, <2>4, RunsGoOn
  <2> QED
    BY <1>a, <1>0, <1>10, <2>1, <2>5 DEF Tick
<1>11. CASE UNCHANGED policy_vars
  BY <1>11 DEF policy_vars, PolicyInv, PolicyTypeOK, LoopsWaitForOne
<1> QED
  BY <1>1, <1>2, <1>3, <1>4, <1>5, <1>6, <1>7, <1>8, <1>9, <1>10, <1>11
     DEF PolicyNext, Progress

(* The policy and its runs keep their types, the next run is at most an    *)
(* interval away, and a run that is waited for has a loop that waits.      *)
THEOREM PolicyTypeCorrect == PolicySpec => []PolicyTypeOK
<1>1. PolicyInv => PolicyTypeOK
  BY DEF PolicyInv
<1> QED
  BY <1>1, PolicyInitInv, PolicyStepInv, PTL DEF PolicySpec

=============================================================================
