-------------------------- MODULE DiscoveryProofs ---------------------------
(***************************************************************************)
(* Theorems about discovery: DiscoveryConsumer, for any number of replicas *)
(* and devices and any number of reports; and DiscoveryPersist, its types  *)
(* and what becomes of the names operators give, for any scans and         *)
(* addresses.                                                              *)
(***************************************************************************)
EXTENDS DiscoveryConsumer, DiscoveryPersist, TLAPS

\* Replica w read device d and is about to commit its status.
Committing(w, d) == task[w].at = "commit" /\ task[w].event.device = d

(* What a replica announced up, it last saw up.                            *)
ToldIsUp == \A w \in Worker : \A n \in told[w] : last[w][n] = "up"

(* Only an event that gives a status has one to commit, and only one with  *)
(* an id has something to announce.                                        *)
CommitsStatus ==
  \A w \in Worker :
    /\ task[w].at = "commit" => GivesStatus(task[w].event)
    /\ task[w].at = "publish" => task[w].event.name \in Name

(* What the replicas hold of a device nobody disturbed, and did not write  *)
(* past, is what the row says,                                             *)
CacheAgrees ==
  \A w \in Worker, d \in Device \ disturbed :
    /\ d \notin passed[w] /\ last[w][d] \in Status => last[w][d] = status[d]
    /\ Committing(w, d) => task[w].prev = status[d]

(* and one replica at a time has hold of it.                               *)
OneWriter ==
  \A w \in Worker, d \in Device \ disturbed :
    Committing(w, d) =>
      \A v \in Worker \ {w} : last[v][d] \notin Status /\ ~Committing(v, d)

IndInv ==
  /\ TypeOK
  /\ ToldIsUp
  /\ CommitsStatus
  /\ CacheAgrees
  /\ OneWriter

-----------------------------------------------------------------------------
(* The id of a device leads to it, in reports and requests alike.          *)
LEMMA OnLogFacts ==
  ASSUME NEW e \in OnLog
  PROVE  /\ e \in Event
         /\ e.name \in Device => e.device = e.name
         /\ e.name \in Name \cup {NoName} /\ e.device \in Device \cup {NoRow}
         /\ e.status \in Given
<1>1. CASE e \in Reports
  BY <1>1, DiscoveryAssumption DEF Event
<1>2. ASSUME NEW n \in Name, e = Request(n)
      PROVE  e \in Event /\ (e.name \in Device => e.device = e.name)
  BY <1>2 DEF Request, Event, Given
<1> QED
  BY <1>1, <1>2 DEF OnLog, Event

LEMMA InitIndInv == Init => IndInv
<1> SUFFICES ASSUME Init
             PROVE  IndInv
  OBVIOUS
<1>1. TypeOK
  BY DEF Init, TypeOK, Status, Given
<1>2. \A w \in Worker : task[w].at = "idle" /\ told[w] = {}
  BY DEF Init, Idle
<1>3. \A w \in Worker, d \in Device : last[w][d] \notin Status
  BY DiscoveryAssumption DEF Init, Status
<1> QED
  BY <1>1, <1>2, <1>3
     DEF IndInv, ToldIsUp, CommitsStatus, CacheAgrees, OneWriter, Committing

LEMMA Successor == \A n \in Nat : n + 1 \in Nat
OBVIOUS

LEMMA Increment ==
  ASSUME NEW S, NEW f \in [S -> Nat], NEW x \in S
  PROVE  [f EXCEPT ![x] = @ + 1] \in [S -> Nat]
BY Successor

(* What a replica works on is an event, and what it read a status.         *)
LEMMA TaskFacts ==
  ASSUME TypeOK, NEW w \in Worker, task[w].at # "idle"
  PROVE  task[w].event \in OnLog /\ task[w].prev \in Status \cup {""}
<1>1. task[w] \in Task \cup {Idle}
  BY DEF TypeOK
<1>2. task[w] \in Task
  BY <1>1 DEF Idle
<1> QED
  BY <1>2 DEF Task

LEMMA IdleFact == Idle.at = "idle"
BY DEF Idle

(* Finish leaves the replica idle.                                         *)
LEMMA FinishFacts ==
  ASSUME TypeOK, NEW w \in Worker, NEW e \in OnLog, Finish(w, e)
  PROVE  /\ done' \in [Worker -> [OnLog -> Nat]]
         /\ task' \in [Worker -> Task \cup {Idle}]
         /\ task'[w].at = "idle"
         /\ \A v \in Worker \ {w} : task'[v] = task[v]
<1>1. Idle.at = "idle"
  BY DEF Idle
<1>2. task' = [task EXCEPT ![w] = Idle] /\ done' = [done EXCEPT ![w][e] = @ + 1]
  BY DEF Finish
<1>3. done' \in [Worker -> [OnLog -> Nat]]
  <2>1. done \in [Worker -> [OnLog -> Nat]]
    BY DEF TypeOK
  <2>2. [done[w] EXCEPT ![e] = @ + 1] \in [OnLog -> Nat]
    BY <2>1, Increment
  <2> QED
    BY <1>2, <2>1, <2>2
<1> QED
  BY <1>1, <1>2, <1>3 DEF TypeOK

(* _maybe_emit_refresh changes what one replica holds of the id an event   *)
(* names, if it names one, and of the devices it is written past, ends the *)
(* commit, and keeps as told only what was last seen up.                   *)
LEMMA DecideFacts ==
  ASSUME TypeOK, NEW w \in Worker, NEW e \in OnLog, NEW prev \in Status \cup {""},
         DecideToEmit(w, e, prev)
  PROVE  /\ log' = log /\ reports' = reports
         /\ last' \in [Worker -> [Name -> Given]]
         /\ done' \in [Worker -> [OnLog -> Nat]]
         /\ task' \in [Worker -> Task \cup {Idle}]
         /\ told' \in [Worker -> SUBSET Name]
         /\ passed' \in [Worker -> SUBSET Device]
         /\ \A v \in Worker \ {w} :
              /\ last'[v] = last[v] /\ told'[v] = told[v]
              /\ passed'[v] = passed[v] /\ task'[v] = task[v]
         /\ \A n \in Name \ {e.name} : last'[w][n] = last[w][n]
         /\ \A d \in Device \ {e.name} :
              d \in passed'[w] <=> d \in passed[w] \/ d \in Passes(w, e)
         /\ e.name \in Name =>
              \/ last'[w][e.name] = e.status
              \/ /\ last'[w][e.name] = last[w][e.name]
                 /\ e.status = ""
                 /\ \A d \in Device : d \in passed[w] => d \in passed'[w]
         /\ task'[w].at # "commit"
         /\ task'[w].at = "publish" =>
              task'[w].event = e /\ e.name \in Name
         /\ \A n \in told'[w] :
              \/ n \in told[w] /\ last'[w][n] = last[w][n]
              \/ n = e.name /\ last'[w][n] = "up"
         /\ task'[w].at = "publish" <=>
              e.name # NoName /\ (BecameUp(w, e, prev) \/ e.requested)
<1> DEFINE emits == e.name # NoName /\ (BecameUp(w, e, prev) \/ e.requested)
           replaced == IF emits \/ e.status # "" THEN {e.name} ELSE {}
<1>1. /\ e.name \in Name \cup {NoName} /\ e.status \in Given
      /\ NoName \notin Name /\ Device \subseteq Name
  BY OnLogFacts, DiscoveryAssumption
<1>2. log' = log /\ reports' = reports
  BY DEF DecideToEmit
<1>3. last' = IF e.name # NoName
              THEN [last EXCEPT ![w][e.name] =
                      IF emits \/ e.status # "" THEN e.status ELSE @]
              ELSE last
  BY DEF DecideToEmit, Remember
<1>4. /\ told' = [told EXCEPT ![w] =
           IF e.status # "up" THEN @ \ replaced ELSE IF emits THEN @ \cup {e.name} ELSE @]
      /\ passed' = [passed EXCEPT ![w] = (@ \cup Passes(w, e)) \ replaced]
  BY DEF DecideToEmit, Note
<1>5. /\ last' \in [Worker -> [Name -> Given]]
      /\ \A v \in Worker \ {w} : last'[v] = last[v]
      /\ \A n \in Name \ {e.name} : last'[w][n] = last[w][n]
      /\ e.name \in Name => last'[w][e.name] =
           IF emits \/ e.status # "" THEN e.status ELSE last[w][e.name]
  <2> HIDE DEF emits
  <2> QED
    BY <1>1, <1>3 DEF TypeOK
<1>6. /\ passed' \in [Worker -> SUBSET Device]
      /\ \A v \in Worker \ {w} : passed'[v] = passed[v]
      /\ \A d \in Device \ {e.name} :
           d \in passed'[w] <=> d \in passed[w] \/ d \in Passes(w, e)
      /\ replaced = {} => \A d \in Device : d \in passed[w] => d \in passed'[w]
  <2>1. Passes(w, e) \subseteq Device
    BY DEF Passes
  <2>2. replaced \subseteq {e.name}
    OBVIOUS
  <2> HIDE DEF replaced
  <2> QED
    BY <1>4, <2>1, <2>2 DEF TypeOK
<1>7. emits => e.name \in Name
  BY <1>1
<1>8. /\ told' \in [Worker -> SUBSET Name]
      /\ \A v \in Worker \ {w} : told'[v] = told[v]
  <2> HIDE DEF emits, replaced
  <2> QED
    BY <1>4, <1>7 DEF TypeOK
<1>9. ASSUME NEW n \in told'[w]
      PROVE  \/ n \in told[w] /\ last'[w][n] = last[w][n]
             \/ n = e.name /\ last'[w][n] = "up"
  <2>1. n \in Name
    BY <1>8
  <2>2. told'[w] = IF e.status # "up" THEN told[w] \ replaced
                   ELSE IF emits THEN told[w] \cup {e.name} ELSE told[w]
    BY <1>4 DEF TypeOK
  <2>3. CASE n # e.name
    BY <1>5, <2>1, <2>2, <2>3
  <2>4. CASE n = e.name /\ e.status = "up"
    BY <1>5, <2>1, <2>4
  <2>5. CASE n = e.name /\ e.status # "up"
    BY <1>5, <2>1, <2>2, <2>5
  <2> QED
    BY <2>3, <2>4, <2>5
<1>10. e.name \in Name =>
         \/ last'[w][e.name] = e.status
         \/ /\ last'[w][e.name] = last[w][e.name]
            /\ e.status = ""
            /\ \A d \in Device : d \in passed[w] => d \in passed'[w]
  BY <1>5, <1>6
<1>11. CASE emits
  <2> DEFINE t == [at |-> "publish", event |-> e, prev |-> prev]
  <2>1. task' = [task EXCEPT ![w] = t] /\ done' = done
    BY <1>11 DEF DecideToEmit
  <2>2. t \in Task /\ t.at = "publish" /\ t.event = e
    BY DEF Task
  <2> HIDE DEF t
  <2>3. /\ done' \in [Worker -> [OnLog -> Nat]]
        /\ task' \in [Worker -> Task \cup {Idle}]
        /\ \A v \in Worker \ {w} : task'[v] = task[v]
        /\ task'[w].at = "publish" /\ task'[w].event = e
    BY <2>1, <2>2 DEF TypeOK
  <2> QED
    BY <1>2, <1>5, <1>6, <1>7, <1>8, <1>9, <1>10, <1>11, <2>3
<1>12. CASE ~emits
  <2>1. Finish(w, e)
    BY <1>12 DEF DecideToEmit
  <2>2. /\ done' \in [Worker -> [OnLog -> Nat]]
        /\ task' \in [Worker -> Task \cup {Idle}]
        /\ \A v \in Worker \ {w} : task'[v] = task[v]
        /\ task'[w].at = "idle"
    BY <2>1, FinishFacts
  <2> QED
    BY <1>2, <1>5, <1>6, <1>8, <1>9, <1>10, <1>12, <2>2
<1> QED
  BY <1>11, <1>12

-----------------------------------------------------------------------------
(* What a step keeps that lets nobody start to commit, writes no row but of *)
(* a disturbed device, and remembers no new status of one.                 *)
LEMMA QuietStep ==
  ASSUME IndInv, TypeOK', ToldIsUp',
         \A v \in Worker :
           /\ task'[v].at = "commit" => task'[v] = task[v]
           /\ task'[v].at = "publish" => task'[v].event.name \in Name,
         \A v \in Worker : \A d \in Device :
           \/ last'[v][d] \notin Status
           \/ last'[v][d] = last[v][d] /\ (d \in passed[v] => d \in passed'[v]),
         \A d \in Device \ disturbed' : d \notin disturbed /\ status'[d] = status[d]
  PROVE  IndInv'
<1>1. CommitsStatus'
  BY DEF IndInv, CommitsStatus, GivesStatus
<1>2. ASSUME NEW v \in Worker, NEW d \in Device, Committing(v, d)'
      PROVE  Committing(v, d) /\ task'[v].prev = task[v].prev
  BY <1>2 DEF Committing
<1>3. CacheAgrees'
  <2> SUFFICES ASSUME NEW v \in Worker, NEW d \in Device \ disturbed'
               PROVE  /\ d \notin passed'[v] /\ last'[v][d] \in Status =>
                           last'[v][d] = status'[d]
                      /\ Committing(v, d)' => task'[v].prev = status'[d]
    BY DEF CacheAgrees
  <2>1. d \in Device \ disturbed /\ status'[d] = status[d]
    OBVIOUS
  <2>2. /\ d \notin passed[v] /\ last[v][d] \in Status => last[v][d] = status[d]
        /\ Committing(v, d) => task[v].prev = status[d]
    BY <2>1 DEF IndInv, CacheAgrees
  <2>3. Committing(v, d)' => task'[v].prev = status'[d]
    BY <1>2, <2>1, <2>2
  <2> QED
    BY <2>1, <2>2, <2>3
<1>4. OneWriter'
  <2> SUFFICES ASSUME NEW v \in Worker, NEW d \in Device \ disturbed',
                      Committing(v, d)', NEW u \in Worker \ {v}
               PROVE  last'[u][d] \notin Status /\ ~Committing(u, d)'
    BY DEF OneWriter
  <2>1. d \in Device \ disturbed /\ Committing(v, d)
    BY <1>2
  <2>2. last[u][d] \notin Status /\ ~Committing(u, d)
    BY <2>1 DEF IndInv, OneWriter
  <2> QED
    BY <1>2, <2>1, <2>2
<1> QED
  BY <1>1, <1>3, <1>4 DEF IndInv

LEMMA ReportStep ==
  ASSUME IndInv, NEW e \in Reports, Report(e)
  PROVE  IndInv'
<1>1. e \in OnLog
  BY DEF OnLog
<1>2. log' \in [OnLog -> Nat] /\ reports' \in Nat
  <2>1. log \in [OnLog -> Nat] /\ reports \in Nat
    BY DEF IndInv, TypeOK
  <2>2. [log EXCEPT ![e] = @ + 1] \in [OnLog -> Nat]
    BY <1>1, <2>1, Increment
  <2>3. reports + 1 \in Nat
    BY <2>1, Successor
  <2> QED
    BY <2>2, <2>3 DEF Report
<1>3. UNCHANGED <<status, last, done, task, told, disturbed, passed>>
  BY DEF Report, history
<1>4. TypeOK' /\ ToldIsUp'
  BY <1>2, <1>3 DEF IndInv, TypeOK, ToldIsUp
<1>5. \A v \in Worker : task[v].at = "publish" => task[v].event.name \in Name
  BY DEF IndInv, CommitsStatus
<1> QED
  BY <1>3, <1>4, <1>5, QuietStep

LEMMA EditStep ==
  ASSUME IndInv, NEW d \in Device, NEW s \in Status, Edit(d, s)
  PROVE  IndInv'
<1>1. UNCHANGED <<last, task, told, passed>> /\ disturbed \subseteq disturbed'
  BY DEF Edit
<1>2. TypeOK' /\ ToldIsUp'
  BY DEF IndInv, TypeOK, ToldIsUp, Edit
<1>3. \A c \in Device \ disturbed' : status'[c] = status[c] /\ c \in Device \ disturbed
  BY DEF Edit, IndInv, TypeOK
<1>4. \A v \in Worker : task[v].at = "publish" => task[v].event.name \in Name
  BY DEF IndInv, CommitsStatus
<1> QED
  BY <1>1, <1>2, <1>3, <1>4, QuietStep

LEMMA BeginStatusStep ==
  ASSUME IndInv, NEW w \in Worker, NEW e \in OnLog, BeginStatus(w, e)
  PROVE  IndInv'
<1> DEFINE t == [at |-> "commit", event |-> e, prev |-> status[e.device]]
<1>1. e.device \in Device /\ e.status \in Status /\ GivesStatus(e)
  BY DEF BeginStatus, GivesStatus
<1>2. t \in Task
  BY <1>1 DEF Task, IndInv, TypeOK
<1>3. t.at = "commit" /\ t.event = e /\ t.prev = status[e.device]
  OBVIOUS
<1>4. task' = [task EXCEPT ![w] = t]
  BY DEF BeginStatus
<1> HIDE DEF t
<1>5. disturbed \subseteq disturbed' /\ disturbed' \subseteq Device
  BY <1>1 DEF BeginStatus, IndInv, TypeOK
<1>6. UNCHANGED <<log, reports, status, last, done, told, passed>>
  BY DEF BeginStatus
<1>7. TypeOK'
  BY <1>2, <1>4, <1>5, <1>6 DEF IndInv, TypeOK
<1>8. task'[w] = t /\ \A v \in Worker \ {w} : task'[v] = task[v]
  BY <1>4 DEF IndInv, TypeOK
<1>9. ToldIsUp'
  BY <1>6 DEF IndInv, ToldIsUp
<1>10. CommitsStatus'
  BY <1>1, <1>3, <1>8 DEF IndInv, CommitsStatus, GivesStatus
<1>11. CacheAgrees'
  <2> SUFFICES ASSUME NEW v \in Worker, NEW d \in Device \ disturbed'
               PROVE  /\ d \notin passed[v] /\ last[v][d] \in Status =>
                           last[v][d] = status[d]
                      /\ Committing(v, d)' => task'[v].prev = status[d]
    BY <1>6 DEF CacheAgrees
  <2>1. /\ d \notin passed[v] /\ last[v][d] \in Status => last[v][d] = status[d]
        /\ Committing(v, d) => task[v].prev = status[d]
    BY <1>5 DEF IndInv, CacheAgrees
  <2>2. CASE v = w
    BY <1>3, <1>8, <2>1, <2>2 DEF Committing
  <2>3. CASE v # w
    BY <1>8, <2>1, <2>3 DEF Committing
  <2> QED
    BY <2>2, <2>3
<1>12. OneWriter'
  <2> SUFFICES ASSUME NEW u \in Worker, NEW d \in Device \ disturbed', Committing(u, d)',
                      NEW v \in Worker \ {u}
               PROVE  last[v][d] \notin Status /\ ~Committing(v, d)'
    BY <1>6 DEF OneWriter
  <2>1. CASE d = e.device
    <3>1. ~Shared(w, d)
      BY <2>1 DEF BeginStatus
    <3>2. \A x \in Worker \ {w} : last[x][d] \notin Status /\ ~Committing(x, d)
      <4> SUFFICES ASSUME NEW x \in Worker \ {w}
                   PROVE  last[x][d] \notin Status /\ ~Committing(x, d)
        OBVIOUS
      <4>1. last[x][d] \notin Status /\ (task[x] = Idle \/ task[x].event.device # d)
        BY <3>1 DEF Shared
      <4> QED
        BY <4>1, IdleFact DEF Committing
    <3>3. u = w
      BY <1>8, <3>2 DEF Committing
    <3> QED
      BY <1>8, <3>2, <3>3 DEF Committing
  <2>2. CASE d # e.device
    <3>1. \A x \in Worker : Committing(x, d)' => Committing(x, d)
      BY <1>3, <1>8, <2>2 DEF Committing
    <3> QED
      BY <1>5, <3>1 DEF IndInv, OneWriter
  <2> QED
    BY <2>1, <2>2
<1> QED
  BY <1>7, <1>9, <1>10, <1>11, <1>12 DEF IndInv

LEMMA BeginRequestStep ==
  ASSUME IndInv, NEW w \in Worker, NEW e \in OnLog, BeginRequest(w, e)
  PROVE  IndInv'
<1>1. ~GivesStatus(e) /\ DecideToEmit(w, e, "") /\ UNCHANGED <<status, disturbed>>
  BY DEF BeginRequest
<1>2. TypeOK
  BY DEF IndInv
<1>3. /\ log' = log /\ reports' = reports
      /\ last' \in [Worker -> [Name -> Given]]
      /\ done' \in [Worker -> [OnLog -> Nat]]
      /\ task' \in [Worker -> Task \cup {Idle}]
      /\ told' \in [Worker -> SUBSET Name]
      /\ passed' \in [Worker -> SUBSET Device]
  BY <1>1, <1>2, DecideFacts
<1>4. TypeOK'
  BY <1>1, <1>2, <1>3 DEF TypeOK
<1>5. \A v \in Worker \ {w} :
        /\ last'[v] = last[v] /\ told'[v] = told[v]
        /\ passed'[v] = passed[v] /\ task'[v] = task[v]
  BY <1>1, <1>2, DecideFacts
<1>6. /\ task'[w].at # "commit"
      /\ task'[w].at = "publish" => task'[w].event = e /\ e.name \in Name
      /\ \A n \in told'[w] :
           \/ n \in told[w] /\ last'[w][n] = last[w][n]
           \/ n = e.name /\ last'[w][n] = "up"
  BY <1>1, <1>2, DecideFacts
<1>7. /\ \A n \in Name \ {e.name} : last'[w][n] = last[w][n]
      /\ \A d \in Device \ {e.name} :
           d \in passed'[w] <=> d \in passed[w] \/ d \in Passes(w, e)
      /\ e.name \in Name =>
           \/ last'[w][e.name] = e.status
           \/ /\ last'[w][e.name] = last[w][e.name]
              /\ \A d \in Device : d \in passed[w] => d \in passed'[w]
  BY <1>1, <1>2, DecideFacts
<1>8. ToldIsUp'
  <2> SUFFICES ASSUME NEW v \in Worker, NEW n \in told'[v]
               PROVE  last'[v][n] = "up"
    BY DEF ToldIsUp
  <2>1. CASE v = w
    BY <1>6, <2>1 DEF IndInv, ToldIsUp
  <2>2. CASE v # w
    BY <1>5, <2>2 DEF IndInv, ToldIsUp
  <2> QED
    BY <2>1, <2>2
<1>9. ASSUME NEW d \in Device
      PROVE  \/ last'[w][d] \notin Status
             \/ last'[w][d] = last[w][d] /\ (d \in passed[w] => d \in passed'[w])
  <2>1. d \in Name
    BY DiscoveryAssumption
  <2>2. CASE d # e.name
    BY <1>7, <2>1, <2>2
  <2>3. CASE d = e.name
    <3>1. e.status \notin Status
      BY <1>1, <2>3, OnLogFacts DEF GivesStatus
    <3> QED
      BY <1>7, <2>1, <2>3, <3>1
  <2> QED
    BY <2>2, <2>3
<1>10. ASSUME NEW v \in Worker
      PROVE  /\ task'[v].at = "commit" => task'[v] = task[v]
             /\ task'[v].at = "publish" => task'[v].event.name \in Name
             /\ \A d \in Device :
                  \/ last'[v][d] \notin Status
                  \/ last'[v][d] = last[v][d] /\ (d \in passed[v] => d \in passed'[v])
  <2>1. CASE v = w
    BY <1>6, <1>9, <2>1
  <2>2. CASE v # w
    BY <1>5, <2>2 DEF IndInv, CommitsStatus
  <2> QED
    BY <2>1, <2>2
<1> QED
  BY <1>1, <1>4, <1>8, <1>10, QuietStep

\* What the row of device d becomes when status s is committed over read.
CommitsRow(d, read, s) ==
  /\ status' = status \/ status' = [status EXCEPT ![d] = s]
  /\ read # s => status' = [status EXCEPT ![d] = s]

LEMMA RowFacts ==
  ASSUME NEW w \in Worker, CommitStatus(w)
  PROVE  CommitsRow(task[w].event.device, task[w].prev, task[w].event.status)
BY DEF CommitStatus, Writes, CommitsRow

LEMMA CommitStatusStep ==
  ASSUME IndInv, NEW w \in Worker, CommitStatus(w)
  PROVE  IndInv'
<1> DEFINE e == task[w].event
           D == e.device
           prev == task[w].prev
<1>1. /\ task[w].at = "commit"
      /\ CommitsRow(D, prev, e.status)
      /\ DecideToEmit(w, e, prev)
      /\ UNCHANGED disturbed
  BY RowFacts DEF CommitStatus
<1>2. TypeOK
  BY DEF IndInv
<1>3. e \in OnLog /\ prev \in Status \cup {""}
  BY <1>1, <1>2, TaskFacts
<1>4. GivesStatus(e) /\ D \in Device /\ e.status \in Status /\ e.status # ""
  BY <1>1 DEF IndInv, CommitsStatus, GivesStatus, Status
<1> HIDE DEF e, D, prev
<1>5. /\ log' = log /\ reports' = reports
      /\ last' \in [Worker -> [Name -> Given]]
      /\ done' \in [Worker -> [OnLog -> Nat]]
      /\ task' \in [Worker -> Task \cup {Idle}]
      /\ told' \in [Worker -> SUBSET Name]
      /\ passed' \in [Worker -> SUBSET Device]
  BY <1>1, <1>2, <1>3, DecideFacts
<1>6. \A v \in Worker \ {w} :
        /\ last'[v] = last[v] /\ told'[v] = told[v]
        /\ passed'[v] = passed[v] /\ task'[v] = task[v]
  BY <1>1, <1>2, <1>3, DecideFacts
<1>7. /\ task'[w].at # "commit"
      /\ task'[w].at = "publish" => task'[w].event = e /\ e.name \in Name
      /\ \A n \in told'[w] :
           \/ n \in told[w] /\ last'[w][n] = last[w][n]
           \/ n = e.name /\ last'[w][n] = "up"
  BY <1>1, <1>2, <1>3, DecideFacts
<1>8. /\ \A n \in Name \ {e.name} : last'[w][n] = last[w][n]
      /\ \A d \in Device \ {e.name} :
           d \in passed'[w] <=> d \in passed[w] \/ d \in Passes(w, e)
      /\ e.name \in Name => last'[w][e.name] = e.status
  BY <1>1, <1>2, <1>3, <1>4, DecideFacts
<1>9. Committing(w, D) /\ (D \notin disturbed => prev = status[D])
  BY <1>1, <1>4 DEF IndInv, CacheAgrees, Committing, D, e, prev
<1>10. /\ Device \subseteq Name
       /\ e.name \in Device => D = e.name
  BY <1>3, OnLogFacts, DiscoveryAssumption DEF D
<1>11. \A d \in Device : d \in Passes(w, e) <=>
         d = D /\ d # e.name /\ last[w][d] \in Status
  BY <1>4 DEF Passes, D
<1>12. /\ status' \in [Device -> Status]
       /\ \A d \in Device \ {D} : status'[d] = status[d]
       /\ D \notin disturbed => status'[D] = e.status
  BY <1>1, <1>2, <1>3, <1>4, <1>9 DEF TypeOK, CommitsRow
<1>13. TypeOK'
  BY <1>1, <1>2, <1>5, <1>12 DEF TypeOK
<1>14. ToldIsUp'
  <2> SUFFICES ASSUME NEW v \in Worker, NEW n \in told'[v]
               PROVE  last'[v][n] = "up"
    BY DEF ToldIsUp
  <2>1. CASE v = w
    BY <1>7, <2>1 DEF IndInv, ToldIsUp
  <2>2. CASE v # w
    BY <1>6, <2>2 DEF IndInv, ToldIsUp
  <2> QED
    BY <2>1, <2>2
<1>15. CommitsStatus'
  <2> SUFFICES ASSUME NEW v \in Worker
               PROVE  /\ task'[v].at = "commit" => GivesStatus(task'[v].event)
                      /\ task'[v].at = "publish" => task'[v].event.name \in Name
    BY DEF CommitsStatus, GivesStatus
  <2>1. CASE v = w
    BY <1>7, <2>1
  <2>2. CASE v # w
    BY <1>6, <2>2 DEF IndInv, CommitsStatus
  <2> QED
    BY <2>1, <2>2
<1>16. \A v \in Worker, d \in Device :
         Committing(v, d)' => v # w /\ Committing(v, d) /\ task'[v] = task[v]
  BY <1>6, <1>7 DEF Committing
<1>17. ASSUME NEW d \in Device \ disturbed', NEW v \in Worker
       PROVE  /\ d \notin passed'[v] /\ last'[v][d] \in Status => last'[v][d] = status'[d]
              /\ Committing(v, d)' =>
                   /\ task'[v].prev = status'[d]
                   /\ \A u \in Worker \ {v} :
                        last'[u][d] \notin Status /\ ~Committing(u, d)'
  <2>1. d \in Device \ disturbed /\ d \in Name
    BY <1>1, <1>10
  <2>2. CASE d = D
    <3>1. \A u \in Worker \ {w} : last'[u][d] \notin Status /\ ~Committing(u, d)
      BY <1>6, <1>9, <2>1, <2>2 DEF IndInv, OneWriter
    <3>2. \A u \in Worker : ~Committing(u, d)'
      BY <1>16, <2>1, <3>1
    <3>3. d \notin passed'[w] /\ last'[w][d] \in Status => last'[w][d] = status'[d]
      <4>1. CASE d = e.name
        BY <1>8, <1>12, <2>1, <2>2, <4>1
      <4>2. CASE d # e.name
        BY <1>8, <1>11, <2>1, <2>2, <4>2
      <4> QED
        BY <4>1, <4>2
    <3> QED
      BY <3>1, <3>2, <3>3
  <2>3. CASE d # D
    <3>1. d # e.name /\ d \notin Passes(w, e)
      BY <1>10, <1>11, <2>1, <2>3
    <3>2. /\ status'[d] = status[d]
          /\ \A u \in Worker :
               last'[u][d] = last[u][d] /\ (d \in passed'[u] <=> d \in passed[u])
      BY <1>6, <1>8, <1>12, <2>1, <2>3, <3>1
    <3>3. d \notin passed'[v] /\ last'[v][d] \in Status => last'[v][d] = status'[d]
      BY <2>1, <3>2 DEF IndInv, CacheAgrees
    <3>4. ASSUME Committing(v, d)'
          PROVE  Committing(v, d) /\ task'[v].prev = status'[d]
      <4>1. Committing(v, d) /\ task'[v] = task[v]
        BY <1>16, <2>1, <3>4
      <4>2. task[v].prev = status[d]
        BY <2>1, <4>1 DEF IndInv, CacheAgrees
      <4> QED
        BY <3>2, <4>1, <4>2
    <3>5. ASSUME Committing(v, d)', NEW u \in Worker \ {v}
          PROVE  last'[u][d] \notin Status /\ ~Committing(u, d)'
      BY <1>16, <2>1, <3>2, <3>4, <3>5 DEF IndInv, OneWriter
    <3> QED
      BY <3>3, <3>4, <3>5
  <2> QED
    BY <2>2, <2>3
<1>18. CacheAgrees' /\ OneWriter'
  BY <1>17 DEF CacheAgrees, OneWriter, Committing
<1> QED
  BY <1>13, <1>14, <1>15, <1>18 DEF IndInv

(* The end of a handler keeps what there is.                               *)
LEMMA FinishedStep ==
  ASSUME IndInv, TypeOK', NEW w \in Worker, NEW e \in OnLog, Finish(w, e),
         UNCHANGED <<status, last, told, disturbed, passed>>
  PROVE  IndInv'
<1>1. TypeOK
  BY DEF IndInv
<1>2. task'[w].at = "idle" /\ \A v \in Worker \ {w} : task'[v] = task[v]
  BY <1>1, FinishFacts
<1>3. \A v \in Worker :
        /\ task'[v].at = "commit" => task'[v] = task[v]
        /\ task'[v].at = "publish" => task'[v].event.name \in Name
  BY <1>2 DEF IndInv, CommitsStatus
<1>4. ToldIsUp'
  BY DEF IndInv, ToldIsUp
<1> QED
  BY <1>3, <1>4, QuietStep

LEMMA PublishStep ==
  ASSUME IndInv, NEW w \in Worker, Publish(w)
  PROVE  IndInv'
<1>1. TypeOK
  BY DEF IndInv
<1>2. task[w].event \in OnLog /\ task[w].event.name \in Name
  BY <1>1, TaskFacts DEF Publish, IndInv, CommitsStatus
<1> DEFINE e == Request(task[w].event.name)
<1>3. e \in OnLog
  BY <1>2 DEF OnLog
<1>4. log' = log \/ log' = [log EXCEPT ![e] = @ + 1]
  BY DEF Publish
<1>5. /\ Finish(w, task[w].event)
      /\ UNCHANGED <<reports, status, last, told, disturbed, passed>>
  BY DEF Publish, history
<1> HIDE DEF e
<1>6. log' \in [OnLog -> Nat]
  <2>1. log \in [OnLog -> Nat]
    BY <1>1 DEF TypeOK
  <2>2. [log EXCEPT ![e] = @ + 1] \in [OnLog -> Nat]
    BY <1>3, <2>1, Increment
  <2> QED
    BY <1>4, <2>1, <2>2
<1>7. TypeOK'
  BY <1>1, <1>2, <1>5, <1>6, FinishFacts DEF TypeOK
<1> QED
  BY <1>1, <1>2, <1>5, <1>7, FinishedStep

LEMMA BeginRefreshStep ==
  ASSUME IndInv, NEW w \in Worker, NEW n \in Name, BeginRefresh(w, n)
  PROVE  IndInv'
<1>1. TypeOK /\ Request(n) \in OnLog
  BY DEF IndInv, OnLog
<1>2. UNCHANGED <<log, reports, status, last, told, disturbed, passed>>
  BY DEF BeginRefresh, history
<1> DEFINE t == [at |-> "refresh", event |-> Request(n), prev |-> ""]
<1>3. t \in Task /\ t.at = "refresh"
  BY <1>1 DEF Task
<1>4. CASE task' = [task EXCEPT ![w] = t] /\ done' = done
  <2> HIDE DEF t
  <2>1. TypeOK'
    BY <1>1, <1>2, <1>3, <1>4 DEF TypeOK
  <2>2. task'[w].at = "refresh" /\ \A v \in Worker \ {w} : task'[v] = task[v]
    BY <1>1, <1>3, <1>4 DEF TypeOK
  <2>3. \A v \in Worker :
          /\ task'[v].at = "commit" => task'[v] = task[v]
          /\ task'[v].at = "publish" => task'[v].event.name \in Name
    BY <2>2 DEF IndInv, CommitsStatus
  <2>4. ToldIsUp'
    BY <1>2 DEF IndInv, ToldIsUp
  <2> QED
    BY <1>2, <2>1, <2>3, <2>4, QuietStep
<1>5. CASE Finish(w, Request(n))
  <2>1. TypeOK'
    BY <1>1, <1>2, <1>5, FinishFacts DEF TypeOK
  <2> QED
    BY <1>1, <1>2, <1>5, <2>1, FinishedStep
<1> QED
  BY <1>4, <1>5 DEF BeginRefresh

LEMMA EndRefreshStep ==
  ASSUME IndInv, NEW w \in Worker, EndRefresh(w)
  PROVE  IndInv'
<1>1. TypeOK
  BY DEF IndInv
<1>2. task[w].event \in OnLog
  BY <1>1, TaskFacts DEF EndRefresh
<1>3. /\ Finish(w, task[w].event)
      /\ UNCHANGED <<log, reports, status, last, told, disturbed, passed>>
  BY DEF EndRefresh, history
<1>4. TypeOK'
  BY <1>1, <1>2, <1>3, FinishFacts DEF TypeOK
<1> QED
  BY <1>1, <1>2, <1>3, <1>4, FinishedStep

LEMMA HandlerFailsStep ==
  ASSUME IndInv, NEW w \in Worker, HandlerFails(w)
  PROVE  IndInv'
<1> DEFINE e == task[w].event
           D == e.device
<1>1. TypeOK /\ task[w].at = "commit"
  BY DEF IndInv, HandlerFails
<1>2. D \in Device /\ e.status \in Status
  BY <1>1 DEF IndInv, CommitsStatus, GivesStatus
<1>3. /\ status' \in {status, [status EXCEPT ![D] = e.status]}
      /\ disturbed' = disturbed \cup {D}
      /\ task' = [task EXCEPT ![w] = Idle]
      /\ UNCHANGED <<log, reports, last, done, told, passed>>
  BY DEF HandlerFails
<1> HIDE DEF e, D
<1>4. TypeOK' /\ ToldIsUp'
  BY <1>1, <1>2, <1>3 DEF IndInv, TypeOK, ToldIsUp
<1>5. task'[w].at = "idle" /\ \A v \in Worker \ {w} : task'[v] = task[v]
  BY <1>1, <1>3, IdleFact DEF TypeOK
<1>6. \A v \in Worker :
        /\ task'[v].at = "commit" => task'[v] = task[v]
        /\ task'[v].at = "publish" => task'[v].event.name \in Name
  BY <1>5 DEF IndInv, CommitsStatus
<1>7. \A d \in Device \ disturbed' : d \in Device \ disturbed /\ status'[d] = status[d]
  BY <1>1, <1>2, <1>3 DEF TypeOK
<1> QED
  BY <1>3, <1>4, <1>6, <1>7, QuietStep

LEMMA RestartStep ==
  ASSUME IndInv, NEW w \in Worker, Restart(w)
  PROVE  IndInv'
<1>1. TypeOK
  BY DEF IndInv
<1>2. TypeOK'
  BY <1>1 DEF TypeOK, Restart, Given
<1>3. /\ task'[w].at = "idle" /\ told'[w] = {}
      /\ \A d \in Device : last'[w][d] = ""
      /\ \A v \in Worker \ {w} :
           /\ task'[v] = task[v] /\ told'[v] = told[v]
           /\ last'[v] = last[v] /\ passed'[v] = passed[v]
  BY <1>1, IdleFact, DiscoveryAssumption DEF TypeOK, Restart
<1>4. "" \notin Status
  BY DEF Status
<1>5. ToldIsUp'
  <2> SUFFICES ASSUME NEW v \in Worker, NEW n \in told'[v]
               PROVE  last'[v][n] = "up"
    BY DEF ToldIsUp
  <2>1. v # w
    BY <1>3
  <2>2. n \in told[v] /\ last'[v] = last[v]
    BY <1>3, <2>1
  <2>3. last[v][n] = "up"
    BY <2>2 DEF IndInv, ToldIsUp
  <2> QED
    BY <2>2, <2>3
<1>6. \A v \in Worker :
        /\ task'[v].at = "commit" => task'[v] = task[v]
        /\ task'[v].at = "publish" => task'[v].event.name \in Name
        /\ \A d \in Device :
             \/ last'[v][d] \notin Status
             \/ last'[v][d] = last[v][d] /\ (d \in passed[v] => d \in passed'[v])
  BY <1>3, <1>4 DEF IndInv, CommitsStatus
<1>7. UNCHANGED <<status, disturbed>>
  BY DEF Restart
<1> QED
  BY <1>2, <1>5, <1>6, <1>7, QuietStep

-----------------------------------------------------------------------------
LEMMA NextIndInv == IndInv /\ [Next]_vars => IndInv'
<1> SUFFICES ASSUME IndInv, [Next]_vars
             PROVE  IndInv'
  OBVIOUS
<1>1. ASSUME NEW e \in Reports, Report(e)
      PROVE  IndInv'
  BY <1>1, ReportStep
<1>2. ASSUME NEW d \in Device, NEW s \in Status, Edit(d, s)
      PROVE  IndInv'
  BY <1>2, EditStep
<1>3. ASSUME NEW w \in Worker, Handle(w)
      PROVE  IndInv'
  BY <1>3, BeginStatusStep, BeginRequestStep, CommitStatusStep, HandlerFailsStep,
     PublishStep, BeginRefreshStep, EndRefreshStep, RestartStep DEF Handle
<1>4. CASE UNCHANGED vars
  <2>1. TypeOK' /\ ToldIsUp'
    BY <1>4 DEF vars, history, IndInv, TypeOK, ToldIsUp
  <2>2. \A v \in Worker : task[v].at = "publish" => task[v].event.name \in Name
    BY DEF IndInv, CommitsStatus
  <2> QED
    BY <1>4, <2>1, <2>2, QuietStep DEF vars, history
<1> QED
  BY <1>1, <1>2, <1>3, <1>4 DEF Next

(* What the replicas remember agrees with the rows, in every reachable     *)
(* state: the strengthening the properties follow from.                    *)
THEOREM Inductive == Spec => []IndInv
BY InitIndInv, NextIndInv, PTL DEF Spec

(* The log, the rows and what the replicas hold keep their types.          *)
THEOREM TypeCorrect == Spec => []TypeOK
<1>1. IndInv => TypeOK
  BY DEF IndInv
<1> QED
  BY <1>1, Inductive, PTL

-----------------------------------------------------------------------------
(* Only _maybe_emit_refresh makes an announcement, of an id, and unasked   *)
(* only of one that became up.                                             *)
LEMMA AnnounceFacts ==
  ASSUME IndInv, NEW w \in Worker, NEW n \in Name, Next, Announces(w, n)
  PROVE  last[w][n] # "up"
<1>1. TypeOK
  BY DEF IndInv
<1>2. ASSUME NEW e \in OnLog, NEW prev \in Status \cup {""}, DecideToEmit(w, e, prev)
      PROVE  last[w][n] # "up"
  <2>1. task'[w].at = "publish" /\ task'[w].event.name = n /\ ~task'[w].event.requested
    BY DEF Announces
  <2>2. task'[w].event = e /\ (BecameUp(w, e, prev) \/ e.requested)
    BY <1>1, <1>2, <2>1, DecideFacts
  <2> QED
    BY <2>1, <2>2 DEF BecameUp, Known
<1>3. task[w].at # "publish" /\ task'[w].at = "publish"
  BY DEF Announces
<1>4. ASSUME NEW v \in Worker, NEW e \in OnLog, Finish(v, e)
      PROVE  FALSE
  BY <1>1, <1>3, <1>4, FinishFacts
<1>5. ASSUME NEW v \in Worker, task' = [task EXCEPT ![v] = Idle]
      PROVE  FALSE
  BY <1>1, <1>3, <1>5, IdleFact DEF TypeOK
<1>6. ASSUME NEW v \in Worker, NEW e \in OnLog, NEW prev \in Status \cup {""},
             DecideToEmit(v, e, prev)
      PROVE  v = w
  <2>1. \A u \in Worker \ {v} : task'[u] = task[u]
    <3>1. \E t : task' = [task EXCEPT ![v] = t]
      BY <1>6 DEF DecideToEmit, Finish
    <3> QED
      BY <1>1, <3>1 DEF TypeOK
  <2> QED
    BY <1>3, <2>1
<1>7. ASSUME NEW v \in Worker, Handle(v)
      PROVE  last[w][n] # "up"
  <2>1. ASSUME NEW e \in OnLog, BeginStatus(v, e)
        PROVE  last[w][n] # "up"
    BY <1>1, <1>3, <2>1 DEF BeginStatus, TypeOK
  <2>2. ASSUME NEW e \in OnLog, BeginRequest(v, e)
        PROVE  last[w][n] # "up"
    BY <1>2, <1>6, <2>2 DEF BeginRequest
  <2>3. CASE CommitStatus(v)
    <3>1. task[v].event \in OnLog /\ task[v].prev \in Status \cup {""}
      BY <1>1, <2>3, TaskFacts DEF CommitStatus
    <3> QED
      BY <1>2, <1>6, <2>3, <3>1 DEF CommitStatus
  <2>4. CASE HandlerFails(v) \/ Restart(v)
    BY <1>5, <2>4 DEF HandlerFails, Restart
  <2>5. CASE Publish(v) \/ EndRefresh(v)
    <3>1. task[v].event \in OnLog
      BY <1>1, <2>5, TaskFacts DEF Publish, EndRefresh
    <3> QED
      BY <1>4, <2>5, <3>1 DEF Publish, EndRefresh
  <2>6. ASSUME NEW m \in Name, BeginRefresh(v, m)
        PROVE  last[w][n] # "up"
    <3> DEFINE t == [at |-> "refresh", event |-> Request(m), prev |-> ""]
    <3>1. Request(m) \in OnLog /\ t.at = "refresh"
      BY DEF OnLog
    <3>2. Finish(v, Request(m)) \/ task' = [task EXCEPT ![v] = t]
      BY <2>6 DEF BeginRefresh
    <3> HIDE DEF t
    <3> QED
      BY <1>1, <1>3, <1>4, <3>1, <3>2 DEF TypeOK
  <2> QED
    BY <1>7, <2>1, <2>2, <2>3, <2>4, <2>5, <2>6 DEF Handle
<1>8. ASSUME UNCHANGED task
      PROVE  FALSE
  BY <1>3, <1>8
<1> QED
  BY <1>7, <1>8 DEF Next, Report, Edit

(* A replica announces what an id names once, until it is told something   *)
(* else than up of it, or asked: _last_status carries the decision from one*)
(* report to the next.                                                     *)
THEOREM AnnouncedOnce == Spec => AnnouncesOnce
<1> DEFINE Once == \A w \in Worker, n \in Name : Announces(w, n) => n \notin told[w]
<1>1. IndInv /\ [Next]_vars => [Once]_vars
  BY AnnounceFacts DEF IndInv, ToldIsUp
<1> QED
  BY <1>1, Inductive, PTL DEF Spec, AnnouncesOnce

(* While the reports of a device are one replica's at a time, its row takes*)
(* the status reported, and a report by its id announces it exactly when it*)
(* brings it up; but perhaps not after the replica wrote the row past what *)
(* it remembers, and perhaps once too often after a status that was refused*)
THEOREM AnnouncedTransitions == Spec => AnnouncesTransitions
<1> DEFINE Exact(w, d) ==
      CommitStatus(w) /\ task[w].event.device = d =>
        /\ status'[d] = task[w].event.status
        /\ task[w].event.name = d /\ ~task[w].event.requested /\ d \notin passed[w] =>
             /\ ComesUp(d) => Announces(w, d)
             /\ Announces(w, d) => ComesUp(d) \/ last[w][d] = "refused"
<1>1. ASSUME IndInv, NEW w \in Worker, NEW d \in Device \ disturbed,
             CommitStatus(w), task[w].event.device = d
      PROVE  Exact(w, d)
  <2> DEFINE e == task[w].event
             prev == task[w].prev
  <2>1. TypeOK /\ Committing(w, d) /\ status[d] \in Status /\ d \in Name /\ d # NoName
    BY <1>1, DiscoveryAssumption DEF IndInv, TypeOK, CommitStatus, Committing
  <2>2. prev = status[d]
    BY <1>1, <2>1 DEF IndInv, CacheAgrees
  <2>3. status'[d] = e.status
    BY <1>1, <2>1, <2>2, RowFacts DEF CommitsRow, TypeOK
  <2>4. e \in OnLog /\ prev \in Status \cup {""} /\ DecideToEmit(w, e, prev)
    BY <1>1, <2>1, TaskFacts DEF CommitStatus
  <2>5. ASSUME e.name = d, ~e.requested, d \notin passed[w]
        PROVE  /\ ComesUp(d) => Announces(w, d)
               /\ Announces(w, d) => ComesUp(d) \/ last[w][d] = "refused"
    <3>1. /\ task'[w].at = "publish" => task'[w].event = e
          /\ task'[w].at = "publish" <=> BecameUp(w, e, prev)
      <4> HIDE DEF e, prev
      <4>1. /\ task'[w].at = "publish" => task'[w].event = e
            /\ task'[w].at = "publish" <=>
                 e.name # NoName /\ (BecameUp(w, e, prev) \/ e.requested)
        BY <2>1, <2>4, DecideFacts
      <4> QED
        BY <2>1, <2>5, <4>1
    <3>2. Announces(w, d) <=> BecameUp(w, e, prev)
      BY <1>1, <2>5, <3>1 DEF Announces, CommitStatus
    <3>3. last[w][d] \in Status => last[w][d] = status[d]
      BY <1>1, <2>5 DEF IndInv, CacheAgrees
    <3>4. last[w][d] \in Status \cup {"", "refused"}
      BY <2>1 DEF TypeOK, Given
    <3>5. Known(w, d, prev) = IF last[w][d] = "refused" THEN "refused" ELSE status[d]
      BY <2>2, <3>3, <3>4 DEF Known
    <3>6. BecameUp(w, e, prev) <=> e.status = "up" /\ Known(w, d, prev) # "up"
      BY <2>5 DEF BecameUp
    <3> QED
      BY <2>3, <3>2, <3>5, <3>6 DEF ComesUp
  <2> QED
    BY <2>3, <2>5
<1>2. IndInv => \A w \in Worker, d \in Device \ disturbed : Exact(w, d)
  BY <1>1
<1> HIDE DEF Exact
<1>3. IndInv /\ [Next]_vars =>
        [\A w \in Worker, d \in Device \ disturbed : Exact(w, d)]_vars
  BY <1>2
<1> QED
  BY <1>2, Inductive, PTL DEF AnnouncesTransitions, Exact

(* An announcement means what it says, and comes once.                     *)
THEOREM AnnouncedAsReported == Spec => AnnouncedRightly
  BY AnnouncedOnce, AnnouncedTransitions, PTL DEF AnnouncedRightly

-----------------------------------------------------------------------------
\* A scan holds a write for address a.
WritesTo(s, a) == scan[s] # NoScan /\ scan[s].write[a] # NoWrite

(* A scan never writes an operator's name, and the rows it may rename are  *)
(* not an operator's, unless he wrote them behind its back.                *)
Renames ==
  \A s \in Scan, a \in Address : WritesTo(s, a) =>
    /\ scan[s].write[a].name # "operator"
    /\ scan[s].write[a].name # "keep" /\ device[a] = "operator" => a \in behind[s]

PersistInv == PersistTypeOK /\ Renames

-----------------------------------------------------------------------------
LEMMA ScanForms ==
  ASSUME PersistTypeOK, NEW s \in Scan, scan[s] # NoScan
  PROVE  /\ scan[s] \in Storing
         /\ scan[s].todo \subseteq Address
         /\ scan[s].write \in [Address -> Write \cup {NoWrite}]
         /\ scan[s].at = "persist"
  BY DEF PersistTypeOK, Storing, NoScan

LEMMA NamesWritten ==
  ASSUME PersistTypeOK, NEW s \in Scan, NEW a \in Address, WritesTo(s, a)
  PROVE  scan[s].write[a].name \in DeviceName \cup {"keep"}
  <1>1. scan[s].write \in [Address -> Write \cup {NoWrite}]
    BY ScanForms DEF WritesTo
  <1>2. scan[s].write[a] \in Write
    BY <1>1 DEF WritesTo
  <1> QED
    BY <1>2 DEF Write

LEMMA UpsertedIsWrite ==
  ASSUME PersistTypeOK, NEW a \in Address, NEW named \in BOOLEAN
  PROVE  /\ Upserted(a, named) \in Write
         /\ Upserted(a, named) # NoWrite
         /\ Upserted(a, named).name # "operator"
         /\ device[a] = "operator" => Upserted(a, named).name = "keep"
  BY DEF PersistTypeOK, Upserted, Write, DeviceName, NoWrite, NoDevice

\* The end of a transaction, whatever it has made of the devices.
LEMMA OverKeepsInv ==
  ASSUME PersistInv, NEW s \in Scan, Over(s),
         device' \in [Address -> DeviceName \cup {NoDevice}],
         \A a \in Address : device'[a] = "operator" => device[a] = "operator"
  PROVE  PersistInv'
  <1> USE DEF PersistInv
  <1>1. /\ lock' = [a \in Address |-> IF lock[a] = s THEN Nobody ELSE lock[a]]
        /\ scan' = [scan EXCEPT ![s] = NoScan]
        /\ behind' = [behind EXCEPT ![s] = {}]
    BY DEF Over
  <1>2. /\ scan \in [Scan -> Storing \cup {NoScan}]
        /\ lock \in [Address -> Scan \cup {Nobody}]
        /\ behind \in [Scan -> SUBSET Address]
    BY DEF PersistTypeOK
  <1>3. /\ scan' \in [Scan -> Storing \cup {NoScan}]
        /\ lock' \in [Address -> Scan \cup {Nobody}]
        /\ behind' \in [Scan -> SUBSET Address]
    BY <1>1, <1>2
  <1>4. ASSUME NEW a \in Address, lock'[a] # Nobody
        PROVE  scan'[lock'[a]] # NoScan /\ scan'[lock'[a]].write[a] # NoWrite
    <2>1. lock'[a] = lock[a] /\ lock[a] \in Scan /\ lock[a] # s
      BY <1>1, <1>2, <1>4
    <2>2. scan'[lock[a]] = scan[lock[a]]
      BY <2>1, <1>1, <1>2
    <2>3. scan[lock[a]] # NoScan /\ scan[lock[a]].write[a] # NoWrite
      BY <2>1, <1>4 DEF PersistTypeOK
    <2> QED
      BY <2>1, <2>2, <2>3
  <1>5. PersistTypeOK'
    BY <1>3, <1>4 DEF PersistTypeOK
  <1>6. ASSUME NEW t \in Scan, NEW a \in Address, WritesTo(t, a)'
        PROVE  /\ scan'[t].write[a].name # "operator"
               /\ scan'[t].write[a].name # "keep" /\ device'[a] = "operator" => a \in behind'[t]
    <2>1. t # s
      BY <1>6, <1>1, <1>2 DEF WritesTo
    <2>2. scan'[t] = scan[t] /\ behind'[t] = behind[t]
      BY <2>1, <1>1, <1>2
    <2>3. WritesTo(t, a)
      BY <1>6, <2>2 DEF WritesTo
    <2> QED
      BY <2>2, <2>3 DEF Renames
  <1>7. Renames'
    BY <1>6 DEF Renames
  <1> QED
    BY <1>5, <1>7

LEMMA PersistInitInv == PersistInit => PersistInv
  BY DEF PersistInit, PersistInv, PersistTypeOK, Renames, WritesTo

LEMMA PersistBegins ==
  ASSUME PersistInv, NEW s \in Scan, NEW found \in SUBSET Address, Persist(s, found)
  PROVE  PersistInv'
  <1> USE DEF PersistInv
  <1> DEFINE begun == [at |-> "persist", todo |-> found, write |-> [a \in Address |-> NoWrite]]
  <1>1. /\ scan[s] = NoScan
        /\ scan' = [scan EXCEPT ![s] = begun]
        /\ UNCHANGED <<device, lock, behind>>
    BY DEF Persist
  <1>2. scan \in [Scan -> Storing \cup {NoScan}]
    BY DEF PersistTypeOK
  <1>3. begun \in Storing
    BY DEF Storing
  <1>4. \A a \in Address : begun.write[a] = NoWrite
    OBVIOUS
  <1> HIDE DEF begun
  <1>5. scan' \in [Scan -> Storing \cup {NoScan}] /\ scan'[s] = begun
    BY <1>1, <1>2, <1>3
  <1>6. \A t \in Scan : t # s => scan'[t] = scan[t]
    BY <1>1, <1>2
  <1>7. ASSUME NEW a \in Address, lock[a] # Nobody
        PROVE  scan'[lock[a]] # NoScan /\ scan'[lock[a]].write[a] # NoWrite
    <2>1. lock[a] \in Scan /\ scan[lock[a]] # NoScan /\ scan[lock[a]].write[a] # NoWrite
      BY <1>7 DEF PersistTypeOK
    <2>2. lock[a] # s
      BY <2>1, <1>1
    <2> QED
      BY <2>1, <2>2, <1>6
  <1>8. PersistTypeOK'
    BY <1>1, <1>5, <1>7 DEF PersistTypeOK
  <1>9. \A t \in Scan, a \in Address : WritesTo(t, a)' => WritesTo(t, a) /\ t # s
    BY <1>4, <1>5, <1>6 DEF WritesTo
  <1>10. Renames'
    BY <1>1, <1>6, <1>9 DEF Renames
  <1> QED
    BY <1>8, <1>10

LEMMA UpsertKeepsInv ==
  ASSUME PersistInv, NEW s \in Scan, NEW a \in Address, NEW named \in BOOLEAN, Upsert(s, a, named)
  PROVE  PersistInv'
  <1> USE DEF PersistInv
  <1> DEFINE row == Upserted(a, named)
             next == [at |-> "persist", todo |-> scan[s].todo \ {a},
                      write |-> [scan[s].write EXCEPT ![a] = row]]
  <1>1. /\ scan[s] # NoScan
        /\ scan' = [scan EXCEPT ![s].todo = @ \ {a}, ![s].write[a] = row]
        /\ UNCHANGED <<device, lock, behind>>
    BY DEF Upsert
  <1>2. scan \in [Scan -> Storing \cup {NoScan}]
    BY DEF PersistTypeOK
  <1>3. /\ scan[s] \in Storing
        /\ scan[s].write \in [Address -> Write \cup {NoWrite}]
        /\ scan[s].at = "persist"
    BY <1>1, ScanForms
  <1>4. /\ row \in Write /\ row # NoWrite /\ row.name # "operator"
        /\ device[a] = "operator" => row.name = "keep"
    BY UpsertedIsWrite
  <1> HIDE DEF row
  <1>5. scan'[s] = next
    BY <1>1, <1>2, <1>3 DEF Storing
  <1>6. next \in Storing
    BY <1>3, <1>4 DEF Storing
  <1>7. /\ next.write[a] = row
        /\ \A b \in Address : b # a => next.write[b] = scan[s].write[b]
    BY <1>3
  <1>8. next # NoScan
    BY DEF NoScan
  <1> HIDE DEF next
  <1>9. \A t \in Scan : t # s => scan'[t] = scan[t]
    BY <1>1, <1>2
  <1>10. scan' \in [Scan -> Storing \cup {NoScan}]
    BY <1>1, <1>2, <1>5, <1>6, <1>9
  <1>11. ASSUME NEW b \in Address, lock[b] # Nobody
         PROVE  scan'[lock[b]] # NoScan /\ scan'[lock[b]].write[b] # NoWrite
    <2>1. lock[b] \in Scan /\ scan[lock[b]] # NoScan /\ scan[lock[b]].write[b] # NoWrite
      BY <1>11 DEF PersistTypeOK
    <2>2. CASE lock[b] # s
      BY <2>1, <2>2, <1>9
    <2>3. CASE lock[b] = s
      BY <2>1, <2>3, <1>4, <1>5, <1>7, <1>8
    <2> QED
      BY <2>2, <2>3
  <1>12. PersistTypeOK'
    BY <1>1, <1>10, <1>11 DEF PersistTypeOK
  <1>13. ASSUME NEW t \in Scan, NEW b \in Address, WritesTo(t, b)'
         PROVE  /\ scan'[t].write[b].name # "operator"
                /\ scan'[t].write[b].name # "keep" /\ device'[b] = "operator" => b \in behind'[t]
    <2>1. CASE t # s
      BY <2>1, <1>1, <1>9, <1>13 DEF Renames, WritesTo
    <2>2. CASE t = s /\ b = a
      BY <2>2, <1>1, <1>4, <1>5, <1>7
    <2>3. CASE t = s /\ b # a
      <3>1. scan'[s].write[b] = scan[s].write[b]
        BY <2>3, <1>5, <1>7
      <3>2. WritesTo(s, b)
        BY <2>3, <3>1, <1>1, <1>13 DEF WritesTo
      <3> QED
        BY <2>3, <3>1, <3>2, <1>1 DEF Renames
    <2> QED
      BY <2>1, <2>2, <2>3
  <1>14. Renames'
    BY <1>13 DEF Renames
  <1> QED
    BY <1>12, <1>14

LEMMA FlushKeepsInv ==
  ASSUME PersistInv, NEW s \in Scan, NEW a \in Address, Flush(s, a)
  PROVE  PersistInv'
  <1> USE DEF PersistInv
  <1>1. CASE Over(s)
    BY <1>1, OverKeepsInv DEF Flush, PersistTypeOK
  <1>2. CASE lock' = [lock EXCEPT ![a] = s] /\ UNCHANGED <<scan, behind>>
    <2>1. scan[s] # NoScan /\ scan[s].write[a] # NoWrite /\ UNCHANGED device
      BY DEF Flush, Unflushed
    <2>2. PersistTypeOK'
      BY <1>2, <2>1 DEF PersistTypeOK
    <2>3. Renames'
      BY <1>2, <2>1 DEF Renames, WritesTo
    <2> QED
      BY <2>2, <2>3
  <1> QED
    BY <1>1, <1>2 DEF Flush

LEMMA CommitKeepsInv ==
  ASSUME PersistInv, NEW s \in Scan, CommitScan(s)
  PROVE  PersistInv'
  <1> USE DEF PersistInv
  <1>1. device' = [a \in Address |->
          IF lock[a] = s /\ scan[s].write[a].name # "keep" THEN scan[s].write[a].name ELSE device[a]]
    BY DEF CommitScan
  <1>2. device \in [Address -> DeviceName \cup {NoDevice}]
    BY DEF PersistTypeOK
  <1>3. ASSUME NEW a \in Address, lock[a] = s, scan[s].write[a].name # "keep"
        PROVE  scan[s].write[a].name \in DeviceName /\ scan[s].write[a].name # "operator"
    <2>1. WritesTo(s, a)
      BY <1>3, PersistAssumption DEF PersistTypeOK, WritesTo
    <2> QED
      BY <1>3, <2>1, NamesWritten DEF Renames
  <1>4. device' \in [Address -> DeviceName \cup {NoDevice}]
    BY <1>1, <1>2, <1>3
  <1>5. \A a \in Address : device'[a] = "operator" => device[a] = "operator"
    BY <1>1, <1>3
  <1> QED
    BY <1>4, <1>5, OverKeepsInv DEF CommitScan

LEMMA OperatorKeepsInv ==
  ASSUME PersistInv, NEW a \in Address, NEW name \in {"operator", NoDevice}, Operator(a, name)
  PROVE  PersistInv'
  <1> USE DEF PersistInv
  <1>1. /\ device' = [device EXCEPT ![a] = name]
        /\ behind' = [s \in Scan |->
             IF scan[s] # NoScan /\ scan[s].write[a] # NoWrite THEN behind[s] \cup {a} ELSE behind[s]]
        /\ UNCHANGED <<lock, scan>>
    BY DEF Operator
  <1>2. PersistTypeOK'
    <2>1. device' \in [Address -> DeviceName \cup {NoDevice}]
      BY <1>1 DEF PersistTypeOK, DeviceName
    <2>2. behind' \in [Scan -> SUBSET Address]
      BY <1>1 DEF PersistTypeOK
    <2> QED
      BY <1>1, <2>1, <2>2 DEF PersistTypeOK
  <1>3. ASSUME NEW s \in Scan, NEW b \in Address, WritesTo(s, b)'
        PROVE  /\ scan'[s].write[b].name # "operator"
               /\ scan'[s].write[b].name # "keep" /\ device'[b] = "operator" => b \in behind'[s]
    <2>1. WritesTo(s, b)
      BY <1>1, <1>3 DEF WritesTo
    <2>2. CASE b = a
      BY <1>1, <2>1, <2>2 DEF Renames, WritesTo
    <2>3. CASE b # a
      <3>1. device'[b] = device[b]
        BY <1>1, <2>3 DEF PersistTypeOK
      <3>2. b \in behind[s] => b \in behind'[s]
        BY <1>1
      <3> QED
        BY <1>1, <2>1, <3>1, <3>2 DEF Renames
    <2> QED
      BY <2>2, <2>3
  <1>4. Renames'
    BY <1>3 DEF Renames
  <1> QED
    BY <1>2, <1>4

LEMMA PersistStepInv == PersistInv /\ [PersistNext]_persist_vars => PersistInv'
  <1> SUFFICES ASSUME PersistInv, [PersistNext]_persist_vars
               PROVE  PersistInv'
    OBVIOUS
  <1>1. ASSUME NEW s \in Scan, Goes(s) \/ Breaks(s)
        PROVE  PersistInv'
    <2>1. ASSUME NEW a \in Address, Flush(s, a) PROVE PersistInv'
      BY <2>1, FlushKeepsInv
    <2>2. ASSUME NEW a \in Address, NEW named \in BOOLEAN, Upsert(s, a, named) PROVE PersistInv'
      BY <2>2, UpsertKeepsInv
    <2>3. ASSUME CommitScan(s) PROVE PersistInv'
      BY <2>3, CommitKeepsInv
    <2>4. ASSUME Deadlocked(s) \/ Breaks(s) PROVE PersistInv'
      BY <2>4, OverKeepsInv DEF Deadlocked, Breaks, PersistInv, PersistTypeOK
    <2> QED
      BY <1>1, <2>1, <2>2, <2>3, <2>4 DEF Goes
  <1>2. ASSUME NEW s \in Scan, NEW found \in SUBSET Address, Persist(s, found)
        PROVE  PersistInv'
    BY <1>2, PersistBegins
  <1>3. ASSUME NEW a \in Address, NEW name \in {"operator", NoDevice}, Operator(a, name)
        PROVE  PersistInv'
    BY <1>3, OperatorKeepsInv
  <1>4. CASE UNCHANGED persist_vars
    BY <1>4 DEF persist_vars, PersistInv, PersistTypeOK, Renames, WritesTo
  <1> QED
    BY <1>1, <1>2, <1>3, <1>4 DEF PersistNext

LEMMA PersistInvariant == PersistSpec => []PersistInv
  BY PersistInitInv, PersistStepInv, PTL DEF PersistSpec

(* Every variable has its type, and who holds a lock has a write for it.   *)
THEOREM PersistTypeCorrect == PersistSpec => []PersistTypeOK
  <1>1. PersistInv => PersistTypeOK
    BY DEF PersistInv
  <1> QED
    BY <1>1, PersistInvariant, PTL

\* Only a commit renames a device, and it knows of the operator's names.
LEMMA OnlyCommitsRename ==
  ASSUME PersistInv, [PersistNext]_persist_vars, NEW a \in Address,
         device[a] = "operator", device'[a] \notin {"operator", NoDevice}
  PROVE  \E s \in Scan : lock[a] = s /\ a \in behind[s]
  <1>1. device' # device
    OBVIOUS
  <1>2. ASSUME NEW b \in Address, NEW name \in {"operator", NoDevice}, Operator(b, name)
        PROVE  FALSE
    BY <1>2 DEF Operator, PersistInv, PersistTypeOK
  <1>3. PICK s \in Scan : CommitScan(s)
    BY <1>1, <1>2 DEF PersistNext, Goes, Persist, Flush, Upsert, Deadlocked, Breaks, persist_vars
  <1>4. lock[a] = s /\ scan[s].write[a].name # "keep"
    BY <1>3 DEF CommitScan
  <1>5. WritesTo(s, a)
    BY <1>4, PersistAssumption DEF PersistInv, PersistTypeOK, WritesTo
  <1>6. a \in behind[s]
    BY <1>4, <1>5 DEF PersistInv, Renames
  <1> QED
    BY <1>4, <1>6

(* A name an operator gave is only replaced by a scan that had read the    *)
(* row before he gave it.                                                  *)
THEOREM OperatorNamesKept == PersistSpec => NamesKept
  <1>1. PersistInv /\ [PersistNext]_persist_vars =>
          [\A a \in Address :
             device[a] = "operator" /\ device'[a] \notin {"operator", NoDevice}
               => \E s \in Scan : lock[a] = s /\ a \in behind[s]]_persist_vars
    BY OnlyCommitsRename
  <1> QED
    BY <1>1, PersistInvariant, PTL DEF PersistSpec, NamesKept

=============================================================================
