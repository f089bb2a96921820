----------------------- MODULE AlarmCorrelatorProofs ------------------------
(***************************************************************************)
(* Theorems about AlarmCorrelator, for any number of handler tasks,        *)
(* consumers, keys, hosts and events; and about AlarmRules, for any rules, *)
(* traps and alarms.                                                       *)
(***************************************************************************)
EXTENDS AlarmCorrelator, AlarmRules, FiniteSetTheorems, WellFoundedInduction,
        TLAPS

(* A task about to update or clear knows a row, and never a count above    *)
(* the raises committed to it.                                             *)
TasksKnowRows ==
  \A h \in Handler : task[h].at \in {"update", "clear"} =>
    /\ task[h].row \in Rows
    /\ task[h].count <= hits[task[h].row]

(* So does a consumer; and its copy was active.                            *)
CopiesKnowRows ==
  \A c \in Consumer : copy[c] # None =>
    /\ copy[c].id \in Rows
    /\ copy[c].row.count <= hits[copy[c].id]
    /\ copy[c].row.state = "active"

(* Nobody is going to commit to a row an operator parked.                  *)
HeldUnclaimed == \A r \in held : ~Claimed(r)

IndInv ==
  /\ TypeOK
  /\ TasksKnowRows
  /\ CopiesKnowRows
  /\ NeverOvercounts
  /\ HeldUnclaimed
  /\ OperatorDecides
  /\ DuplicatesBounded

-----------------------------------------------------------------------------
(* Raised(k) and Inserting(k) are finite: rows are numbered, and the tasks *)
(* are finitely many.                                                      *)
LEMMA RaisedFinite ==
  ASSUME TypeOK, NEW k \in Key
  PROVE  /\ IsFiniteSet(Raised(k)) /\ Cardinality(Raised(k)) \in Nat
         /\ IsFiniteSet(Inserting(k)) /\ Cardinality(Inserting(k)) \in Nat
         /\ Cardinality(Inserting(k)) <= Cardinality(Handler)
<1>1. Len(alarms) \in Nat /\ Rows = 1..Len(alarms)
  BY DEF TypeOK, Rows
<1>2. IsFiniteSet(1..Len(alarms))
  BY <1>1, FS_Interval
<1>3. Raised(k) \subseteq 1..Len(alarms)
  BY <1>1 DEF Raised, Active
<1>4. Inserting(k) \subseteq Handler
  BY DEF Inserting, At
<1>5. IsFiniteSet(Handler)
  BY AlarmAssumption
<1>6. IsFiniteSet(Raised(k)) /\ Cardinality(Raised(k)) \in Nat
  BY <1>2, <1>3, FS_Subset, FS_CardinalityType
<1>7. IsFiniteSet(Inserting(k)) /\ Cardinality(Inserting(k)) <= Cardinality(Handler)
  BY <1>4, <1>5, FS_Subset
<1>8. Cardinality(Inserting(k)) \in Nat
  BY <1>7, FS_CardinalityType
<1> QED
  BY <1>6, <1>7, <1>8

(* A step that raises no alarm and starts no insert leaves the bound.      *)
LEMMA BoundKept ==
  ASSUME TypeOK, DuplicatesBounded,
         \A k \in Key : Raised(k)' \subseteq Raised(k) /\ Inserting(k)' \subseteq Inserting(k)
  PROVE  DuplicatesBounded'
<1> SUFFICES ASSUME NEW k \in Key
             PROVE  Cardinality(Raised(k)') + Cardinality(Inserting(k)') <= Cardinality(Handler)
  BY DEF DuplicatesBounded
<1>1. /\ Cardinality(Raised(k)') <= Cardinality(Raised(k))
      /\ IsFiniteSet(Raised(k)')
  BY RaisedFinite, FS_Subset
<1>2. /\ Cardinality(Inserting(k)') <= Cardinality(Inserting(k))
      /\ IsFiniteSet(Inserting(k)')
  BY RaisedFinite, FS_Subset
<1>3. Cardinality(Raised(k)') \in Nat /\ Cardinality(Inserting(k)') \in Nat
  BY <1>1, <1>2, FS_CardinalityType
<1>4. Cardinality(Handler) \in Nat
  BY AlarmAssumption, FS_CardinalityType
<1>5. Cardinality(Raised(k)) + Cardinality(Inserting(k)) <= Cardinality(Handler)
  BY DEF DuplicatesBounded
<1> QED
  BY <1>1, <1>2, <1>3, <1>4, <1>5, RaisedFinite

(* A task that is not idle has a task's fields.                            *)
LEMMA NotIdle ==
  ASSUME TypeOK, NEW h \in Handler, task[h].at # "idle"
  PROVE  task[h] \in Task /\ task[h] # Idle
BY DEF TypeOK, Idle

(* What an operator's call does to the rows.                               *)
LEMMA DecidedRows ==
  ASSUME TypeOK, NEW S \in SUBSET Rows, NEW state \in State, NEW lost \in BOOLEAN,
         Decide(S, state, lost)
  PROVE  /\ alarms' \in Seq(Row) /\ Len(alarms') = Len(alarms) /\ Rows' = Rows
         /\ \A r \in Rows :
              /\ alarms'[r].key = alarms[r].key
              /\ alarms'[r].count = alarms[r].count
              /\ alarms'[r].state = IF r \in S THEN state ELSE alarms[r].state
<1> DEFINE new(r) == IF r \in S THEN [alarms[r] EXCEPT !.state = state, !.enriched = @ /\ ~lost]
                     ELSE alarms[r]
<1>1. Len(alarms) \in Nat /\ Rows = 1..Len(alarms) /\ alarms \in [1..Len(alarms) -> Row]
  BY DEF TypeOK, Rows
<1>2. alarms' = [r \in 1..Len(alarms) |-> new(r)]
  BY <1>1 DEF Decide
<1>3. ASSUME NEW r \in 1..Len(alarms)
      PROVE  /\ new(r) \in Row
             /\ new(r).key = alarms[r].key
             /\ new(r).count = alarms[r].count
             /\ new(r).state = IF r \in S THEN state ELSE alarms[r].state
  <2>1. alarms[r] \in Row
    BY <1>1
  <2> QED
    BY <2>1 DEF Row
<1> HIDE DEF new
<1>4. alarms' \in [1..Len(alarms) -> Row]
  BY <1>2, <1>3
<1>5. alarms' \in Seq(Row) /\ Len(alarms') = Len(alarms)
  BY <1>1, <1>4
<1>6. Rows' = Rows
  BY <1>1, <1>5 DEF Rows
<1> QED
  BY <1>1, <1>2, <1>3, <1>5, <1>6

(* Each action keeps IndInv.                                               *)
LEMMA ReceiveStep ==
  ASSUME IndInv, NEW h \in Handler, NEW k \in Key, NEW clears \in BOOLEAN,
         Receive(h, k, clears)
  PROVE  IndInv'
<1> USE DEF IndInv
<1>1. TypeOK'
  BY DEF TypeOK, Rows, history, work, Receive, MixIf, Task, Idle
<1>2. TasksKnowRows'
  BY DEF TypeOK, TasksKnowRows, Rows, Idle, history, work, Receive, MixIf, Task, Idle
<1>3. CopiesKnowRows'
  BY DEF TypeOK, CopiesKnowRows, Rows, Copy, None, history, work, Receive, MixIf, Task, Idle
<1>4. NeverOvercounts'
  BY DEF TypeOK, TasksKnowRows, CopiesKnowRows, NeverOvercounts, Rows, Row, history, work, Receive, MixIf, Task, Idle
<1>5. HeldUnclaimed'
  BY DEF TypeOK, OperatorDecides, HeldUnclaimed, Claimed, Rows, Row, history, work, Receive, MixIf, Task, Idle
<1>6. OperatorDecides'
  BY DEF TypeOK, HeldUnclaimed, Claimed, OperatorDecides, Rows, Row, history, work, Receive, MixIf, Task, Idle
<1>7. DuplicatesBounded'
  <2>1. \A j \in Key : Raised(j)' \subseteq Raised(j) /\ Inserting(j)' \subseteq Inserting(j)
    BY DEF TypeOK, Raised, Active, Rows, Inserting, At, Idle, history, work, Receive, MixIf, Task, Idle
  <2> QED
    BY <2>1, BoundKept
<1> QED
  BY <1>1, <1>2, <1>3, <1>4, <1>5, <1>6, <1>7 DEF IndInv

LEMMA FindActiveStep ==
  ASSUME IndInv, NEW h \in Handler, NEW r \in Rows, FindActive(h, r)
  PROVE  IndInv'
<1> USE DEF IndInv
<1>1. TypeOK'
  <2>1. task[h] \in Task /\ alarms[r] \in Row /\ r \in Nat
    BY NotIdle DEF TypeOK, Rows, FindActive
  <2>2. PICK where \in {"update", "clear"} :
          task' = [task EXCEPT ![h].at = where, ![h].row = r, ![h].count = alarms[r].count,
                               ![h].enriched = alarms[r].enriched]
    BY DEF FindActive
  <2>3. [task[h] EXCEPT !.at = where, !.row = r, !.count = alarms[r].count,
                        !.enriched = alarms[r].enriched] \in Task
    BY <2>1 DEF Task, Row
  <2>4. task' \in [Handler -> Task \cup {Idle}]
    BY <2>2, <2>3 DEF TypeOK
  <2> QED
    BY <2>4 DEF TypeOK, Rows, history, FindActive
<1>2. TasksKnowRows'
  <2>1. task[h] \in Task
    BY NotIdle DEF FindActive
  <2>2. \A g \in Handler : g # h => task'[g] = task[g]
    BY DEF FindActive, TypeOK
  <2>3. task'[h].row = r /\ task'[h].count = alarms[r].count
    BY <2>1 DEF FindActive, TypeOK, Task
  <2> QED
    BY <2>2, <2>3 DEF TasksKnowRows, NeverOvercounts, Rows, history, FindActive
<1>3. CopiesKnowRows'
  BY DEF TypeOK, CopiesKnowRows, Rows, Copy, None, history, work, FindActive, Active, Row, Task, Idle
<1>4. NeverOvercounts'
  BY DEF TypeOK, TasksKnowRows, CopiesKnowRows, NeverOvercounts, Rows, Row, history, work, FindActive, Active, Row, Task, Idle
<1>5. HeldUnclaimed'
  <2>1. r \notin held
    BY DEF OperatorDecides, FindActive, Active
  <2>2. task[h] \in Task
    BY NotIdle DEF FindActive
  <2>3. \A g \in Handler : g # h => task'[g] = task[g]
    BY DEF FindActive, TypeOK
  <2>4. task'[h].row = r
    BY <2>2 DEF FindActive, TypeOK, Task
  <2> QED
    BY <2>1, <2>3, <2>4 DEF HeldUnclaimed, Claimed, history, FindActive
<1>6. OperatorDecides'
  BY DEF TypeOK, HeldUnclaimed, Claimed, OperatorDecides, Rows, Row, history, work, FindActive, Active, Row, Task, Idle
<1>7. DuplicatesBounded'
  <2>1. \A k \in Key : Raised(k)' \subseteq Raised(k) /\ Inserting(k)' \subseteq Inserting(k)
    BY DEF TypeOK, Raised, Active, Rows, Inserting, At, Idle, history, work, FindActive, Active, Row, Task, Idle
  <2> QED
    BY <2>1, BoundKept
<1> QED
  BY <1>1, <1>2, <1>3, <1>4, <1>5, <1>6, <1>7 DEF IndInv

LEMMA FindNoneStep ==
  ASSUME IndInv, NEW h \in Handler, FindNone(h)
  PROVE  IndInv'
<1> USE DEF IndInv
<1>1. TypeOK'
  <2>1. task[h] \in Task
    BY NotIdle DEF FindNone
  <2>2. [task[h] EXCEPT !.at = "insert"] \in Task
    BY <2>1 DEF Task
  <2>3. task' = [task EXCEPT ![h] = Idle] \/ task' = [task EXCEPT ![h] = [task[h] EXCEPT !.at = "insert"]]
    BY DEF FindNone
  <2>4. task' \in [Handler -> Task \cup {Idle}]
    BY <2>2, <2>3 DEF TypeOK
  <2>5. streak' \in [Key -> Nat]
    BY DEF TypeOK, FindNone
  <2> QED
    BY <2>4, <2>5 DEF TypeOK, Rows, FindNone
<1>2. TasksKnowRows'
  <2>1. \A g \in Handler : g # h => task'[g] = task[g]
    BY DEF FindNone, TypeOK
  <2>2. task[h] \in Task
    BY NotIdle DEF FindNone
  <2>3. task'[h].at \in {"idle", "insert"}
    BY <2>2 DEF FindNone, TypeOK, Idle, Task
  <2> QED
    BY <2>1, <2>3 DEF TasksKnowRows, Rows, FindNone
<1>3. CopiesKnowRows'
  BY DEF TypeOK, CopiesKnowRows, Rows, Copy, None, history, work, FindNone, Task, Idle
<1>4. NeverOvercounts'
  BY DEF TypeOK, TasksKnowRows, CopiesKnowRows, NeverOvercounts, Rows, Row, history, work, FindNone, Task, Idle
<1>5. HeldUnclaimed'
  <2>1. \A g \in Handler : g # h => task'[g] = task[g]
    BY DEF FindNone, TypeOK
  <2>2. task[h] \in Task
    BY NotIdle DEF FindNone
  <2>3. task'[h].at \in {"idle", "insert"}
    BY <2>2 DEF FindNone, TypeOK, Idle, Task
  <2> QED
    BY <2>1, <2>3 DEF HeldUnclaimed, Claimed, FindNone
<1>6. OperatorDecides'
  BY DEF TypeOK, HeldUnclaimed, Claimed, OperatorDecides, Rows, Row, history, work, FindNone, Task, Idle
<1>7. DuplicatesBounded'
  <2>1. PICK key \in Key : task[h] \in Task /\ key = task[h].key
    BY NotIdle DEF FindNone, Task
  <2>2. \A k \in Key : Raised(k)' = Raised(k)
    BY DEF Raised, Active, Rows, FindNone
  <2>3. Raised(key)' = {}
    BY <2>1, <2>2 DEF Raised, FindNone
  <2>4. \A k \in Key : Inserting(k)' \subseteq Handler
    BY DEF Inserting, At
  <2>5. \A k \in Key : k # key => Inserting(k)' \subseteq Inserting(k)
    BY <2>1 DEF TypeOK, Inserting, At, Task, Idle, FindNone
  <2> SUFFICES ASSUME NEW k \in Key
               PROVE  Cardinality(Raised(k)') + Cardinality(Inserting(k)') <= Cardinality(Handler)
    BY DEF DuplicatesBounded
  <2>6. TypeOK'
    BY <1>1
  <2>7. CASE k = key
    <3>1. IsFiniteSet(Handler) /\ Cardinality(Handler) \in Nat
      BY AlarmAssumption, FS_CardinalityType
    <3>2. Cardinality(Inserting(k)') <= Cardinality(Handler) /\ IsFiniteSet(Inserting(k)')
      BY <3>1, <2>4, FS_Subset
    <3>3. Cardinality(Inserting(k)') \in Nat
      BY <3>2, FS_CardinalityType
    <3>4. Cardinality(Raised(k)') = 0
      BY <2>3, <2>7, FS_EmptySet
    <3> QED
      BY <3>1, <3>2, <3>3, <3>4
  <2>8. CASE k # key
    <3>1. /\ Cardinality(Inserting(k)') <= Cardinality(Inserting(k))
          /\ IsFiniteSet(Inserting(k)')
      BY <2>5, <2>8, RaisedFinite, FS_Subset
    <3>2. Cardinality(Inserting(k)') \in Nat
      BY <3>1, FS_CardinalityType
    <3>3. Cardinality(Raised(k)') = Cardinality(Raised(k))
      BY <2>2
    <3>4. Cardinality(Handler) \in Nat
      BY AlarmAssumption, FS_CardinalityType
    <3> QED
      BY <3>1, <3>2, <3>3, <3>4, RaisedFinite DEF DuplicatesBounded
  <2> QED
    BY <2>7, <2>8
<1> QED
  BY <1>1, <1>2, <1>3, <1>4, <1>5, <1>6, <1>7 DEF IndInv

LEMMA CommitInsertStep ==
  ASSUME IndInv, NEW h \in Handler, CommitInsert(h)
  PROVE  IndInv'
<1> USE DEF IndInv
<1>1. TypeOK'
  <2>1. task[h] \in Task
    BY NotIdle DEF CommitInsert
  <2>2. [key |-> task[h].key, state |-> "active", count |-> 1, enriched |-> FALSE] \in Row
    BY <2>1 DEF Task, Row, State
  <2>3. alarms' \in Seq(Row) /\ Len(alarms') = Len(alarms) + 1
    BY <2>2 DEF CommitInsert, TypeOK
  <2>4. hits' \in Seq(Nat) /\ Len(hits') = Len(hits) + 1
    BY DEF CommitInsert, TypeOK
  <2>5. Rows \subseteq Rows'
    BY <2>3 DEF TypeOK, Rows
  <2>6. task' \in [Handler -> Task \cup {Idle}] /\ streak' \in [Key -> Nat]
    BY <2>1 DEF CommitInsert, TypeOK, Task
  <2> QED
    BY <2>3, <2>4, <2>5, <2>6 DEF CommitInsert, TypeOK
<1>2. TasksKnowRows'
  BY DEF TypeOK, TasksKnowRows, Rows, Idle, history, work, CommitInsert, Task, Idle, Row
<1>3. CopiesKnowRows'
  BY DEF TypeOK, CopiesKnowRows, Rows, Copy, None, history, work, CommitInsert, Task, Idle, Row
<1>4. NeverOvercounts'
  BY DEF TypeOK, TasksKnowRows, CopiesKnowRows, NeverOvercounts, Rows, Row, history, work, CommitInsert, Task, Idle, Row
<1>5. HeldUnclaimed'
  BY DEF TypeOK, OperatorDecides, HeldUnclaimed, Claimed, Rows, Row, history, work, CommitInsert, Task, Idle, Row
<1>6. OperatorDecides'
  BY DEF TypeOK, HeldUnclaimed, Claimed, OperatorDecides, Rows, Row, history, work, CommitInsert, Task, Idle, Row
<1>7. DuplicatesBounded'
  <2>1. PICK key \in Key : task[h] \in Task /\ key = task[h].key /\ h \in Inserting(key)
    BY NotIdle DEF CommitInsert, Task, Inserting, At
  <2>2. PICK new \in Nat : /\ new = Len(alarms) + 1 /\ Rows = 1..Len(alarms)
                          /\ Len(alarms) \in Nat /\ Rows' = 1..new
    BY DEF TypeOK, Rows, CommitInsert
  <2>3. \A r \in Rows : alarms'[r] = alarms[r]
    BY <2>2 DEF TypeOK, CommitInsert
  <2>4. alarms'[new].key = key
    BY <2>1, <2>2 DEF TypeOK, CommitInsert
  <2>5. Raised(key)' \subseteq Raised(key) \cup {new}
    BY <2>2, <2>3 DEF Raised, Active, CommitInsert
  <2>6. \A k \in Key : k # key => Raised(k)' \subseteq Raised(k)
    BY <2>2, <2>3, <2>4 DEF Raised, Active, CommitInsert
  <2>7. \A k \in Key : Inserting(k)' \subseteq Inserting(k)
    BY DEF TypeOK, Inserting, At, Idle, CommitInsert
  <2>8. Inserting(key)' \subseteq Inserting(key) \ {h}
    BY <2>1, <2>7 DEF TypeOK, Inserting, At, Idle, CommitInsert
  <2> SUFFICES ASSUME NEW k \in Key
               PROVE  Cardinality(Raised(k)') + Cardinality(Inserting(k)') <= Cardinality(Handler)
    BY DEF DuplicatesBounded
  <2>9. Cardinality(Handler) \in Nat
    BY AlarmAssumption, FS_CardinalityType
  <2>10. CASE k = key
    <3>1. /\ IsFiniteSet(Raised(k) \cup {new})
          /\ Cardinality(Raised(k) \cup {new}) <= Cardinality(Raised(k)) + 1
      <4>1. /\ IsFiniteSet(Raised(k) \cup {new})
            /\ \/ Cardinality(Raised(k) \cup {new}) = Cardinality(Raised(k))
               \/ Cardinality(Raised(k) \cup {new}) = Cardinality(Raised(k)) + 1
        BY RaisedFinite, FS_AddElement
      <4>2. Cardinality(Raised(k)) \in Nat
        BY RaisedFinite
      <4> QED
        BY <4>1, <4>2
    <3>2. IsFiniteSet(Raised(k)') /\ Cardinality(Raised(k)') <= Cardinality(Raised(k) \cup {new})
      BY <3>1, <2>5, <2>10, FS_Subset
    <3>3. /\ IsFiniteSet(Inserting(k) \ {h})
          /\ Cardinality(Inserting(k) \ {h}) = Cardinality(Inserting(k)) - 1
      BY <2>1, <2>10, RaisedFinite, FS_RemoveElement
    <3>4. /\ IsFiniteSet(Inserting(k)')
          /\ Cardinality(Inserting(k)') <= Cardinality(Inserting(k) \ {h})
      BY <3>3, <2>8, <2>10, FS_Subset
    <3>5. /\ Cardinality(Raised(k)') \in Nat /\ Cardinality(Inserting(k)') \in Nat
          /\ Cardinality(Raised(k) \cup {new}) \in Nat
      BY <3>1, <3>2, <3>4, FS_CardinalityType
    <3>6. Cardinality(Raised(k)) + Cardinality(Inserting(k)) <= Cardinality(Handler)
      BY DEF DuplicatesBounded
    <3> QED
      BY <3>1, <3>2, <3>3, <3>4, <3>5, <3>6, <2>9, RaisedFinite
  <2>11. CASE k # key
    <3>1. IsFiniteSet(Raised(k)') /\ Cardinality(Raised(k)') <= Cardinality(Raised(k))
      BY <2>6, <2>11, RaisedFinite, FS_Subset
    <3>2. IsFiniteSet(Inserting(k)') /\ Cardinality(Inserting(k)') <= Cardinality(Inserting(k))
      BY <2>7, RaisedFinite, FS_Subset
    <3>3. Cardinality(Raised(k)') \in Nat /\ Cardinality(Inserting(k)') \in Nat
      BY <3>1, <3>2, FS_CardinalityType
    <3>4. Cardinality(Raised(k)) + Cardinality(Inserting(k)) <= Cardinality(Handler)
      BY DEF DuplicatesBounded
    <3> QED
      BY <3>1, <3>2, <3>3, <3>4, <2>9, RaisedFinite
  <2> QED
    BY <2>10, <2>11
<1> QED
  BY <1>1, <1>2, <1>3, <1>4, <1>5, <1>6, <1>7 DEF IndInv

LEMMA CommitUpdateStep ==
  ASSUME IndInv, NEW h \in Handler, CommitUpdate(h)
  PROVE  IndInv'
<1> USE DEF IndInv
<1>1. TypeOK'
  <2>1. task[h] \in Task /\ task[h].row \in Rows
    BY NotIdle DEF CommitUpdate, TasksKnowRows
  <2>2. PICK r \in Rows : r = task[h].row /\ alarms[r] \in Row
    BY <2>1 DEF TypeOK, Rows
  <2>3. PICK n \in Nat, e \in BOOLEAN :
          alarms' = [alarms EXCEPT ![r] = [alarms[r] EXCEPT !.count = n, !.enriched = e]]
    <3>1. PICK e \in {FALSE, ~task[h].enriched /\ alarms[r].enriched} :
            alarms' = [alarms EXCEPT ![r].count = task[h].count + 1, ![r].enriched = e]
      BY <2>2 DEF CommitUpdate
    <3>2. task[h].count + 1 \in Nat /\ e \in BOOLEAN
      <4>1. task[h].count \in Nat
        BY <2>1 DEF Task
      <4>2. alarms[r].enriched \in BOOLEAN /\ task[h].enriched \in BOOLEAN
        BY <2>1, <2>2 DEF Task, Row
      <4>3. e \in BOOLEAN
        BY <3>1, <4>2
      <4> QED
        BY <4>1, <4>3
    <3> QED
      BY <2>2, <3>1, <3>2 DEF TypeOK, Rows
  <2>4. [alarms[r] EXCEPT !.count = n, !.enriched = e] \in Row
    BY <2>2, <2>3 DEF Row
  <2>5. alarms' \in Seq(Row) /\ Len(alarms') = Len(alarms)
    BY <2>3, <2>4 DEF TypeOK, Rows
  <2>6. Rows' = Rows
    BY <2>5 DEF TypeOK, Rows
  <2>7. task' \in [Handler -> Task \cup {Idle}] /\ streak' \in [Key -> Nat]
    BY <2>1 DEF TypeOK, Task, CommitUpdate
  <2>8. hits' \in Seq(Nat) /\ Len(hits') = Len(hits)
    BY <2>2 DEF TypeOK, Rows, CommitUpdate
  <2> QED
    BY <2>5, <2>6, <2>7, <2>8 DEF TypeOK, CommitUpdate
<1>2. TasksKnowRows'
  BY DEF TypeOK, TasksKnowRows, Rows, Idle, history, work, CommitUpdate, Task, Idle, Row
<1>3. CopiesKnowRows'
  BY DEF TypeOK, CopiesKnowRows, Rows, Copy, None, history, work, CommitUpdate, Task, Idle, Row
<1>4. NeverOvercounts'
  BY DEF TypeOK, TasksKnowRows, CopiesKnowRows, NeverOvercounts, Rows, Row, history, work, CommitUpdate, Task, Idle, Row
<1>5. HeldUnclaimed'
  BY DEF TypeOK, OperatorDecides, HeldUnclaimed, Claimed, Rows, Row, history, work, CommitUpdate, Task, Idle, Row
<1>6. OperatorDecides'
  BY DEF TypeOK, HeldUnclaimed, Claimed, OperatorDecides, Rows, Row, history, work, CommitUpdate, Task, Idle, Row
<1>7. DuplicatesBounded'
  <2>1. \A k \in Key : Raised(k)' \subseteq Raised(k) /\ Inserting(k)' \subseteq Inserting(k)
    BY DEF TypeOK, Raised, Active, Rows, Inserting, At, Idle, history, work, CommitUpdate, Task, Idle, Row
  <2> QED
    BY <2>1, BoundKept
<1> QED
  BY <1>1, <1>2, <1>3, <1>4, <1>5, <1>6, <1>7 DEF IndInv

LEMMA CommitClearStep ==
  ASSUME IndInv, NEW h \in Handler, CommitClear(h)
  PROVE  IndInv'
<1> USE DEF IndInv
<1>1. TypeOK'
  <2>1. task[h] \in Task /\ task[h].row \in Rows
    BY NotIdle DEF CommitClear, TasksKnowRows
  <2>2. PICK r \in Rows : r = task[h].row /\ alarms[r] \in Row
    BY <2>1 DEF TypeOK, Rows
  <2>3. alarms' = [alarms EXCEPT ![r] = [alarms[r] EXCEPT !.state = "cleared"]]
    BY <2>2 DEF CommitClear, TypeOK, Rows
  <2>4. [alarms[r] EXCEPT !.state = "cleared"] \in Row
    BY <2>2 DEF Row, State
  <2>5. alarms' \in Seq(Row) /\ Len(alarms') = Len(alarms)
    BY <2>3, <2>4 DEF TypeOK, Rows
  <2>6. Rows' = Rows
    BY <2>5 DEF TypeOK, Rows
  <2>7. task' \in [Handler -> Task \cup {Idle}] /\ streak' \in [Key -> Nat]
    BY <2>1 DEF TypeOK, Task, CommitClear
  <2>8. hits' \in Seq(Nat) /\ Len(hits') = Len(hits)
    BY <2>2 DEF TypeOK, Rows, CommitClear
  <2> QED
    BY <2>5, <2>6, <2>7, <2>8 DEF TypeOK, CommitClear
<1>2. TasksKnowRows'
  BY DEF TypeOK, TasksKnowRows, Rows, Idle, history, work, CommitClear, Task, Idle, Row, State
<1>3. CopiesKnowRows'
  BY DEF TypeOK, CopiesKnowRows, Rows, Copy, None, history, work, CommitClear, Task, Idle, Row, State
<1>4. NeverOvercounts'
  BY DEF TypeOK, TasksKnowRows, CopiesKnowRows, NeverOvercounts, Rows, Row, history, work, CommitClear, Task, Idle, Row, State
<1>5. HeldUnclaimed'
  BY DEF TypeOK, OperatorDecides, HeldUnclaimed, Claimed, Rows, Row, history, work, CommitClear, Task, Idle, Row, State
<1>6. OperatorDecides'
  BY DEF TypeOK, HeldUnclaimed, Claimed, OperatorDecides, Rows, Row, history, work, CommitClear, Task, Idle, Row, State
<1>7. DuplicatesBounded'
  <2>1. \A k \in Key : Raised(k)' \subseteq Raised(k) /\ Inserting(k)' \subseteq Inserting(k)
    BY DEF TypeOK, Raised, Active, Rows, Inserting, At, Idle, history, work, CommitClear, Task, Idle, Row, State
  <2> QED
    BY <2>1, BoundKept
<1> QED
  BY <1>1, <1>2, <1>3, <1>4, <1>5, <1>6, <1>7 DEF IndInv

LEMMA HandlerFailsStep ==
  ASSUME IndInv, NEW h \in Handler, HandlerFails(h)
  PROVE  IndInv'
<1> USE DEF IndInv
<1>1. TypeOK'
  BY DEF TypeOK, Rows, history, work, HandlerFails, Task, Idle
<1>2. TasksKnowRows'
  BY DEF TypeOK, TasksKnowRows, Rows, Idle, history, work, HandlerFails, Task, Idle
<1>3. CopiesKnowRows'
  BY DEF TypeOK, CopiesKnowRows, Rows, Copy, None, history, work, HandlerFails, Task, Idle
<1>4. NeverOvercounts'
  BY DEF TypeOK, TasksKnowRows, CopiesKnowRows, NeverOvercounts, Rows, Row, history, work, HandlerFails, Task, Idle
<1>5. HeldUnclaimed'
  BY DEF TypeOK, OperatorDecides, HeldUnclaimed, Claimed, Rows, Row, history, work, HandlerFails, Task, Idle
<1>6. OperatorDecides'
  BY DEF TypeOK, HeldUnclaimed, Claimed, OperatorDecides, Rows, Row, history, work, HandlerFails, Task, Idle
<1>7. DuplicatesBounded'
  <2>1. \A k \in Key : Raised(k)' \subseteq Raised(k) /\ Inserting(k)' \subseteq Inserting(k)
    BY DEF TypeOK, Raised, Active, Rows, Inserting, At, Idle, history, work, HandlerFails, Task, Idle
  <2> QED
    BY <2>1, BoundKept
<1> QED
  BY <1>1, <1>2, <1>3, <1>4, <1>5, <1>6, <1>7 DEF IndInv

LEMMA AcknowledgeStep ==
  ASSUME IndInv, NEW S \in SUBSET Rows, Acknowledge(S)
  PROVE  IndInv'
<1> USE DEF IndInv
<1>a. /\ Decide(S, "acknowledged", FALSE)
      /\ alarms' \in Seq(Row) /\ Len(alarms') = Len(alarms) /\ Rows' = Rows
      /\ \A x \in Rows :
           /\ alarms'[x].key = alarms[x].key
           /\ alarms'[x].count = alarms[x].count
           /\ alarms'[x].state = IF x \in S THEN "acknowledged" ELSE alarms[x].state
  <2>1. Decide(S, "acknowledged", FALSE)
    BY DEF Acknowledge
  <2>2. PICK T \in SUBSET Rows : T = S
    OBVIOUS
  <2>3. "acknowledged" \in State /\ TypeOK
    BY DEF State
  <2>4. Decide(T, "acknowledged", FALSE)
    BY <2>1, <2>2
  <2> HIDE DEF IndInv
  <2>5. /\ alarms' \in Seq(Row) /\ Len(alarms') = Len(alarms) /\ Rows' = Rows
        /\ \A x \in Rows :
             /\ alarms'[x].key = alarms[x].key
             /\ alarms'[x].count = alarms[x].count
             /\ alarms'[x].state = IF x \in T THEN "acknowledged" ELSE alarms[x].state
    BY <2>3, <2>4, DecidedRows
  <2> QED
    BY <2>1, <2>2, <2>5
<1>1. TypeOK'
  <2>0. ASSUME NEW x \in Rows
        PROVE  alarms[x].key \in Key
    <3>1. alarms[x] \in Row
      BY DEF TypeOK, Rows
    <3> QED
      BY <3>1 DEF Row
  <2>1. mixed' \subseteq Key
    BY <1>a, <2>0 DEF TypeOK, Decide
  <2>2. held' \subseteq Rows' /\ reopened' \subseteq Rows'
    BY <1>a DEF TypeOK, Acknowledge, Park
  <2> QED
    BY <1>a, <2>1, <2>2 DEF TypeOK, Decide, work
<1>2. TasksKnowRows'
  BY <1>a DEF TasksKnowRows, Decide, work
<1>3. CopiesKnowRows'
  BY <1>a DEF CopiesKnowRows, Decide, work
<1>4. NeverOvercounts'
  BY <1>a DEF NeverOvercounts, Decide
<1>5. HeldUnclaimed'
  BY <1>a DEF HeldUnclaimed, Claimed, Decide, work, Acknowledge, Park
<1>6. OperatorDecides'
  BY <1>a DEF OperatorDecides, TypeOK, Acknowledge, Park
<1>7. DuplicatesBounded'
  <2>1. \A k \in Key : Raised(k)' \subseteq Raised(k) /\ Inserting(k)' = Inserting(k)
    BY <1>a DEF Raised, Active, Inserting, At, Decide, work, Acknowledge, Park
  <2> QED
    BY <2>1, BoundKept
<1> QED
  BY <1>1, <1>2, <1>3, <1>4, <1>5, <1>6, <1>7 DEF IndInv

LEMMA SuppressStep ==
  ASSUME IndInv, NEW r \in Rows, NEW lost \in BOOLEAN, Suppress(r, lost)
  PROVE  IndInv'
<1> USE DEF IndInv
<1>a. /\ Decide({r}, "suppressed", lost)
      /\ alarms' \in Seq(Row) /\ Len(alarms') = Len(alarms) /\ Rows' = Rows
      /\ \A x \in Rows :
           /\ alarms'[x].key = alarms[x].key
           /\ alarms'[x].count = alarms[x].count
           /\ alarms'[x].state = IF x \in {r} THEN "suppressed" ELSE alarms[x].state
  <2>1. Decide({r}, "suppressed", lost)
    BY DEF Suppress
  <2>2. PICK T \in SUBSET Rows : T = {r}
    OBVIOUS
  <2>3. "suppressed" \in State /\ TypeOK
    BY DEF State
  <2>4. Decide(T, "suppressed", lost)
    BY <2>1, <2>2
  <2> HIDE DEF IndInv
  <2>5. /\ alarms' \in Seq(Row) /\ Len(alarms') = Len(alarms) /\ Rows' = Rows
        /\ \A x \in Rows :
             /\ alarms'[x].key = alarms[x].key
             /\ alarms'[x].count = alarms[x].count
             /\ alarms'[x].state = IF x \in T THEN "suppressed" ELSE alarms[x].state
    BY <2>3, <2>4, DecidedRows
  <2> QED
    BY <2>1, <2>2, <2>5
<1>1. TypeOK'
  <2>0. ASSUME NEW x \in Rows
        PROVE  alarms[x].key \in Key
    <3>1. alarms[x] \in Row
      BY DEF TypeOK, Rows
    <3> QED
      BY <3>1 DEF Row
  <2>1. mixed' \subseteq Key
    BY <1>a, <2>0 DEF TypeOK, Decide
  <2>2. held' \subseteq Rows' /\ reopened' \subseteq Rows'
    BY <1>a DEF TypeOK, Suppress, Park
  <2> QED
    BY <1>a, <2>1, <2>2 DEF TypeOK, Decide, work
<1>2. TasksKnowRows'
  BY <1>a DEF TasksKnowRows, Decide, work
<1>3. CopiesKnowRows'
  BY <1>a DEF CopiesKnowRows, Decide, work
<1>4. NeverOvercounts'
  BY <1>a DEF NeverOvercounts, Decide
<1>5. HeldUnclaimed'
  BY <1>a DEF HeldUnclaimed, Claimed, Decide, work, Suppress, Park
<1>6. OperatorDecides'
  BY <1>a DEF OperatorDecides, TypeOK, Suppress, Park
<1>7. DuplicatesBounded'
  <2>1. \A k \in Key : Raised(k)' \subseteq Raised(k) /\ Inserting(k)' = Inserting(k)
    BY <1>a DEF Raised, Active, Inserting, At, Decide, work, Suppress, Park
  <2> QED
    BY <2>1, BoundKept
<1> QED
  BY <1>1, <1>2, <1>3, <1>4, <1>5, <1>6, <1>7 DEF IndInv

LEMMA ClearStep ==
  ASSUME IndInv, NEW S \in SUBSET Rows, Clear(S)
  PROVE  IndInv'
<1> USE DEF IndInv
<1>a. /\ Decide(S, "cleared", FALSE)
      /\ alarms' \in Seq(Row) /\ Len(alarms') = Len(alarms) /\ Rows' = Rows
      /\ \A x \in Rows :
           /\ alarms'[x].key = alarms[x].key
           /\ alarms'[x].count = alarms[x].count
           /\ alarms'[x].state = IF x \in S THEN "cleared" ELSE alarms[x].state
  <2>1. Decide(S, "cleared", FALSE)
    BY DEF Clear
  <2>2. PICK T \in SUBSET Rows : T = S
    OBVIOUS
  <2>3. "cleared" \in State /\ TypeOK
    BY DEF State
  <2>4. Decide(T, "cleared", FALSE)
    BY <2>1, <2>2
  <2> HIDE DEF IndInv
  <2>5. /\ alarms' \in Seq(Row) /\ Len(alarms') = Len(alarms) /\ Rows' = Rows
        /\ \A x \in Rows :
             /\ alarms'[x].key = alarms[x].key
             /\ alarms'[x].count = alarms[x].count
             /\ alarms'[x].state = IF x \in T THEN "cleared" ELSE alarms[x].state
    BY <2>3, <2>4, DecidedRows
  <2> QED
    BY <2>1, <2>2, <2>5
<1>1. TypeOK'
  <2>0. ASSUME NEW x \in Rows
        PROVE  alarms[x].key \in Key
    <3>1. alarms[x] \in Row
      BY DEF TypeOK, Rows
    <3> QED
      BY <3>1 DEF Row
  <2>1. mixed' \subseteq Key
    BY <1>a, <2>0 DEF TypeOK, Decide
  <2>2. held' \subseteq Rows' /\ reopened' \subseteq Rows'
    BY <1>a DEF TypeOK, Clear
  <2> QED
    BY <1>a, <2>1, <2>2 DEF TypeOK, Decide, work
<1>2. TasksKnowRows'
  BY <1>a DEF TasksKnowRows, Decide, work
<1>3. CopiesKnowRows'
  BY <1>a DEF CopiesKnowRows, Decide, work
<1>4. NeverOvercounts'
  BY <1>a DEF NeverOvercounts, Decide
<1>5. HeldUnclaimed'
  BY <1>a DEF HeldUnclaimed, Claimed, Decide, work, Clear
<1>6. OperatorDecides'
  BY <1>a DEF OperatorDecides, TypeOK, Clear
<1>7. DuplicatesBounded'
  <2>1. \A k \in Key : Raised(k)' \subseteq Raised(k) /\ Inserting(k)' = Inserting(k)
    BY <1>a DEF Raised, Active, Inserting, At, Decide, work, Clear
  <2> QED
    BY <2>1, BoundKept
<1> QED
  BY <1>1, <1>2, <1>3, <1>4, <1>5, <1>6, <1>7 DEF IndInv

LEMMA UnsuppressStep ==
  ASSUME IndInv, NEW r \in Rows, NEW lost \in BOOLEAN, Unsuppress(r, lost)
  PROVE  IndInv'
<1> USE DEF IndInv
<1>a. /\ Decide({r}, "active", lost)
      /\ alarms' \in Seq(Row) /\ Len(alarms') = Len(alarms) /\ Rows' = Rows
      /\ \A x \in Rows :
           /\ alarms'[x].key = alarms[x].key
           /\ alarms'[x].count = alarms[x].count
           /\ alarms'[x].state = IF x \in {r} THEN "active" ELSE alarms[x].state
  <2>1. Decide({r}, "active", lost)
    BY DEF Unsuppress
  <2>2. PICK T \in SUBSET Rows : T = {r}
    OBVIOUS
  <2>3. "active" \in State /\ TypeOK
    BY DEF State
  <2>4. Decide(T, "active", lost)
    BY <2>1, <2>2
  <2> HIDE DEF IndInv
  <2>5. /\ alarms' \in Seq(Row) /\ Len(alarms') = Len(alarms) /\ Rows' = Rows
        /\ \A x \in Rows :
             /\ alarms'[x].key = alarms[x].key
             /\ alarms'[x].count = alarms[x].count
             /\ alarms'[x].state = IF x \in T THEN "active" ELSE alarms[x].state
    BY <2>3, <2>4, DecidedRows
  <2> QED
    BY <2>1, <2>2, <2>5
<1>1. TypeOK'
  <2>0. ASSUME NEW x \in Rows
        PROVE  alarms[x].key \in Key
    <3>1. alarms[x] \in Row
      BY DEF TypeOK, Rows
    <3> QED
      BY <3>1 DEF Row
  <2>1. mixed' \subseteq Key
    BY <1>a, <2>0 DEF TypeOK, Decide
  <2>2. held' \subseteq Rows' /\ reopened' \subseteq Rows'
    BY <1>a DEF TypeOK, Unsuppress
  <2> QED
    BY <1>a, <2>1, <2>2 DEF TypeOK, Decide, work
<1>2. TasksKnowRows'
  BY <1>a DEF TasksKnowRows, Decide, work
<1>3. CopiesKnowRows'
  BY <1>a DEF CopiesKnowRows, Decide, work
<1>4. NeverOvercounts'
  BY <1>a DEF NeverOvercounts, Decide
<1>5. HeldUnclaimed'
  BY <1>a DEF HeldUnclaimed, Claimed, Decide, work, Unsuppress
<1>6. OperatorDecides'
  BY <1>a DEF OperatorDecides, TypeOK, Unsuppress
<1>7. DuplicatesBounded'
  <2>1. \A k \in Key : Raised(k)' \subseteq Raised(k) /\ Inserting(k)' = Inserting(k)
    BY <1>a DEF Raised, Active, Inserting, At, Decide, work, Unsuppress
  <2> QED
    BY <2>1, BoundKept
<1> QED
  BY <1>1, <1>2, <1>3, <1>4, <1>5, <1>6, <1>7 DEF IndInv

LEMMA EnrichLoadStep ==
  ASSUME IndInv, NEW c \in Consumer, NEW k \in bus, NEW r \in Rows, EnrichLoad(c, k, r)
  PROVE  IndInv'
<1> USE DEF IndInv
<1>1. TypeOK'
  <2>1. alarms[r] \in Row /\ r \in Nat
    BY DEF TypeOK, Rows
  <2>2. [id |-> r, row |-> alarms[r], merging |-> FALSE, writes |-> {}] \in Copy
    BY <2>1 DEF Copy
  <2>3. copy' \in [Consumer -> Copy \cup {None}]
    BY <2>2 DEF TypeOK, EnrichLoad
  <2>4. mixed' \subseteq Key
    BY <2>1 DEF TypeOK, EnrichLoad, MixIf, Row
  <2> QED
    BY <2>3, <2>4 DEF TypeOK, Rows, EnrichLoad
<1>2. TasksKnowRows'
  BY DEF TypeOK, TasksKnowRows, Rows, Idle, history, work, EnrichLoad, MixIf, Row, Copy, None
<1>3. CopiesKnowRows'
  <2>1. copy'[c] = [id |-> r, row |-> alarms[r], merging |-> FALSE, writes |-> {}]
    BY DEF TypeOK, EnrichLoad
  <2>2. \A d \in Consumer : d # c => copy'[d] = copy[d]
    BY DEF TypeOK, EnrichLoad
  <2>3. copy'[c].id = r /\ copy'[c].row = alarms[r] /\ alarms[r].state = "active"
    BY <2>1 DEF EnrichLoad
  <2> QED
    BY <2>2, <2>3 DEF CopiesKnowRows, NeverOvercounts, Rows, EnrichLoad
<1>4. NeverOvercounts'
  BY DEF TypeOK, TasksKnowRows, CopiesKnowRows, NeverOvercounts, Rows, Row, history, work, EnrichLoad, MixIf, Row, Copy, None
<1>5. HeldUnclaimed'
  BY DEF TypeOK, OperatorDecides, HeldUnclaimed, Claimed, Rows, Row, history, work, EnrichLoad, MixIf, Row, Copy, None
<1>6. OperatorDecides'
  BY DEF TypeOK, HeldUnclaimed, Claimed, OperatorDecides, Rows, Row, history, work, EnrichLoad, MixIf, Row, Copy, None
<1>7. DuplicatesBounded'
  <2>1. \A j \in Key : Raised(j)' \subseteq Raised(j) /\ Inserting(j)' \subseteq Inserting(j)
    BY DEF TypeOK, Raised, Active, Rows, Inserting, At, Idle, history, work, EnrichLoad, MixIf, Row, Copy, None
  <2> QED
    BY <2>1, BoundKept
<1> QED
  BY <1>1, <1>2, <1>3, <1>4, <1>5, <1>6, <1>7 DEF IndInv

LEMMA EnrichMergeStep ==
  ASSUME IndInv, NEW c \in Consumer, EnrichMerge(c)
  PROVE  IndInv'
<1> USE DEF IndInv
<1>1. TypeOK'
  BY DEF TypeOK, Rows, history, work, EnrichMerge, Row, Copy, None
<1>2. TasksKnowRows'
  BY DEF TypeOK, TasksKnowRows, Rows, Idle, history, work, EnrichMerge, Row, Copy, None
<1>3. CopiesKnowRows'
  BY DEF TypeOK, CopiesKnowRows, Rows, Copy, None, history, work, EnrichMerge, Row, Copy, None
<1>4. NeverOvercounts'
  BY DEF TypeOK, TasksKnowRows, CopiesKnowRows, NeverOvercounts, Rows, Row, history, work, EnrichMerge, Row, Copy, None
<1>5. HeldUnclaimed'
  BY DEF TypeOK, OperatorDecides, HeldUnclaimed, Claimed, Rows, Row, history, work, EnrichMerge, Row, Copy, None
<1>6. OperatorDecides'
  BY DEF TypeOK, HeldUnclaimed, Claimed, OperatorDecides, Rows, Row, history, work, EnrichMerge, Row, Copy, None
<1>7. DuplicatesBounded'
  <2>1. \A k \in Key : Raised(k)' \subseteq Raised(k) /\ Inserting(k)' \subseteq Inserting(k)
    BY DEF TypeOK, Raised, Active, Rows, Inserting, At, Idle, history, work, EnrichMerge, Row, Copy, None
  <2> QED
    BY <2>1, BoundKept
<1> QED
  BY <1>1, <1>2, <1>3, <1>4, <1>5, <1>6, <1>7 DEF IndInv

LEMMA EnrichCommitStep ==
  ASSUME IndInv, NEW c \in Consumer, EnrichCommit(c)
  PROVE  IndInv'
<1> USE DEF IndInv
<1>1. TypeOK'
  <2> DEFINE r == copy[c].id
  <2>1. copy[c] \in Copy /\ r \in Rows /\ alarms[r] \in Row
    BY DEF TypeOK, CopiesKnowRows, Rows, EnrichCommit
  <2>2. PICK state \in State, count \in Nat :
          alarms' = [alarms EXCEPT ![r].enriched = TRUE, ![r].state = state, ![r].count = count]
    BY <2>1 DEF EnrichCommit, Copy, Row, TypeOK, Rows
  <2>3. [alarms[r] EXCEPT !.enriched = TRUE, !.state = state, !.count = count] \in Row
    BY <2>1 DEF Row
  <2>4. alarms' = [alarms EXCEPT ![r] =
                     [alarms[r] EXCEPT !.enriched = TRUE, !.state = state, !.count = count]]
    BY <2>1, <2>2 DEF TypeOK, Rows
  <2>5. alarms' \in Seq(Row) /\ Len(alarms') = Len(alarms)
    BY <2>1, <2>3, <2>4 DEF TypeOK, Rows
  <2>6. Rows' = Rows
    BY <2>5 DEF TypeOK, Rows
  <2>7. copy' \in [Consumer -> Copy \cup {None}] /\ reopened' \subseteq Rows
    BY <2>1 DEF TypeOK, EnrichCommit
  <2> QED
    BY <2>5, <2>6, <2>7 DEF TypeOK, EnrichCommit
<1>2. TasksKnowRows'
  BY DEF TypeOK, TasksKnowRows, Rows, Idle, history, work, EnrichCommit, Row, State, Copy, None
<1>3. CopiesKnowRows'
  BY DEF TypeOK, CopiesKnowRows, Rows, Copy, None, history, work, EnrichCommit, Row, State, Copy, None
<1>4. NeverOvercounts'
  BY DEF TypeOK, TasksKnowRows, CopiesKnowRows, NeverOvercounts, Rows, Row, history, work, EnrichCommit, Row, State, Copy, None
<1>5. HeldUnclaimed'
  BY DEF TypeOK, OperatorDecides, HeldUnclaimed, Claimed, Rows, Row, history, work, EnrichCommit, Row, State, Copy, None
<1>6. OperatorDecides'
  BY DEF TypeOK, HeldUnclaimed, Claimed, OperatorDecides, Rows, Row, history, work, EnrichCommit, Row, State, Copy, None
<1>7. DuplicatesBounded'
  <2>1. \A k \in Key : Raised(k)' \subseteq Raised(k) /\ Inserting(k)' \subseteq Inserting(k)
    BY DEF TypeOK, Raised, Active, Rows, Inserting, At, Idle, history, work, EnrichCommit, Row, State, Copy, None
  <2> QED
    BY <2>1, BoundKept
<1> QED
  BY <1>1, <1>2, <1>3, <1>4, <1>5, <1>6, <1>7 DEF IndInv

LEMMA EnrichFailsStep ==
  ASSUME IndInv, NEW c \in Consumer, EnrichFails(c)
  PROVE  IndInv'
<1> USE DEF IndInv
<1>1. TypeOK'
  BY DEF TypeOK, Rows, history, work, EnrichFails, Copy, None
<1>2. TasksKnowRows'
  BY DEF TypeOK, TasksKnowRows, Rows, Idle, history, work, EnrichFails, Copy, None
<1>3. CopiesKnowRows'
  BY DEF TypeOK, CopiesKnowRows, Rows, Copy, None, history, work, EnrichFails, Copy, None
<1>4. NeverOvercounts'
  BY DEF TypeOK, TasksKnowRows, CopiesKnowRows, NeverOvercounts, Rows, Row, history, work, EnrichFails, Copy, None
<1>5. HeldUnclaimed'
  BY DEF TypeOK, OperatorDecides, HeldUnclaimed, Claimed, Rows, Row, history, work, EnrichFails, Copy, None
<1>6. OperatorDecides'
  BY DEF TypeOK, HeldUnclaimed, Claimed, OperatorDecides, Rows, Row, history, work, EnrichFails, Copy, None
<1>7. DuplicatesBounded'
  <2>1. \A k \in Key : Raised(k)' \subseteq Raised(k) /\ Inserting(k)' \subseteq Inserting(k)
    BY DEF TypeOK, Raised, Active, Rows, Inserting, At, Idle, history, work, EnrichFails, Copy, None
  <2> QED
    BY <2>1, BoundKept
<1> QED
  BY <1>1, <1>2, <1>3, <1>4, <1>5, <1>6, <1>7 DEF IndInv

-----------------------------------------------------------------------------
LEMMA InitIndInv == Init => IndInv
<1> SUFFICES ASSUME Init
             PROVE  IndInv
  OBVIOUS
<1>1. TypeOK
  BY AlarmAssumption DEF Init, TypeOK, Rows, Idle
<1>2. Rows = {}
  BY DEF Init, Rows
<1>3. TasksKnowRows /\ CopiesKnowRows
  BY DEF Init, TasksKnowRows, CopiesKnowRows, Idle, None
<1>4. NeverOvercounts /\ HeldUnclaimed /\ OperatorDecides
  BY <1>2 DEF Init, NeverOvercounts, HeldUnclaimed, OperatorDecides
<1>5. DuplicatesBounded
  <2>1. \A k \in Key : Raised(k) = {} /\ Inserting(k) = {}
    BY <1>2 DEF Init, Raised, Active, Inserting, At
  <2>2. Cardinality(Handler) \in Nat /\ Cardinality({}) = 0
    BY AlarmAssumption, FS_CardinalityType, FS_EmptySet
  <2> QED
    BY <2>1, <2>2 DEF DuplicatesBounded
<1> QED
  BY <1>1, <1>3, <1>4, <1>5 DEF IndInv

LEMMA NextIndInv == IndInv /\ [Next]_vars => IndInv'
<1> SUFFICES ASSUME IndInv, [Next]_vars
             PROVE  IndInv'
  OBVIOUS
<1>1. CASE \E h \in Handler, k \in Key, clears \in BOOLEAN : Receive(h, k, clears)
  BY <1>1, ReceiveStep
<1>2. CASE \E h \in Handler : Handle(h)
  BY <1>2, FindActiveStep, FindNoneStep, CommitInsertStep, CommitUpdateStep, CommitClearStep,
     HandlerFailsStep DEF Handle
<1>3. CASE Operate
  BY <1>3, AcknowledgeStep, ClearStep, SuppressStep, UnsuppressStep DEF Operate
<1>4. CASE \E c \in Consumer : Enrich(c)
  BY <1>4, EnrichLoadStep, EnrichMergeStep, EnrichCommitStep, EnrichFailsStep DEF Enrich
<1>5. CASE UNCHANGED vars
  BY <1>5 DEF vars, work, history, IndInv, TypeOK, TasksKnowRows, CopiesKnowRows,
     NeverOvercounts, HeldUnclaimed, Claimed, OperatorDecides, DuplicatesBounded, Raised,
     Active, Inserting, At, Rows
<1> QED
  BY <1>1, <1>2, <1>3, <1>4, <1>5 DEF Next

-----------------------------------------------------------------------------
(* IndInv is an invariant of the alarm table and its writers.              *)
THEOREM Inductive == Spec => []IndInv
BY InitIndInv, NextIndInv, PTL DEF Spec

(* The variables keep their types: rows are never lost, counts never       *)
(* negative, what a task or a consumer holds is a row.                     *)
THEOREM TypeCorrect == Spec => []TypeOK
<1>1. IndInv => TypeOK
  BY DEF IndInv
<1> QED
  BY <1>1, Inductive, PTL

(* However many tasks handle events at the same time, a key never has more *)
(* raised alarms than there are tasks.                                     *)
THEOREM BoundsDuplicates == Spec => []DuplicatesBounded
<1>1. IndInv => DuplicatesBounded
  BY DEF IndInv
<1> QED
  BY <1>1, Inductive, PTL

(* Lost updates of occurrence_count, from handlers and from the merge of   *)
(* an enriched copy, only ever make it too small.                          *)
THEOREM CountsNoMoreThanRaised == Spec => []NeverOvercounts
<1>1. IndInv => NeverOvercounts
  BY DEF IndInv
<1> QED
  BY <1>1, Inductive, PTL

(* What an operator parked while nobody worked on it stays parked.         *)
THEOREM KeepsOperatorsDecision == Spec => []OperatorDecides
<1>1. IndInv => OperatorDecides
  BY DEF IndInv
<1> QED
  BY <1>1, Inductive, PTL

-----------------------------------------------------------------------------
(* SerialIsExact.  A key that is not mixed has one task or one consumer at *)
(* it at most, what that one has read is still what the rows say, and the  *)
(* active alarm counts the streak also in between.                         *)

(* The row a task or a consumer holds has the key it works for.            *)
KeysKept ==
  /\ \A h \in Handler : task[h].at \in {"update", "clear"} =>
       alarms[task[h].row].key = task[h].key
  /\ \A c \in Consumer : copy[c] # None => alarms[copy[c].id].key = copy[c].row.key

(* At most one task or consumer is at key k.                               *)
Alone(k) ==
  /\ \A g, h \in At(k) : g = h
  /\ \A b, c \in With(k) : b = c
  /\ At(k) = {} \/ With(k) = {}

Exact(k) ==
  IF streak[k] = 0 THEN Active(k) = {}
  ELSE \E r \in Rows : Active(k) = {r} /\ alarms[r].count = streak[k]

(* What a task found by its query, and what a consumer loaded, is still so.*)
TasksExact(k) ==
  \A h \in At(k) :
    /\ task[h].at = "insert" => Active(k) = {}
    /\ task[h].at \in {"update", "clear"} => task[h].row \in Active(k)
    /\ task[h].at = "update" => task[h].count = alarms[task[h].row].count

CopiesExact(k) ==
  \A c \in With(k) :
    /\ copy[c].row.state = alarms[copy[c].id].state
    /\ copy[c].row.count = alarms[copy[c].id].count
    /\ copy[c].writes = {}

Serial(k) == k \notin mixed => Alone(k) /\ Exact(k) /\ TasksExact(k) /\ CopiesExact(k)

SerialInv == IndInv /\ KeysKept /\ \A k \in Key : Serial(k)

-----------------------------------------------------------------------------
(* No step changes the key of a row.                                       *)
LEMMA RowsKeepKeys ==
  ASSUME IndInv, [Next]_vars
  PROVE  Rows \subseteq Rows' /\ \A r \in Rows : alarms'[r].key = alarms[r].key
<1> USE DEF IndInv
<1>1. ASSUME UNCHANGED alarms
      PROVE  Rows \subseteq Rows' /\ \A r \in Rows : alarms'[r].key = alarms[r].key
  BY <1>1 DEF Rows
<1>2. ASSUME NEW h \in Handler, CommitInsert(h)
      PROVE  Rows \subseteq Rows' /\ \A r \in Rows : alarms'[r].key = alarms[r].key
  BY <1>2 DEF CommitInsert, TypeOK, Rows
<1>3. ASSUME NEW h \in Handler, CommitUpdate(h) \/ CommitClear(h)
      PROVE  Rows \subseteq Rows' /\ \A r \in Rows : alarms'[r].key = alarms[r].key
  <2>1. PICK r \in Rows : r = task[h].row /\ alarms[r] \in Row
    BY <1>3 DEF CommitUpdate, CommitClear, TasksKnowRows, TypeOK, Rows
  <2>2. CASE CommitUpdate(h)
    <3>1. PICK e \in {FALSE, ~task[h].enriched /\ alarms[r].enriched} :
            alarms' = [alarms EXCEPT ![r].count = task[h].count + 1, ![r].enriched = e]
      BY <2>1, <2>2 DEF CommitUpdate
    <3> QED
      BY <2>1, <3>1 DEF TypeOK, Rows, Row
  <2>3. CASE CommitClear(h)
    BY <2>1, <2>3 DEF CommitClear, TypeOK, Rows, Row
  <2> QED
    BY <1>3, <2>2, <2>3
<1>4. ASSUME NEW c \in Consumer, EnrichCommit(c)
      PROVE  Rows \subseteq Rows' /\ \A r \in Rows : alarms'[r].key = alarms[r].key
  BY <1>4 DEF EnrichCommit, TypeOK, Rows, Row
<1>5. ASSUME Operate
      PROVE  Rows \subseteq Rows' /\ \A r \in Rows : alarms'[r].key = alarms[r].key
  <2>1. PICK S \in SUBSET Rows, state \in State, lost \in BOOLEAN : Decide(S, state, lost)
    BY <1>5 DEF Operate, Acknowledge, Clear, Suppress, Unsuppress, State
  <2> QED
    BY <2>1, DecidedRows
<1>6. CASE UNCHANGED alarms
  BY <1>1, <1>6
<1>7. CASE alarms' # alarms
  BY <1>2, <1>3, <1>4, <1>5, <1>7
     DEF Next, Handle, Enrich, vars, Receive, FindActive, FindNone, HandlerFails,
         EnrichLoad, EnrichMerge, EnrichFails
<1> QED
  BY <1>6, <1>7

(* A step that touches neither the rows of key k nor who is at them, other *)
(* than to let somebody go, leaves Serial(k).                              *)
LEMMA Untouched ==
  ASSUME SerialInv, IndInv', NEW k \in Key,
         mixed \subseteq mixed', streak'[k] = streak[k],
         Rows \subseteq Rows',
         \A r \in Rows : alarms'[r].key = alarms[r].key,
         k \notin mixed' =>
           \A r \in Rows : alarms[r].key = k => /\ alarms'[r].state = alarms[r].state
                                                /\ alarms'[r].count = alarms[r].count,
         \A r \in Rows' \ Rows : alarms'[r].key # k,
         \A h \in Handler : task'[h] # Idle /\ task'[h].key = k => task'[h] = task[h],
         \A c \in Consumer : copy'[c] # None /\ copy'[c].row.key = k => copy'[c] = copy[c]
  PROVE  Serial(k)'
<1> SUFFICES ASSUME k \notin mixed'
             PROVE  (Alone(k) /\ Exact(k) /\ TasksExact(k) /\ CopiesExact(k))'
  BY DEF Serial
<1>1. Alone(k) /\ Exact(k) /\ TasksExact(k) /\ CopiesExact(k)
  BY DEF SerialInv, Serial
<1>2. \A h \in At(k)' : h \in At(k) /\ h \in Handler /\ task'[h] = task[h]
  BY DEF At
<1>3. \A c \in With(k)' : c \in With(k) /\ c \in Consumer /\ copy'[c] = copy[c]
  BY DEF With
<1>4. \A r \in Rows : /\ alarms[r].key = k => /\ alarms'[r].state = alarms[r].state
                                              /\ alarms'[r].count = alarms[r].count
                      /\ alarms'[r].key = alarms[r].key
  OBVIOUS
<1>5. Active(k)' = Active(k)
  BY <1>4 DEF Active
<1>6. Alone(k)'
  BY <1>1, <1>2, <1>3 DEF Alone
<1>7. Exact(k)'
  BY <1>1, <1>4, <1>5 DEF Exact, Active
<1>8. TasksExact(k)'
  BY <1>1, <1>2, <1>4, <1>5 DEF TasksExact, Active
<1>9. CopiesExact(k)'
  <2> SUFFICES ASSUME NEW c \in With(k)'
               PROVE  /\ copy'[c].row.state = alarms'[copy'[c].id].state
                      /\ copy'[c].row.count = alarms'[copy'[c].id].count
                      /\ copy'[c].writes = {}
    BY DEF CopiesExact
  <2>1. copy[c].id \in Rows /\ alarms[copy[c].id].key = k
    BY <1>3 DEF SerialInv, IndInv, CopiesKnowRows, KeysKept, With
  <2> QED
    BY <1>1, <1>3, <1>4, <2>1 DEF CopiesExact
<1> QED
  BY <1>6, <1>7, <1>8, <1>9

(* A task of key k takes a step, alone: nobody else is there.              *)
LEMMA TaskAlone ==
  ASSUME SerialInv, IndInv', NEW h \in Handler, NEW k \in Key,
         task[h] # Idle, task[h].key = k, k \notin mixed,
         \A g \in Handler : g # h => task'[g] = task[g],
         copy' = copy
  PROVE  /\ Exact(k) /\ TasksExact(k) /\ h \in At(k)
         /\ At(k)' \subseteq {h} /\ With(k)' = {}
         /\ Alone(k)' /\ CopiesExact(k)'
<1>1. Alone(k) /\ Exact(k) /\ TasksExact(k)
  BY DEF SerialInv, Serial
<1>2. h \in At(k)
  BY DEF At
<1>3. At(k)' \subseteq {h}
  BY <1>1, <1>2 DEF Alone, At
<1>4. With(k)' = {}
  BY <1>1, <1>2 DEF Alone, With
<1> QED
  BY <1>1, <1>2, <1>3, <1>4 DEF Alone, CopiesExact

LEMMA ReceiveSerial ==
  ASSUME SerialInv, IndInv', NEW h \in Handler, NEW k \in Key, NEW clears \in BOOLEAN,
         Receive(h, k, clears), NEW j \in Key
  PROVE  Serial(j)'
<1>1. /\ \A g \in Handler : g # h => task'[g] = task[g]
      /\ task'[h] = [at |-> "find", key |-> k, clears |-> clears,
                     row |-> 0, count |-> 0, enriched |-> FALSE]
  BY DEF SerialInv, IndInv, TypeOK, Receive
<1>2. UNCHANGED <<alarms, copy, streak>> /\ mixed \subseteq mixed'
  BY DEF Receive, MixIf
<1>3. CASE j # k
  BY <1>1, <1>2, <1>3, Untouched DEF Rows
<1>4. CASE j = k
  <2> SUFFICES ASSUME k \notin mixed'
               PROVE  (Alone(k) /\ Exact(k) /\ TasksExact(k) /\ CopiesExact(k))'
    BY <1>4 DEF Serial
  <2>1. ~Busy(k) /\ k \notin mixed
    BY DEF Receive, MixIf
  <2>2. Exact(k)
    BY <2>1 DEF SerialInv, Serial
  <2>3. \A g \in At(k)' : g = h
    BY <1>1, <2>1 DEF At, Busy
  <2>4. With(k)' = {}
    BY <1>2, <2>1 DEF With, Busy
  <2>5. Exact(k)'
    BY <1>2, <2>2 DEF Exact, Active, Rows
  <2>6. Alone(k)' /\ CopiesExact(k)'
    BY <2>3, <2>4 DEF Alone, CopiesExact
  <2>7. TasksExact(k)'
    BY <1>1, <2>3 DEF TasksExact
  <2> QED
    BY <2>5, <2>6, <2>7
<1> QED
  BY <1>3, <1>4

LEMMA FindActiveSerial ==
  ASSUME SerialInv, IndInv', NEW h \in Handler, NEW r \in Rows, FindActive(h, r), NEW j \in Key
  PROVE  Serial(j)'
<1>0. task[h] \in Task /\ task[h] # Idle
  BY NotIdle DEF SerialInv, IndInv, FindActive
<1>1. /\ \A g \in Handler : g # h => task'[g] = task[g]
      /\ task'[h].key = task[h].key /\ task'[h].row = r /\ task'[h].count = alarms[r].count
      /\ task'[h].at \in {"update", "clear"}
  BY <1>0 DEF SerialInv, IndInv, TypeOK, FindActive, Task
<1>2. UNCHANGED <<alarms, copy, streak, mixed>> /\ r \in Active(task[h].key)
  BY DEF FindActive, history
<1>3. CASE j # task[h].key
  BY <1>1, <1>2, <1>3, Untouched DEF Rows
<1>4. CASE j = task[h].key /\ j \notin mixed'
  <2>1. /\ Exact(j) /\ At(j)' \subseteq {h} /\ Alone(j)' /\ CopiesExact(j)'
    BY <1>0, <1>1, <1>2, <1>4, TaskAlone
  <2>2. Active(j)' = Active(j) /\ Exact(j)'
    BY <1>2, <2>1 DEF Exact, Active, Rows
  <2>3. TasksExact(j)'
    BY <1>1, <1>2, <1>4, <2>1, <2>2 DEF TasksExact
  <2> QED
    BY <2>1, <2>2, <2>3 DEF Serial
<1> QED
  BY <1>3, <1>4 DEF Serial

LEMMA FindNoneSerial ==
  ASSUME SerialInv, IndInv', NEW h \in Handler, FindNone(h), NEW j \in Key
  PROVE  Serial(j)'
<1>0. task[h] \in Task /\ task[h] # Idle
  BY NotIdle DEF SerialInv, IndInv, FindNone
<1>1. /\ \A g \in Handler : g # h => task'[g] = task[g]
      /\ \/ task'[h] = Idle
         \/ task'[h].key = task[h].key /\ task'[h].at = "insert"
  BY <1>0 DEF SerialInv, IndInv, TypeOK, FindNone, Task
<1>2. UNCHANGED <<alarms, copy, mixed>> /\ Active(task[h].key) = {}
  BY DEF FindNone
<1>3. \A i \in Key : streak'[i] = streak[i] \/ (i = task[h].key /\ streak'[i] = 0)
  BY DEF FindNone, SerialInv, IndInv, TypeOK
<1>4. CASE j # task[h].key
  BY <1>1, <1>2, <1>3, <1>4, Untouched DEF Rows
<1>5. CASE j = task[h].key /\ j \notin mixed'
  <2>1. /\ Exact(j) /\ At(j)' \subseteq {h} /\ Alone(j)' /\ CopiesExact(j)'
    BY <1>0, <1>1, <1>2, <1>5, TaskAlone
  <2>2. Active(j)' = {} /\ Active(j) = {}
    BY <1>2, <1>5 DEF Active, Rows
  <2>3. streak[j] = 0
    BY <2>1, <2>2 DEF Exact
  <2>4. Exact(j)'
    BY <1>3, <2>2, <2>3 DEF Exact
  <2>5. TasksExact(j)'
    BY <1>1, <2>1, <2>2 DEF TasksExact, At
  <2> QED
    BY <2>1, <2>4, <2>5 DEF Serial
<1> QED
  BY <1>4, <1>5 DEF Serial

LEMMA CommitInsertSerial ==
  ASSUME SerialInv, IndInv', NEW h \in Handler, CommitInsert(h), NEW j \in Key
  PROVE  Serial(j)'
<1>0. task[h] \in Task /\ task[h] # Idle /\ task[h].at = "insert"
  BY NotIdle DEF SerialInv, IndInv, CommitInsert
<1>1. /\ \A g \in Handler : g # h => task'[g] = task[g]
      /\ task'[h] = Idle
  BY DEF SerialInv, IndInv, TypeOK, CommitInsert
<1>2. UNCHANGED <<copy, mixed>>
  BY DEF CommitInsert
<1>3. PICK new \in Nat : new = Len(alarms) + 1 /\ Rows' = Rows \cup {new} /\ new \notin Rows
  BY DEF SerialInv, IndInv, TypeOK, Rows, CommitInsert
<1>4. /\ \A r \in Rows : alarms'[r] = alarms[r]
      /\ alarms'[new].key = task[h].key /\ alarms'[new].state = "active" /\ alarms'[new].count = 1
  BY <1>3 DEF SerialInv, IndInv, TypeOK, Rows, CommitInsert
<1>5. \A i \in Key : streak'[i] = IF i = task[h].key THEN streak[i] + 1 ELSE streak[i]
  BY DEF CommitInsert, SerialInv, IndInv, TypeOK
<1>6. CASE j # task[h].key
  BY <1>1, <1>2, <1>3, <1>4, <1>5, <1>6, Untouched
<1>7. CASE j = task[h].key /\ j \notin mixed'
  <2>1. /\ Exact(j) /\ TasksExact(j) /\ h \in At(j)
        /\ At(j)' \subseteq {h} /\ Alone(j)' /\ CopiesExact(j)'
    BY <1>0, <1>1, <1>2, <1>7, TaskAlone
  <2>2. Active(j) = {}
    BY <1>0, <2>1 DEF TasksExact
  <2>3. Active(j)' = {new}
    BY <1>3, <1>4, <1>7, <2>2 DEF Active
  <2>4. streak[j] = 0
    BY <2>1, <2>2 DEF Exact
  <2>5. streak'[j] = 1
    BY <1>5, <1>7, <2>4
  <2>6. Exact(j)'
    BY <1>3, <1>4, <2>3, <2>5 DEF Exact
  <2>7. TasksExact(j)'
    BY <1>1, <2>1 DEF TasksExact, At
  <2> QED
    BY <2>1, <2>6, <2>7 DEF Serial
<1> QED
  BY <1>6, <1>7 DEF Serial

LEMMA CommitUpdateSerial ==
  ASSUME SerialInv, IndInv', NEW h \in Handler, CommitUpdate(h), NEW j \in Key
  PROVE  Serial(j)'
<1>0. task[h] \in Task /\ task[h] # Idle /\ task[h].at = "update"
  BY NotIdle DEF SerialInv, IndInv, CommitUpdate
<1>1. /\ \A g \in Handler : g # h => task'[g] = task[g]
      /\ task'[h] = Idle
  BY DEF SerialInv, IndInv, TypeOK, CommitUpdate
<1>2. UNCHANGED <<copy, mixed>>
  BY DEF CommitUpdate
<1>3. PICK r \in Rows : r = task[h].row /\ alarms[r] \in Row /\ alarms[r].key = task[h].key
  BY <1>0 DEF SerialInv, IndInv, TasksKnowRows, KeysKept, TypeOK, Rows
<1>4. PICK e \in {FALSE, ~task[h].enriched /\ alarms[r].enriched} :
        alarms' = [alarms EXCEPT ![r].count = task[h].count + 1, ![r].enriched = e]
  BY <1>3 DEF CommitUpdate
<1>5. /\ Rows' = Rows
      /\ \A q \in Rows : q # r => alarms'[q] = alarms[q]
      /\ alarms'[r].key = alarms[r].key /\ alarms'[r].state = alarms[r].state
      /\ alarms'[r].count = task[h].count + 1
  BY <1>3, <1>4 DEF SerialInv, IndInv, TypeOK, Rows, Row
<1>6. \A i \in Key : streak'[i] = IF i = task[h].key THEN streak[i] + 1 ELSE streak[i]
  BY DEF CommitUpdate, SerialInv, IndInv, TypeOK
<1>7. CASE j # task[h].key
  BY <1>1, <1>2, <1>3, <1>5, <1>6, <1>7, Untouched
<1>8. CASE j = task[h].key /\ j \notin mixed'
  <2>1. /\ Exact(j) /\ TasksExact(j) /\ h \in At(j)
        /\ At(j)' \subseteq {h} /\ Alone(j)' /\ CopiesExact(j)'
    BY <1>0, <1>1, <1>2, <1>8, TaskAlone
  <2>2. r \in Active(j) /\ task[h].count = alarms[r].count
    BY <1>0, <1>3, <2>1 DEF TasksExact
  <2>3. Active(j) = {r} /\ alarms[r].count = streak[j]
    BY <2>1, <2>2 DEF Exact
  <2>4. Active(j)' = {r}
    BY <1>5, <2>3 DEF Active
  <2>5. streak'[j] = alarms'[r].count /\ streak'[j] # 0
    <3>1. streak[j] \in Nat /\ streak'[j] = streak[j] + 1
      BY <1>6, <1>8 DEF SerialInv, IndInv, TypeOK
    <3> QED
      BY <3>1, <1>5, <2>2, <2>3
  <2>6. Exact(j)'
    BY <1>5, <2>4, <2>5 DEF Exact
  <2>7. TasksExact(j)'
    BY <1>1, <2>1 DEF TasksExact, At
  <2> QED
    BY <2>1, <2>6, <2>7 DEF Serial
<1> QED
  BY <1>7, <1>8 DEF Serial

LEMMA CommitClearSerial ==
  ASSUME SerialInv, IndInv', NEW h \in Handler, CommitClear(h), NEW j \in Key
  PROVE  Serial(j)'
<1>0. task[h] \in Task /\ task[h] # Idle /\ task[h].at = "clear"
  BY NotIdle DEF SerialInv, IndInv, CommitClear
<1>1. /\ \A g \in Handler : g # h => task'[g] = task[g]
      /\ task'[h] = Idle
  BY DEF SerialInv, IndInv, TypeOK, CommitClear
<1>2. UNCHANGED <<copy, mixed>>
  BY DEF CommitClear
<1>3. PICK r \in Rows : r = task[h].row /\ alarms[r] \in Row /\ alarms[r].key = task[h].key
  BY <1>0 DEF SerialInv, IndInv, TasksKnowRows, KeysKept, TypeOK, Rows
<1>4. /\ Rows' = Rows
      /\ \A q \in Rows : q # r => alarms'[q] = alarms[q]
      /\ alarms'[r].key = alarms[r].key /\ alarms'[r].state = "cleared"
  BY <1>3 DEF CommitClear, SerialInv, IndInv, TypeOK, Rows, Row
<1>5. \A i \in Key : streak'[i] = IF i = task[h].key THEN 0 ELSE streak[i]
  BY DEF CommitClear, SerialInv, IndInv, TypeOK
<1>6. CASE j # task[h].key
  BY <1>1, <1>2, <1>3, <1>4, <1>5, <1>6, Untouched
<1>7. CASE j = task[h].key /\ j \notin mixed'
  <2>1. /\ Exact(j) /\ TasksExact(j) /\ h \in At(j)
        /\ At(j)' \subseteq {h} /\ Alone(j)' /\ CopiesExact(j)'
    BY <1>0, <1>1, <1>2, <1>7, TaskAlone
  <2>2. r \in Active(j)
    BY <1>0, <1>3, <2>1 DEF TasksExact
  <2>3. Active(j) = {r}
    BY <2>1, <2>2 DEF Exact
  <2>4. Active(j)' = {}
    BY <1>4, <2>3 DEF Active
  <2>5. Exact(j)'
    BY <1>5, <1>7, <2>4 DEF Exact
  <2>6. TasksExact(j)'
    BY <1>1, <2>1 DEF TasksExact, At
  <2> QED
    BY <2>1, <2>5, <2>6 DEF Serial
<1> QED
  BY <1>6, <1>7 DEF Serial

LEMMA HandlerFailsSerial ==
  ASSUME SerialInv, IndInv', NEW h \in Handler, HandlerFails(h), NEW j \in Key
  PROVE  Serial(j)'
<1>1. \A g \in Handler : task'[g] = task[g] \/ task'[g] = Idle
  BY DEF SerialInv, IndInv, TypeOK, HandlerFails
<1>2. UNCHANGED <<alarms, copy, streak, mixed>>
  BY DEF HandlerFails, history
<1> QED
  BY <1>1, <1>2, Untouched DEF Rows

LEMMA OperateSerial ==
  ASSUME SerialInv, IndInv', Operate, NEW j \in Key
  PROVE  Serial(j)'
<1>1. PICK S \in SUBSET Rows, state \in State, lost \in BOOLEAN : Decide(S, state, lost)
  BY DEF Operate, Acknowledge, Clear, Suppress, Unsuppress, State
<1>2. /\ Rows' = Rows
      /\ \A r \in Rows : /\ alarms'[r].key = alarms[r].key
                         /\ alarms'[r].count = alarms[r].count
                         /\ alarms'[r].state = IF r \in S THEN state ELSE alarms[r].state
  BY <1>1, DecidedRows DEF SerialInv, IndInv
<1>3. UNCHANGED <<task, copy, streak>> /\ mixed' = mixed \cup {alarms[r].key : r \in S}
  BY <1>1 DEF Decide, work
<1>4. j \notin mixed' => \A r \in Rows : alarms[r].key = j => r \notin S
  BY <1>3
<1> QED
  BY <1>2, <1>3, <1>4, Untouched

LEMMA EnrichLoadSerial ==
  ASSUME SerialInv, IndInv', NEW c \in Consumer, NEW k \in bus, NEW r \in Rows,
         EnrichLoad(c, k, r), NEW j \in Key
  PROVE  Serial(j)'
<1>1. /\ \A d \in Consumer : d # c => copy'[d] = copy[d]
      /\ copy'[c] = [id |-> r, row |-> alarms[r], merging |-> FALSE, writes |-> {}]
  BY DEF SerialInv, IndInv, TypeOK, EnrichLoad
<1>2. UNCHANGED <<alarms, task, streak>> /\ mixed \subseteq mixed'
  BY DEF EnrichLoad, MixIf
<1>3. CASE j # alarms[r].key
  BY <1>1, <1>2, <1>3, Untouched DEF Rows
<1>4. CASE j = alarms[r].key
  <2> SUFFICES ASSUME j \notin mixed'
               PROVE  (Alone(j) /\ Exact(j) /\ TasksExact(j) /\ CopiesExact(j))'
    BY DEF Serial
  <2>1. ~Busy(j) /\ j \notin mixed
    BY <1>4 DEF EnrichLoad, MixIf
  <2>2. Exact(j)
    BY <2>1 DEF SerialInv, Serial
  <2>3. At(j)' = {}
    BY <1>2, <2>1 DEF At, Busy
  <2>4. \A d \in With(j)' : d = c
    BY <1>1, <2>1 DEF With, Busy
  <2>5. Exact(j)'
    BY <1>2, <2>2 DEF Exact, Active, Rows
  <2>6. Alone(j)' /\ TasksExact(j)'
    BY <2>3, <2>4 DEF Alone, TasksExact
  <2>7. CopiesExact(j)'
    BY <1>1, <1>2, <2>4 DEF CopiesExact
  <2> QED
    BY <2>5, <2>6, <2>7
<1> QED
  BY <1>3, <1>4

LEMMA EnrichMergeSerial ==
  ASSUME SerialInv, IndInv', NEW c \in Consumer, EnrichMerge(c), NEW j \in Key
  PROVE  Serial(j)'
<1>0. copy[c] \in Copy
  BY DEF SerialInv, IndInv, TypeOK, EnrichMerge
<1>1. /\ \A d \in Consumer : d # c => copy'[d] = copy[d]
      /\ copy'[c].id = copy[c].id /\ copy'[c].row = copy[c].row
      /\ copy'[c].writes = {f \in {"state", "count"} :
                              copy[c].row[f] # alarms[copy[c].id][f]}
  BY <1>0 DEF SerialInv, IndInv, TypeOK, EnrichMerge, Copy
<1>2. UNCHANGED <<alarms, task, streak, mixed>>
  BY DEF EnrichMerge, history
<1>3. CASE j # copy[c].row.key
  BY <1>1, <1>2, <1>3, Untouched DEF Rows
<1>4. CASE j = copy[c].row.key /\ j \notin mixed'
  <2>1. Alone(j) /\ Exact(j) /\ TasksExact(j) /\ CopiesExact(j)
    BY <1>2, <1>4 DEF SerialInv, Serial
  <2>2. c \in With(j)
    BY <1>4 DEF With, EnrichMerge
  <2>3. At(j)' = {} /\ At(j) = {}
    BY <1>2, <2>1, <2>2 DEF Alone, At
  <2>4. \A d \in With(j)' : d = c
    BY <1>1, <2>1, <2>2 DEF Alone, With
  <2>5. Exact(j)'
    BY <1>2, <2>1 DEF Exact, Active, Rows
  <2>6. Alone(j)' /\ TasksExact(j)'
    BY <2>3, <2>4 DEF Alone, TasksExact
  <2>7. copy[c].row.state = alarms[copy[c].id].state /\ copy[c].row.count = alarms[copy[c].id].count
    BY <2>1, <2>2 DEF CopiesExact
  <2>8. copy'[c].writes = {}
    BY <1>1, <2>7
  <2>9. CopiesExact(j)'
    BY <1>1, <1>2, <2>4, <2>7, <2>8 DEF CopiesExact
  <2> QED
    BY <2>5, <2>6, <2>9 DEF Serial
<1> QED
  BY <1>3, <1>4 DEF Serial

LEMMA EnrichCommitSerial ==
  ASSUME SerialInv, IndInv', NEW c \in Consumer, EnrichCommit(c), NEW j \in Key
  PROVE  Serial(j)'
<1>0. copy[c] \in Copy /\ copy[c] # None
  BY DEF SerialInv, IndInv, TypeOK, EnrichCommit
<1>1. \A d \in Consumer : copy'[d] = copy[d] \/ copy'[d] = None
  BY DEF SerialInv, IndInv, TypeOK, EnrichCommit
<1>2. UNCHANGED <<task, streak, mixed>>
  BY DEF EnrichCommit
<1>3. PICK r \in Rows : r = copy[c].id /\ alarms[r] \in Row /\ alarms[r].key = copy[c].row.key
  BY <1>0 DEF SerialInv, IndInv, CopiesKnowRows, KeysKept, TypeOK, Rows
<1>4. /\ Rows' = Rows
      /\ \A q \in Rows : q # r => alarms'[q] = alarms[q]
      /\ alarms'[r].key = alarms[r].key
  BY <1>3 DEF EnrichCommit, SerialInv, IndInv, TypeOK, Rows, Row
<1>5. copy[c].writes = {} =>
        alarms'[r].state = alarms[r].state /\ alarms'[r].count = alarms[r].count
  BY <1>3 DEF EnrichCommit, SerialInv, IndInv, TypeOK, Rows, Row
<1>6. copy[c].row.key \notin mixed => copy[c].writes = {}
  <2>1. copy[c].row.key \in Key /\ c \in With(copy[c].row.key)
    BY <1>0 DEF With, Copy, Row
  <2> QED
    BY <2>1 DEF SerialInv, Serial, CopiesExact
<1>7. j \notin mixed' =>
        \A q \in Rows : alarms[q].key = j => /\ alarms'[q].state = alarms[q].state
                                            /\ alarms'[q].count = alarms[q].count
  BY <1>2, <1>3, <1>4, <1>5, <1>6
<1>8. \A q \in Rows : alarms'[q].key = alarms[q].key
  BY <1>4
<1> QED
  BY <1>1, <1>2, <1>4, <1>7, <1>8, Untouched

LEMMA EnrichFailsSerial ==
  ASSUME SerialInv, IndInv', NEW c \in Consumer, EnrichFails(c), NEW j \in Key
  PROVE  Serial(j)'
<1>1. \A d \in Consumer : copy'[d] = copy[d] \/ copy'[d] = None
  BY DEF SerialInv, IndInv, TypeOK, EnrichFails
<1>2. UNCHANGED <<alarms, task, streak, mixed>>
  BY DEF EnrichFails, history
<1> QED
  BY <1>1, <1>2, Untouched DEF Rows

LEMMA KeysKeptStep ==
  ASSUME SerialInv, IndInv', [Next]_vars
  PROVE  KeysKept'
<1>1. Rows \subseteq Rows' /\ \A r \in Rows : alarms'[r].key = alarms[r].key
  BY RowsKeepKeys DEF SerialInv
<1>2. /\ \A h \in Handler : task[h].at \in {"update", "clear"} => task[h].row \in Rows
      /\ \A c \in Consumer : copy[c] # None => copy[c].id \in Rows
  BY DEF SerialInv, IndInv, TasksKnowRows, CopiesKnowRows
<1>3. ASSUME NEW g \in Handler, task'[g].at \in {"update", "clear"}
      PROVE  alarms'[task'[g].row].key = task'[g].key
  <2>1. CASE task'[g] = task[g]
    BY <1>1, <1>2, <1>3, <2>1 DEF SerialInv, KeysKept
  <2>2. CASE \E r \in Rows : FindActive(g, r)
    <3>1. PICK r \in Rows : FindActive(g, r)
      BY <2>2
    <3>2. task[g] \in Task
      BY <3>1, NotIdle DEF SerialInv, IndInv, FindActive
    <3>3. task'[g].row = r /\ task'[g].key = task[g].key /\ alarms[r].key = task[g].key
      BY <3>1, <3>2 DEF SerialInv, IndInv, TypeOK, FindActive, Active, Task
    <3> QED
      BY <1>1, <3>3
  <2>3. CASE task'[g] # task[g] /\ ~\E r \in Rows : FindActive(g, r)
    <3>1. PICK h \in Handler : Handle(h) \/ \E k \in Key, clears \in BOOLEAN : Receive(h, k, clears)
      BY <2>3 DEF Next, vars, work, Operate, Decide, Acknowledge, Clear, Suppress, Unsuppress,
                  Enrich, EnrichLoad, EnrichMerge, EnrichCommit, EnrichFails
    <3>2. g = h
      BY <2>3, <3>1 DEF SerialInv, IndInv, TypeOK, Receive, Handle, FindActive, FindNone,
                        CommitInsert, CommitUpdate, CommitClear, HandlerFails
    <3>3. CASE FindNone(g)
      <4>1. task[g] \in Task
        BY <3>3, NotIdle DEF SerialInv, IndInv, FindNone
      <4>2. task'[g].at \in {"idle", "insert"}
        BY <3>3, <4>1 DEF SerialInv, IndInv, TypeOK, FindNone, Idle, Task
      <4> QED
        BY <1>3, <4>2
    <3>4. CASE CommitInsert(g) \/ CommitUpdate(g) \/ CommitClear(g) \/ HandlerFails(g)
      <4>1. task'[g].at = "idle"
        BY <3>4 DEF SerialInv, IndInv, TypeOK, Idle, CommitInsert, CommitUpdate, CommitClear,
                    HandlerFails
      <4> QED
        BY <1>3, <4>1
    <3>5. CASE \E k \in Key, clears \in BOOLEAN : Receive(g, k, clears)
      <4>1. task'[g].at = "find"
        BY <3>5 DEF SerialInv, IndInv, TypeOK, Receive
      <4> QED
        BY <1>3, <4>1
    <3> QED
      BY <2>3, <3>1, <3>2, <3>3, <3>4, <3>5 DEF Handle
  <2> QED
    BY <2>1, <2>2, <2>3
<1>4. ASSUME NEW d \in Consumer, copy'[d] # None
      PROVE  alarms'[copy'[d].id].key = copy'[d].row.key
  <2>1. CASE copy'[d] = copy[d]
    BY <1>1, <1>2, <1>4, <2>1 DEF SerialInv, KeysKept
  <2>2. CASE copy'[d] # copy[d]
    <3>1. PICK c \in Consumer : Enrich(c)
      BY <2>2 DEF Next, vars, work, history, Operate, Decide, Acknowledge, Clear, Suppress,
                  Unsuppress, Handle, Receive, FindActive, FindNone, CommitInsert, CommitUpdate,
                  CommitClear, HandlerFails
    <3>2. d = c
      BY <2>2, <3>1 DEF SerialInv, IndInv, TypeOK, Enrich, EnrichLoad, EnrichMerge,
                        EnrichCommit, EnrichFails
    <3>3. ~EnrichCommit(d) /\ ~EnrichFails(d)
      BY <1>4 DEF SerialInv, IndInv, TypeOK, EnrichCommit, EnrichFails
    <3>4. CASE \E k \in bus, r \in Rows : EnrichLoad(d, k, r)
      <4>1. PICK k \in bus, r \in Rows : EnrichLoad(d, k, r)
        BY <3>4
      <4>2. copy'[d] = [id |-> r, row |-> alarms[r], merging |-> FALSE, writes |-> {}]
        BY <4>1 DEF SerialInv, IndInv, TypeOK, EnrichLoad
      <4> QED
        BY <1>1, <4>2
    <3>5. CASE EnrichMerge(d)
      <4>1. copy[d] \in Copy /\ copy[d] # None /\ UNCHANGED alarms
        BY <3>5 DEF SerialInv, IndInv, TypeOK, EnrichMerge
      <4>2. copy'[d].id = copy[d].id /\ copy'[d].row = copy[d].row
        BY <3>5, <4>1 DEF SerialInv, IndInv, TypeOK, EnrichMerge, Copy
      <4> QED
        BY <4>1, <4>2 DEF SerialInv, KeysKept
    <3> QED
      BY <3>1, <3>2, <3>3, <3>4, <3>5 DEF Enrich
  <2> QED
    BY <2>1, <2>2
<1> QED
  BY <1>3, <1>4 DEF KeysKept

LEMMA InitSerialInv == Init => SerialInv
<1> SUFFICES ASSUME Init
             PROVE  SerialInv
  OBVIOUS
<1>1. IndInv
  BY InitIndInv
<1>2. KeysKept
  BY DEF Init, KeysKept, Idle, None
<1>3. \A k \in Key : At(k) = {} /\ With(k) = {} /\ Active(k) = {} /\ streak[k] = 0
  BY DEF Init, At, With, Active, Rows
<1>4. \A k \in Key : Serial(k)
  BY <1>3 DEF Serial, Alone, Exact, TasksExact, CopiesExact
<1> QED
  BY <1>1, <1>2, <1>4 DEF SerialInv

LEMMA NextSerialInv == SerialInv /\ [Next]_vars => SerialInv'
<1> SUFFICES ASSUME SerialInv, [Next]_vars
             PROVE  SerialInv'
  OBVIOUS
<1>1. IndInv'
  BY NextIndInv DEF SerialInv
<1>2. KeysKept'
  BY <1>1, KeysKeptStep
<1>3. ASSUME NEW j \in Key
      PROVE  Serial(j)'
  <2>1. CASE \E h \in Handler, k \in Key, clears \in BOOLEAN : Receive(h, k, clears)
    BY <1>1, <2>1, ReceiveSerial
  <2>2. CASE \E h \in Handler : Handle(h)
    BY <1>1, <2>2, FindActiveSerial, FindNoneSerial, CommitInsertSerial, CommitUpdateSerial,
       CommitClearSerial, HandlerFailsSerial DEF Handle
  <2>3. CASE Operate
    BY <1>1, <2>3, OperateSerial
  <2>4. CASE \E c \in Consumer : Enrich(c)
    BY <1>1, <2>4, EnrichLoadSerial, EnrichMergeSerial, EnrichCommitSerial, EnrichFailsSerial
       DEF Enrich
  <2>5. CASE UNCHANGED vars
    <3>1. UNCHANGED <<alarms, task, copy, streak, mixed>>
      BY <2>5 DEF vars, work, history
    <3> QED
      BY <1>1, <3>1, Untouched DEF Rows
  <2> QED
    BY <2>1, <2>2, <2>3, <2>4, <2>5 DEF Next
<1> QED
  BY <1>1, <1>2, <1>3 DEF SerialInv

(* Handled one event at a time, and with no operator in between, a key has *)
(* no active alarm after a clear and after raises one that counts them all,*)
(* whatever happens to other keys and whenever the consumer enriches it.   *)
THEOREM SerialExact == Spec => []SerialIsExact
<1>1. SerialInv => SerialIsExact
  BY DEF SerialInv, Serial, Exact, SerialIsExact
<1> QED
  BY <1>1, InitSerialInv, NextSerialInv, PTL DEF Spec

-----------------------------------------------------------------------------
(* A set of numbers has a least one: it is what a proof by induction over  *)
(* numbers, or over sizes of sets, starts from.                            *)
LEMMA LeastNumber ==
  ASSUME NEW S, S \subseteq Nat, S # {}
  PROVE  \E n \in S : \A m \in S : n <= m
<1> DEFINE R == OpToRel(<, Nat)
<1>1. PICK x \in S : \A y \in S : <<y, x>> \notin R
  <2> HIDE DEF R
  <2>1. IsWellFoundedOn(R, Nat)
    BY NatLessThanWellFounded, Zenon DEF R
  <2> QED
    BY <2>1, WFMin, Zenon
<1>2. \A y \in S : ~(y < x)
  BY <1>1 DEF OpToRel
<1> QED
  BY <1>2

-----------------------------------------------------------------------------
(* AlarmRules.  The alarms as they will be when the trap that is handled   *)
(* has touched its own.                                                    *)
RulesTypeOK ==
  /\ rules \in Seq(Rule)
  /\ raised \in [IfPort -> AlarmKey \cup {NoKey}]
  /\ trap # NoTrap => trap.cls.key \in AlarmKey

Touched == IF trap = NoTrap THEN open
           ELSE IF trap.cls.clear THEN open \ {trap.cls.key}
           ELSE open \cup {trap.cls.key}

RulesInv ==
  /\ RulesTypeOK
  /\ \A k \in AlarmKey \ adrift :
       k \in Touched <=> \E p \in IfPort : raised[p] = k

LEMMA RulesTyped ==
  ASSUME RulesTypeOK
  PROVE  /\ DOMAIN rules = 1 .. Len(rules) /\ Len(rules) \in Nat
         /\ IsFiniteSet(DOMAIN rules)
         /\ \A i \in DOMAIN rules : /\ i \in Nat /\ rules[i] \in Rule
                                    /\ rules[i].priority \in Nat
                                    /\ rules[i].key \in {SharedKey, NoKey}
<1>1. DOMAIN rules = 1 .. Len(rules) /\ Len(rules) \in Nat
  BY DEF RulesTypeOK
<1>2. \A i \in DOMAIN rules : rules[i] \in Rule
  BY DEF RulesTypeOK
<1>3. \A r \in Rule : r.priority \in Nat /\ r.key \in {SharedKey, NoKey}
  BY RulesAssumption DEF Rule
<1> QED
  BY <1>1, <1>2, <1>3, FS_Interval

\* Any two rules are in order.
LEMMA RulesOrder ==
  ASSUME RulesTypeOK
  PROVE  /\ \A i \in DOMAIN rules : ~GoesBefore(i, i)
         /\ \A i, j \in DOMAIN rules : i # j => GoesBefore(i, j) \/ GoesBefore(j, i)
         /\ \A i, j, k \in DOMAIN rules :
              GoesBefore(i, j) /\ GoesBefore(j, k) => GoesBefore(i, k)
BY RulesTyped DEF GoesBefore

\* The rules can be put in a row.
LEMMA RulesInARow ==
  ASSUME RulesTypeOK, NEW E, E \subseteq DOMAIN rules
  PROVE  /\ IsFiniteSet(E) /\ Cardinality(E) \in Nat
         /\ \E row \in [1 .. Cardinality(E) -> E] :
              \A m, n \in 1 .. Cardinality(E) : m < n => GoesBefore(row[m], row[n])
<1> DEFINE place == 1 .. Cardinality(E)
           Sooner(i) == {j \in E : GoesBefore(j, i)}
           rank == [i \in E |-> Cardinality(Sooner(i)) + 1]
<1>1. IsFiniteSet(E) /\ Cardinality(E) \in Nat
  BY RulesTyped, FS_Subset, FS_CardinalityType
<1>2. ASSUME NEW i \in E
      PROVE  /\ IsFiniteSet(Sooner(i)) /\ Cardinality(Sooner(i)) \in Nat
             /\ Cardinality(Sooner(i)) < Cardinality(E)
             /\ Sooner(i) \subseteq E
  <2>1. Sooner(i) \subseteq E /\ i \in E /\ i \notin Sooner(i)
    BY RulesOrder
  <2> HIDE DEF Sooner
  <2>2. /\ IsFiniteSet(Sooner(i)) /\ Cardinality(Sooner(i)) <= Cardinality(E)
        /\ Cardinality(E) = Cardinality(Sooner(i)) => E = Sooner(i)
    BY <1>1, <2>1, FS_Subset
  <2>3. Cardinality(Sooner(i)) \in Nat
    BY <2>2, FS_CardinalityType
  <2> QED
    BY <1>1, <2>1, <2>2, <2>3
<1>3. ASSUME NEW i \in E, NEW j \in E, GoesBefore(i, j)
      PROVE  rank[i] < rank[j]
  <2>1. Sooner(i) \subseteq Sooner(j) /\ i \in Sooner(j) /\ i \notin Sooner(i)
    BY <1>3, RulesOrder
  <2> HIDE DEF Sooner
  <2>2. /\ Cardinality(Sooner(i)) <= Cardinality(Sooner(j))
        /\ Cardinality(Sooner(j)) = Cardinality(Sooner(i)) => Sooner(j) = Sooner(i)
    BY <1>2, <2>1, FS_Subset
  <2> QED
    BY <1>2, <2>1, <2>2
<1>4. \A i \in E : rank[i] \in place
  <2> HIDE DEF Sooner
  <2> QED
    BY <1>1, <1>2
<1> HIDE DEF rank, Sooner
<1>5. rank \in Surjection(E, place)
  <2>1. rank \in [E -> place]
    BY <1>4 DEF rank
  <2>2. \A i, j \in E : i # j => rank[i] # rank[j]
    <3> SUFFICES ASSUME NEW i \in E, NEW j \in E, i # j PROVE rank[i] # rank[j]
      OBVIOUS
    <3>1. GoesBefore(i, j) \/ GoesBefore(j, i)
      BY RulesOrder
    <3>2. rank[i] < rank[j] \/ rank[j] < rank[i]
      BY <1>3, <3>1
    <3> QED
      BY <1>4, <3>2
  <2>3. rank \in Injection(E, place)
    BY <2>1, <2>2 DEF Injection, IsInjective
  <2>4. IsFiniteSet(place) /\ Cardinality(place) = Cardinality(E)
    BY <1>1, FS_Interval
  <2> HIDE DEF place
  <2> QED
    BY <2>3, <2>4, FS_Injection
<1> DEFINE row == [n \in place |-> CHOOSE i \in E : rank[i] = n]
<1>6. \A n \in place : row[n] \in E /\ rank[row[n]] = n
  <2>1. \A n \in place : \E i \in E : rank[i] = n
    BY <1>5 DEF Surjection
  <2> QED
    BY <2>1
<1>7. row \in [place -> E]
  BY <1>6
<1> HIDE DEF row
<1>8. ASSUME NEW m \in place, NEW n \in place, m < n
      PROVE  GoesBefore(row[m], row[n])
  <2>1. row[m] # row[n] /\ ~(rank[row[n]] < rank[row[m]])
    BY <1>6, <1>8
  <2>2. ~GoesBefore(row[n], row[m])
    BY <1>3, <1>6, <2>1
  <2> QED
    BY <1>6, <2>1, <2>2, RulesOrder
<1> QED
  BY <1>1, <1>7, <1>8

\* The first rule that is found is the one that counts.
LEMMA FirstCounts ==
  ASSUME RulesTypeOK, NEW kind
  PROVE  \/ /\ FirstMatch(kind) = << >>
            /\ \A i \in DOMAIN rules : ~Counts(i, kind)
         \/ \E i \in DOMAIN rules : /\ FirstMatch(kind) = <<rules[i]>>
                                    /\ \A j \in DOMAIN rules : Counts(j, kind) <=> j = i
<1> DEFINE enabled == {i \in DOMAIN rules : rules[i].enabled}
           place   == 1 .. Cardinality(enabled)
           Sorted(row) == \A m, n \in place : m < n => GoesBefore(row[m], row[n])
           ordered == CHOOSE row \in [place -> enabled] : Sorted(row)
           match   == {n \in place : kind \in rules[ordered[n]].matches}
           first   == CHOOSE n \in match : \A m \in match : n <= m
<1>1. /\ IsFiniteSet(enabled) /\ Cardinality(enabled) \in Nat
      /\ \E row \in [place -> enabled] : Sorted(row)
  <2>1. enabled \subseteq DOMAIN rules
    OBVIOUS
  <2> HIDE DEF enabled
  <2> QED
    BY <2>1, RulesInARow
<1>2. ordered \in [place -> enabled] /\ Sorted(ordered)
  BY <1>1
<1>3. FirstMatch(kind) = IF match = {} THEN << >> ELSE <<rules[ordered[first]]>>
  BY DEF FirstMatch
<1> HIDE DEF ordered, first
<1>4. \A n \in place : ordered[n] \in enabled
  BY <1>2
<1>5. \A i \in enabled : \E n \in place : ordered[n] = i
  <2>1. \A m, n \in place : m # n => ordered[m] # ordered[n]
    <3> SUFFICES ASSUME NEW m \in place, NEW n \in place, m < n
                 PROVE  ordered[m] # ordered[n]
      BY <1>1
    <3> QED
      BY <1>2, <1>4, RulesOrder
  <2>2. ordered \in Injection(place, enabled)
    BY <1>2, <2>1 DEF Injection, IsInjective
  <2>3. Cardinality(place) = Cardinality(enabled)
    BY <1>1, FS_Interval
  <2> HIDE DEF place, enabled
  <2>4. ordered \in Surjection(place, enabled)
    BY <1>1, <2>2, <2>3, FS_Injection
  <2> QED
    BY <2>4 DEF Surjection
<1>6. \A i : Counts(i, kind) <=>
        /\ i \in enabled /\ kind \in rules[i].matches
        /\ \A j \in enabled : kind \in rules[j].matches => i = j \/ GoesBefore(i, j)
  BY RulesTyped DEF Counts, GoesBefore
<1>7. CASE match = {}
  <2>1. \A i \in enabled : kind \notin rules[i].matches
    BY <1>5, <1>7
  <2> HIDE DEF enabled
  <2> QED
    BY <1>3, <1>6, <1>7, <2>1
<1>8. CASE match # {}
  <2>1. first \in match /\ \A m \in match : first <= m
    <3>1. match \subseteq Nat
      OBVIOUS
    <3> HIDE DEF match
    <3> QED
      BY <1>8, <3>1, LeastNumber DEF first
  <2>2. ordered[first] \in enabled /\ kind \in rules[ordered[first]].matches
    BY <1>4, <2>1
  <2>3. ASSUME NEW j \in enabled, kind \in rules[j].matches
        PROVE  ordered[first] = j \/ GoesBefore(ordered[first], j)
    <3>1. PICK n \in place : ordered[n] = j
      BY <1>5
    <3>2. n \in match
      BY <2>3, <3>1
    <3>3. first <= n /\ first \in place
      BY <2>1, <3>2
    <3>4. first = n \/ first < n
      BY <3>3
    <3> QED
      BY <1>2, <3>1, <3>3, <3>4
  <2> DEFINE i == ordered[first]
  <2>4. i \in DOMAIN rules /\ Counts(i, kind) /\ FirstMatch(kind) = <<rules[i]>>
    BY <1>3, <1>6, <1>8, <2>2, <2>3
  <2>5. \A j \in DOMAIN rules : Counts(j, kind) => j = i
    <3> SUFFICES ASSUME NEW j \in DOMAIN rules, Counts(j, kind), j # i PROVE FALSE
      OBVIOUS
    <3>1. j \in enabled /\ kind \in rules[j].matches
      BY <1>6
    <3>2. GoesBefore(i, j) /\ GoesBefore(j, i)
      BY <1>6, <2>2, <2>3, <3>1
    <3> QED
      BY <2>4, <3>2, RulesOrder
  <2> HIDE DEF i
  <2> QED
    BY <2>4, <2>5
<1> QED
  BY <1>7, <1>8

\* A trap is rewritten as an operator who reads the rules expects.
LEMMA RewrittenAsExpected ==
  ASSUME RulesTypeOK, NEW p \in IfPort, NEW kind \in TrapKind
  PROVE  /\ Rewritten(p, kind).clear = ExpectedClear(kind)
         /\ Rewritten(p, kind).key = ExpectedKey(p, kind)
<1>1. CASE /\ FirstMatch(kind) = << >>
           /\ \A i \in DOMAIN rules : ~Counts(i, kind)
  BY <1>1 DEF Rewritten, ExpectedClear, ExpectedKey, Classified
<1>2. ASSUME NEW i \in DOMAIN rules, FirstMatch(kind) = <<rules[i]>>,
             \A j \in DOMAIN rules : Counts(j, kind) <=> j = i
      PROVE  /\ Rewritten(p, kind).clear = ExpectedClear(kind)
             /\ Rewritten(p, kind).key = ExpectedKey(p, kind)
  <2>1. Rewritten(p, kind) = ApplyRule(Classified(p, kind), rules[i])
    BY <1>2 DEF Rewritten
  <2>2. /\ Rewritten(p, kind).clear = (rules[i].auto_clear \/ rules[i].severity = "clear")
        /\ Rewritten(p, kind).key = IF rules[i].key = NoKey THEN p ELSE rules[i].key
    BY <2>1 DEF ApplyRule, Classified
  <2>3. ExpectedClear(kind) = (rules[i].auto_clear \/ rules[i].severity = "clear")
    BY <1>2 DEF ExpectedClear
  <2>4. ExpectedKey(p, kind) = IF rules[i].key # NoKey THEN SharedKey ELSE p
    BY <1>2 DEF ExpectedKey
  <2>5. rules[i].key \in {SharedKey, NoKey}
    BY RulesTyped
  <2> QED
    BY <2>2, <2>3, <2>4, <2>5
<1> QED
  BY <1>1, <1>2, FirstCounts

LEMMA RulesInitInv == RulesInit => RulesInv
BY RulesAssumption DEF RulesInit, RulesInv, RulesTypeOK, Touched, AlarmKey

LEMMA ReceiveTrapKeeps ==
  ASSUME RulesInv, NEW p \in IfPort, NEW kind \in TrapKind, ReceiveTrap(p, kind)
  PROVE  RulesInv'
<1> DEFINE key   == ExpectedKey(p, kind)
           clear == ExpectedClear(kind)
           was   == raised[p]
<1>1. /\ trap = NoTrap /\ UNCHANGED <<rules, open>>
      /\ trap' = [at |-> "handled", port |-> p, cls |-> Rewritten(p, kind)]
      /\ raised' = [raised EXCEPT ![p] = IF clear THEN NoKey ELSE key]
      /\ adrift' = (adrift \ (IF clear THEN {} ELSE {key}))
           \cup (IF was \in AlarmKey /\ (was # key) THEN {was} ELSE {})
           \cup (IF clear /\ \E q \in IfPort \ {p} : raised[q] = key THEN {key} ELSE {})
  BY DEF ReceiveTrap
<1>2. trap' # NoTrap /\ trap'.cls.clear = clear /\ trap'.cls.key = key
  BY <1>1, RewrittenAsExpected DEF NoTrap, RulesInv
<1>3. key \in AlarmKey /\ NoKey \notin AlarmKey
  BY RulesAssumption DEF ExpectedKey, AlarmKey
<1>4. Touched = open /\ Touched' = IF clear THEN open \ {key} ELSE open \cup {key}
  BY <1>1, <1>2 DEF Touched
<1> HIDE DEF key, clear
<1>5. /\ raised' \in [IfPort -> AlarmKey \cup {NoKey}]
      /\ raised'[p] = IF clear THEN NoKey ELSE key
      /\ \A q \in IfPort \ {p} : raised'[q] = raised[q]
  BY <1>1, <1>3 DEF RulesInv, RulesTypeOK
<1>6. RulesTypeOK'
  BY <1>1, <1>2, <1>3, <1>5 DEF RulesInv, RulesTypeOK
<1>7. ASSUME NEW k \in AlarmKey, k \notin adrift'
      PROVE  k \in Touched' <=> \E q \in IfPort : raised'[q] = k
  <2>1. CASE k = key
    BY <1>1, <1>3, <1>4, <1>5, <1>7, <2>1
  <2>2. CASE k # key
    <3>1. k \notin adrift /\ was # k
      BY <1>1, <1>7, <2>2
    <3>2. k \in open <=> \E q \in IfPort : raised[q] = k
      BY <1>4, <3>1 DEF RulesInv
    <3> QED
      BY <1>3, <1>4, <1>5, <2>2, <3>1, <3>2
  <2> QED
    BY <2>1, <2>2
<1>8. AlarmKey' = AlarmKey
  BY DEF AlarmKey
<1> QED
  BY <1>6, <1>7, <1>8 DEF RulesInv

LEMMA RuleDeleted ==
  ASSUME RulesTypeOK, NEW i \in DOMAIN rules
  PROVE  SubSeq(rules, 1, i - 1) \o SubSeq(rules, i + 1, Len(rules)) \in Seq(Rule)
<1>1. rules \in Seq(Rule) /\ Len(rules) \in Nat /\ i \in 1 .. Len(rules)
  BY RulesTyped DEF RulesTypeOK
<1>2. SubSeq(rules, 1, i - 1) \in Seq(Rule)
  BY <1>1
<1>3. SubSeq(rules, i + 1, Len(rules)) \in Seq(Rule)
  BY <1>1
<1> QED
  BY <1>2, <1>3

LEMMA RulesStepInv ==
  ASSUME RulesInv, [RulesNext]_rules_vars
  PROVE  RulesInv'
<1>1. ASSUME NEW p \in IfPort, NEW kind \in TrapKind, ReceiveTrap(p, kind)
      PROVE  RulesInv'
  BY <1>1, ReceiveTrapKeeps
<1>2. CASE TouchAlarm
  <2>1. Touched' = Touched /\ UNCHANGED <<rules, raised, adrift>> /\ trap' = NoTrap
    BY <1>2 DEF TouchAlarm, Touched
  <2> QED
    BY <2>1 DEF RulesInv, RulesTypeOK
<1>3. ASSUME NEW rs \in Seq(Rule), EditRules(rs)
      PROVE  RulesInv'
  <2>1. rules' \in Seq(Rule) /\ UNCHANGED <<trap, open, raised, adrift>>
    BY <1>3 DEF EditRules
  <2>2. Touched' = Touched
    BY <2>1 DEF Touched
  <2> QED
    BY <2>1, <2>2 DEF RulesInv, RulesTypeOK
<1>4. CASE CreateRule
  <2>1. PICK r \in Rule : EditRules(Append(rules, r))
    BY <1>4 DEF CreateRule
  <2>2. Append(rules, r) \in Seq(Rule)
    BY DEF RulesInv, RulesTypeOK
  <2> QED
    BY <1>3, <2>1, <2>2
<1>5. CASE UpdateRule
  <2>1. PICK i \in DOMAIN rules, r \in Rule : EditRules([rules EXCEPT ![i] = r])
    BY <1>5 DEF UpdateRule
  <2>2. [rules EXCEPT ![i] = r] \in Seq(Rule)
    BY DEF RulesInv, RulesTypeOK
  <2> QED
    BY <1>3, <2>1, <2>2
<1>6. CASE DeleteRule
  <2>1. PICK i \in DOMAIN rules :
          EditRules(SubSeq(rules, 1, i - 1) \o SubSeq(rules, i + 1, Len(rules)))
    BY <1>6 DEF DeleteRule
  <2>2. SubSeq(rules, 1, i - 1) \o SubSeq(rules, i + 1, Len(rules)) \in Seq(Rule)
    BY RuleDeleted DEF RulesInv
  <2> QED
    BY <1>3, <2>1, <2>2
<1>7. CASE UNCHANGED rules_vars
  BY <1>7 DEF rules_vars, RulesInv, RulesTypeOK, Touched
<1> QED
  BY <1>1, <1>2, <1>4, <1>5, <1>6, <1>7 DEF RulesNext

LEMMA RulesInvImplies == RulesInv => OpenForCause
BY DEF RulesInv, OpenForCause, Touched

(* Between traps, an alarm is open just when a port is down by it, but for *)
(* those the rules set adrift, whatever rules there are, however they are  *)
(* edited and in whichever order traps come (alarm_rules, trap_rules.py).  *)
THEOREM AlarmsAreOpenForCause == RulesSpec => []OpenForCause
<1>1. RulesInv /\ [RulesNext]_rules_vars => RulesInv'
  BY RulesStepInv
<1> QED
  BY <1>1, RulesInitInv, RulesInvImplies, PTL DEF RulesSpec

=============================================================================
