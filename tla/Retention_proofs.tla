--------------------------- MODULE Retention_proofs ---------------------------
(* Theorems about Retention, for any number of attempts, holds, exports,       *)
(* files and workers.                                                          *)
EXTENDS Retention, TLAPS

USE RowAssumption, BoundAssumption

(***************************************************************************)
(* The invariant.                                                          *)
(***************************************************************************)
WorkType == [op : Ops, on : Owners \cup Holds \cup Exports \cup {Nobody}, sync : BOOLEAN,
             left : SUBSET Evidence, copy : {"none", "FULL", "PARTIAL"}, retry : Nat]

\* What a task may be about.
Sensible(t) ==
    /\ t.op \in {"purge", "scrub", "clean", "mint"} => t.on \in Attempts
    /\ t.op = "hold" => t.on \in Owners
    /\ t.op = "release" => t.on \in Holds /\ hold[t.on].status # "NONE"
    /\ t.op \in {"snapshot", "copy", "generate", "write"} =>
           t.on \in Exports /\ export[t.on].status # "NONE"
    /\ t.op = "copy" => export[t.on].on \in Attempts

WorkInv ==
    /\ \A w \in Workers : Sensible(work[w])
    /\ \A m \in messages :
           /\ m.task = "clean" => m.on \in Attempts
           /\ m.task = "export" => m.on \in Exports /\ export[m.on].status # "NONE"
    /\ \A h \in Holds : hold[h].status # "NONE" => hold[h].on \in Owners
    /\ \A j \in Exports : export[j].status # "NONE" => export[j].on \in Targets

\* A worker holds the locks it has taken.
LockInv ==
    \A w \in Workers :
        /\ taken[w] <= Len(LocksOf(work[w]))
        /\ \A i \in 1..taken[w] : lock[LocksOf(work[w])[i]] = w

\* What was read under the locks is still so.
OneStage(w) ==
    /\ work[w].op = "scrub" =>
           /\ taken[w] = 4 /\ ~HasActiveHold(work[w].on) /\ record[work[w].on] # "PURGED"
    /\ work[w].op = "copy" =>
           /\ taken[w] = 5 /\ work[w].copy # "none"
           /\ work[w].copy = "FULL" => record[export[work[w].on].on] \notin Scrubbed
           /\ work[w].copy = "PARTIAL" => record[export[work[w].on].on] \in Scrubbed
    /\ work[w].op \in {"generate", "write"} => export[work[w].on].status # "REQUESTED"

StageInv == \A w \in Workers : OneStage(w)

DataInv ==
    /\ TombstoneTruthful /\ ArchiveHonest
    /\ \A a \in Attempts :
           /\ record[a] \in Scrubbed => a \notin details
           /\ a \notin details => record[a] \in Scrubbed \/ a \in reopened
    /\ \A e \in disk : e[1] \notin details => queue[e] \notin {"NONE", "CONFIRMED"}

IInv == TypeOK /\ WorkInv /\ LockInv /\ StageInv /\ DataInv

(***************************************************************************)
(* Locks.                                                                  *)
(***************************************************************************)
LEMMA LockFacts ==
    ASSUME NEW t, Sensible(t), WorkInv
    PROVE  /\ Len(LocksOf(t)) \in 0..5
           /\ \A i \in 1..Len(LocksOf(t)) : LocksOf(t)[i] \in Rows
           /\ t.op \in {"purge", "scrub"} => LocksOf(t) = PurgeLocks(t.on) /\ Len(LocksOf(t)) = 4
           /\ t.op = "hold" => LocksOf(t) = <<t.on>> /\ Len(LocksOf(t)) = 1
           /\ t.op = "mint" => LocksOf(t) = <<RecordOf(t.on)>> /\ Len(LocksOf(t)) = 1
           /\ t.op = "copy" => LocksOf(t) = ExportLocks(t.on, export[t.on].on)
                               /\ Len(LocksOf(t)) = 5
<1>1. CASE t.op \in {"purge", "scrub"}
  BY <1>1 DEF LocksOf, PurgeLocks, Sensible, Rows
<1>2. CASE t.op = "hold"
  BY <1>2 DEF LocksOf, HoldLocks, Sensible, Rows, Owners
<1>3. CASE t.op = "release"
  BY <1>3 DEF LocksOf, HoldLocks, Sensible, Rows, Owners, WorkInv
<1>4. CASE t.op \in {"snapshot", "copy"}
  <2>1. t.on \in Exports /\ export[t.on].on \in Attempts \cup {Student}
    BY <1>4 DEF Sensible, WorkInv, Targets
  <2>2. t.op = "copy" => export[t.on].on # Student
    BY <1>4 DEF Sensible
  <2> QED BY <1>4, <2>1, <2>2 DEF LocksOf, ExportLocks, Rows
<1>5. CASE t.op = "mint"
  BY <1>5 DEF LocksOf, Sensible, Rows
<1>6. CASE t.op \notin {"purge", "scrub", "hold", "release", "snapshot", "copy", "mint"}
  BY <1>6 DEF LocksOf
<1> QED BY <1>1, <1>2, <1>3, <1>4, <1>5, <1>6

\* What a row of LegalHold or ExportJob is about never changes.
Kept ==
    /\ \A h \in Holds : hold[h].status # "NONE" =>
           hold'[h].on = hold[h].on /\ hold'[h].status # "NONE"
    /\ \A j \in Exports : export[j].status # "NONE" =>
           /\ export'[j].on = export[j].on /\ export'[j].status # "NONE"
           /\ export[j].status # "REQUESTED" => export'[j].status # "REQUESTED"

\* How a step may change what workers do.
Moves(w, t) ==
    \/ Begin(w, t) /\ t.op # "idle"
    \/ GoOn(w, t)
    \/ /\ work' = [work EXCEPT ![w] = t] /\ UNCHANGED <<taken, lock>>
       /\ LocksOf(t) = LocksOf(work[w])

LEMMA LocksStable ==
    ASSUME Kept, NEW t, Sensible(t)
    PROVE  LocksOf(t)' = LocksOf(t) /\ Sensible(t)'
BY DEF Kept, Sensible, LocksOf, HoldLocks, ExportLocks, PurgeLocks

LEMMA LockMoves ==
    ASSUME TypeOK, WorkInv, LockInv, Kept, NEW w \in Workers, NEW t \in WorkType, Sensible(t),
           Moves(w, t)
    PROVE  LockInv' /\ taken' \in [Workers -> 0..5]
                    /\ lock' \in [Rows -> Workers \cup {Nobody}]
                    /\ work' \in [Workers -> WorkType]
<1>1. /\ \A v \in Workers : Sensible(work[v])
      /\ lock \in [Rows -> Workers \cup {Nobody}] /\ taken \in [Workers -> 0..5]
      /\ work \in [Workers -> WorkType]
  BY DEF WorkInv, TypeOK, WorkType
<1>2. work' = [work EXCEPT ![w] = t]
  BY DEF Moves, Begin, GoOn
<1>3. \A v \in Workers : work'[v] = IF v = w THEN t ELSE work[v]
  BY <1>1, <1>2
<1>4. ASSUME NEW v \in Workers, v # w PROVE LocksOf(work[v])' = LocksOf(work[v])
  <2>1. PICK u \in WorkType : u = work[v] /\ u = work'[v] /\ Sensible(u)
    BY <1>1, <1>3, <1>4
  <2>2. LocksOf(u)' = LocksOf(u)
    BY <2>1, LocksStable
  <2> QED BY <2>1, <2>2 DEF LocksOf, HoldLocks, ExportLocks, PurgeLocks
<1>5. LocksOf(work[w])' = LocksOf(t)
  <2>1. LocksOf(t)' = LocksOf(t) /\ work'[w] = t
    BY <1>3, LocksStable
  <2> QED BY <2>1 DEF LocksOf, HoldLocks, ExportLocks, PurgeLocks
<1>6. \A v \in Workers : /\ Len(LocksOf(work[v])) \in 0..5
                         /\ \A i \in 1..Len(LocksOf(work[v])) : LocksOf(work[v])[i] \in Rows
  BY <1>1, LockFacts
<1>7. Len(LocksOf(t)) \in 0..5
  BY LockFacts
<1>8. CASE Begin(w, t)
  <2>1. taken[w] = 0
    <3>1. LocksOf(work[w]) = <<>>
      BY <1>8 DEF Begin, Idle, Task, LocksOf
    <3> QED BY <1>1, <3>1 DEF LockInv
  <2>2. taken' = taken /\ lock' = lock
    BY <1>8 DEF Begin
  <2>3. ASSUME NEW v \in Workers PROVE LockInv!(v)'
    BY <1>1, <1>4, <1>5, <1>7, <2>1, <2>2 DEF LockInv
  <2> QED BY <1>1, <1>2, <2>2, <2>3 DEF LockInv
<1>9. CASE GoOn(w, t)
  <2>1. /\ taken' = [taken EXCEPT ![w] = 0]
        /\ lock' = [r \in Rows |-> IF lock[r] = w THEN Nobody ELSE lock[r]]
    BY <1>9 DEF GoOn
  <2>2. ASSUME NEW v \in Workers PROVE LockInv!(v)'
    <3>1. CASE v = w
      BY <1>1, <1>5, <1>7, <2>1, <3>1
    <3>2. CASE v # w
      BY <1>1, <1>4, <1>6, <2>1, <3>2 DEF LockInv
    <3> QED BY <3>1, <3>2
  <2> QED BY <1>1, <1>2, <2>1, <2>2 DEF LockInv
<1>10. CASE UNCHANGED <<taken, lock>> /\ LocksOf(t) = LocksOf(work[w])
  BY <1>1, <1>2, <1>4, <1>5, <1>10 DEF LockInv
<1> QED BY <1>8, <1>9, <1>10 DEF Moves

LEMMA AcquireStep ==
    ASSUME TypeOK, WorkInv, LockInv, NEW w \in Workers, Acquire(w)
    PROVE  LockInv' /\ taken' \in [Workers -> 0..5] /\ lock' \in [Rows -> Workers \cup {Nobody}]
<1>1. /\ lock \in [Rows -> Workers \cup {Nobody}] /\ taken \in [Workers -> 0..5]
      /\ \A v \in Workers : /\ Len(LocksOf(work[v])) \in 0..5
                            /\ \A i \in 1..Len(LocksOf(work[v])) : LocksOf(work[v])[i] \in Rows
  BY LockFacts DEF TypeOK, WorkInv
<1>2. PICK r : r = LocksOf(work[w])[taken[w] + 1]
  OBVIOUS
<1>3. /\ taken[w] < Len(LocksOf(work[w])) /\ lock[r] = Nobody /\ r \in Rows
      /\ lock' = [lock EXCEPT ![r] = w] /\ taken' = [taken EXCEPT ![w] = @ + 1]
      /\ UNCHANGED <<hold, export, work>>
  <2>1. taken[w] + 1 \in 1..Len(LocksOf(work[w]))
    BY <1>1 DEF Acquire, Waiting
  <2> QED BY <1>1, <1>2, <2>1 DEF Acquire, Waiting, NextRow
<1>4. \A v \in Workers : LocksOf(work[v])' = LocksOf(work[v])
  BY <1>3 DEF LocksOf, HoldLocks, PurgeLocks, ExportLocks
<1>5. ASSUME NEW v \in Workers PROVE LockInv!(v)'
  <2>1. CASE v = w
    <3>1. taken'[w] = taken[w] + 1 /\ taken'[w] <= Len(LocksOf(work[w]))
      BY <1>1, <1>3
    <3>2. ASSUME NEW i \in 1..taken'[w] PROVE lock'[LocksOf(work[w])[i]] = w
      <4>1. CASE i = taken[w] + 1
        BY <1>1, <1>2, <1>3, <4>1
      <4>2. CASE i # taken[w] + 1
        <5>1. i \in 1..taken[w] /\ i \in 1..Len(LocksOf(work[w]))
          BY <1>1, <3>1, <4>2
        <5>2. lock[LocksOf(work[w])[i]] = w /\ LocksOf(work[w])[i] \in Rows
          BY <1>1, <5>1 DEF LockInv
        <5> QED BY <1>1, <1>3, <5>2
      <4> QED BY <4>1, <4>2
    <3> QED BY <1>4, <2>1, <3>1, <3>2
  <2>2. CASE v # w
    <3>1. taken'[v] = taken[v] /\ taken[v] <= Len(LocksOf(work[v]))
      BY <1>1, <1>3, <2>2 DEF LockInv
    <3>2. ASSUME NEW i \in 1..taken[v] PROVE lock'[LocksOf(work[v])[i]] = v
      <4>1. lock[LocksOf(work[v])[i]] = v /\ LocksOf(work[v])[i] \in Rows
        BY <1>1, <3>1 DEF LockInv
      <4> QED BY <1>1, <1>3, <4>1
    <3> QED BY <1>4, <3>1, <3>2
  <2> QED BY <2>1, <2>2
<1>6. taken[w] + 1 \in 0..5
  <2>1. taken[w] \in 0..5 /\ Len(LocksOf(work[w])) \in 0..5
    BY <1>1
  <2>2. taken[w] < Len(LocksOf(work[w]))
    BY <1>3
  <2>3. \A n, m \in 0..5 : n < m => n + 1 \in 0..5
    OBVIOUS
  <2> QED BY <2>1, <2>2, <2>3
<1>7. taken' \in [Workers -> 0..5] /\ lock' \in [Rows -> Workers \cup {Nobody}]
  BY <1>1, <1>3, <1>6
<1> QED BY <1>5, <1>7 DEF LockInv

\* Two workers cannot both have the locks of steps that write the same record.
LEMMA Exclusion ==
    ASSUME TypeOK, WorkInv, LockInv, NEW v \in Workers, NEW w \in Workers,
           NEW i \in 1..taken[v], NEW k \in 1..taken[w],
           LocksOf(work[v])[i] = LocksOf(work[w])[k]
    PROVE  v = w
BY DEF LockInv

\* Another worker than w has read the state of b under its locks.
Busy(b, w) ==
    \E v \in Workers \ {w} :
        \/ work[v].op = "scrub" /\ work[v].on = b
        \/ work[v].op = "copy" /\ export[work[v].on].on = b

LEMMA Shut ==
    ASSUME IInv, NEW w \in Workers, NEW b \in Attempts, Busy(b, w), NEW i \in 1..taken[w]
    PROVE  LocksOf(work[w])[i] \notin {Exam, Student, b, RecordOf(b)}
<1>1. PICK v \in Workers \ {w} :
         \/ work[v].op = "scrub" /\ work[v].on = b
         \/ work[v].op = "copy" /\ export[work[v].on].on = b
  BY DEF Busy
<1>2. Sensible(work[v]) /\ OneStage(v)
  BY DEF IInv, WorkInv, StageInv
<1>3. CASE work[v].op = "scrub" /\ work[v].on = b
  <2>1. taken[v] = 4 /\ LocksOf(work[v]) = <<Exam, Student, b, RecordOf(b)>>
    BY <1>2, <1>3, LockFacts DEF OneStage, IInv, PurgeLocks
  <2> QED BY <2>1, Exclusion DEF IInv
<1>4. CASE work[v].op = "copy" /\ export[work[v].on].on = b
  <2>1. taken[v] = 5 /\ LocksOf(work[v]) = <<work[v].on, Exam, Student, b, RecordOf(b)>>
    BY <1>2, <1>4, LockFacts DEF OneStage, IInv, ExportLocks
  <2> QED BY <2>1, Exclusion DEF IInv
<1> QED BY <1>1, <1>3, <1>4

LEMMA StageOthers ==
    ASSUME IInv, Kept, NEW w \in Workers, NEW t \in WorkType, work' = [work EXCEPT ![w] = t],
           \A v \in Workers \ {w} : taken'[v] = taken[v],
           \A b \in Attempts : Busy(b, w) => /\ record'[b] = record[b]
                                             /\ HasActiveHold(b)' => HasActiveHold(b)
    PROVE  \A v \in Workers \ {w} : OneStage(v)'
<1> SUFFICES ASSUME NEW v \in Workers \ {w} PROVE OneStage(v)'
  OBVIOUS
<1>1. work'[v] = work[v] /\ taken'[v] = taken[v] /\ OneStage(v) /\ Sensible(work[v])
  BY DEF IInv, StageInv, TypeOK, WorkInv
<1>2. CASE work[v].op = "scrub"
  <2>1. PICK b \in Attempts : b = work[v].on
    BY <1>1, <1>2 DEF Sensible
  <2>2. Busy(b, w)
    BY <1>2, <2>1 DEF Busy
  <2>3. record'[b] = record[b] /\ ~HasActiveHold(b)'
    BY <1>1, <1>2, <2>1, <2>2 DEF OneStage
  <2>4. ~HasActiveHold(work[v].on)'
    BY <1>1, <2>1, <2>3 DEF HasActiveHold
  <2> QED BY <1>1, <1>2, <2>1, <2>3, <2>4 DEF OneStage
<1>3. CASE work[v].op = "copy"
  <2>1. PICK b \in Attempts : b = export[work[v].on].on
    BY <1>1, <1>3 DEF Sensible
  <2>2. Busy(b, w)
    BY <1>3, <2>1 DEF Busy
  <2>3. export'[work[v].on].on = b /\ record'[b] = record[b]
    BY <1>1, <1>3, <2>1, <2>2 DEF Kept, Sensible
  <2> QED BY <1>1, <1>3, <2>1, <2>3 DEF OneStage
<1>4. CASE work[v].op \in {"generate", "write"}
  <2>1. work[v].on \in Exports /\ export[work[v].on].status \notin {"NONE", "REQUESTED"}
    BY <1>1, <1>4 DEF Sensible, OneStage
  <2>2. export'[work[v].on].status # "REQUESTED"
    BY <2>1 DEF Kept
  <2> QED BY <1>1, <1>4, <2>2 DEF OneStage
<1> QED BY <1>1, <1>2, <1>3, <1>4 DEF OneStage

(***************************************************************************)
(* Steps that do not touch the attempt's data.                             *)
(***************************************************************************)
RestTyped ==
    /\ due \subseteq Attempts /\ listed \subseteq Attempts /\ previewed \subseteq Attempts
    /\ messages \subseteq [task : {"clean", "export"}, on : Attempts \cup Exports,
                           retry : Nat]
    /\ export \in [Exports -> [on : Targets \cup {Nobody}, full : BOOLEAN,
                               archive : {"FULL", "PARTIAL"},
                               status : {"NONE", "REQUESTED", "READY", "FAILED", "EXPIRED"}
                                        \cup Protected]]
    /\ faults \in Nat

RestInv ==
    /\ \A m \in messages :
           /\ m.task = "clean" => m.on \in Attempts
           /\ m.task = "export" => m.on \in Exports /\ export[m.on].status # "NONE"
    /\ \A j \in Exports : export[j].status # "NONE" => export[j].on \in Targets

DataTyped ==
    /\ details \subseteq Attempts /\ record \in [Attempts -> PurgeStates]
    /\ disk \subseteq Evidence /\ tombstones \subseteq Attempts
    /\ queue \in [Evidence -> QueueStates] /\ reopened \subseteq Attempts
    /\ hold \in [Holds -> [on : Owners \cup {Nobody}, status : {"NONE", "ACTIVE", "RELEASED"}]]

HoldInv == \A h \in Holds : hold[h].status # "NONE" => hold[h].on \in Owners

WorkTyped ==
    /\ work \in [Workers -> WorkType] /\ taken \in [Workers -> 0..5]
    /\ lock \in [Rows -> Workers \cup {Nobody}]

LEMMA Parts ==
    /\ TypeOK <=> RestTyped /\ DataTyped /\ WorkTyped
    /\ WorkInv <=> RestInv /\ HoldInv /\ \A w \in Workers : Sensible(work[w])
BY DEF TypeOK, RestTyped, DataTyped, WorkTyped, WorkType, WorkInv, RestInv, HoldInv

LEMMA PartsNext ==
    /\ TypeOK' <=> RestTyped' /\ DataTyped' /\ WorkTyped'
    /\ WorkInv' <=> RestInv' /\ HoldInv' /\ \A w \in Workers : Sensible(work[w])'
BY DEF TypeOK, RestTyped, DataTyped, WorkTyped, WorkType, WorkInv, RestInv, HoldInv

LEMMA AllSensible ==
    ASSUME IInv, Kept, NEW w \in Workers, NEW t \in WorkType, Sensible(t),
           work' = [work EXCEPT ![w] = t]
    PROVE  \A v \in Workers : Sensible(work[v])'
<1> SUFFICES ASSUME NEW v \in Workers PROVE Sensible(work[v])'
  OBVIOUS
<1>1. PICK u \in WorkType : u = work'[v] /\ Sensible(u)
  BY Parts DEF IInv, WorkTyped
<1>2. Sensible(u)'
  BY <1>1, LocksStable
<1> QED BY <1>1, <1>2 DEF Sensible

LEMMA TakenOthers ==
    ASSUME IInv, NEW w \in Workers, NEW t \in WorkType, Moves(w, t)
    PROVE  /\ work' = [work EXCEPT ![w] = t]
           /\ \A v \in Workers \ {w} : taken'[v] = taken[v]
BY Parts DEF IInv, WorkTyped, Moves, Begin, GoOn

LEMMA Quiet ==
    ASSUME IInv, Kept, NEW w \in Workers, NEW t \in WorkType, Sensible(t),
           t.op \notin {"scrub", "copy"}, Moves(w, t),
           t.op \in {"generate", "write"} => export'[t.on].status # "REQUESTED",
           UNCHANGED <<record, details, reopened, disk, queue, tombstones, hold>>,
           RestTyped', RestInv', ArchiveHonest'
    PROVE  IInv'
<1>1. LockInv' /\ WorkTyped'
  BY LockMoves DEF IInv, WorkTyped
<1>2. TypeOK'
  BY <1>1, Parts, PartsNext DEF IInv, DataTyped
<1>3. WorkInv'
  BY AllSensible, TakenOthers, Parts, PartsNext DEF IInv, HoldInv
<1>4. StageInv'
  <2>1. \A v \in Workers \ {w} : OneStage(v)'
    BY StageOthers, TakenOthers DEF HasActiveHold, ActiveOn
  <2>2. work'[w] = t
    BY TakenOthers, Parts DEF IInv, WorkTyped
  <2>3. OneStage(w)'
    BY <2>2 DEF OneStage
  <2> QED BY <2>1, <2>3 DEF StageInv
<1>5. DataInv'
  BY DEF IInv, DataInv, TombstoneTruthful
<1> QED BY <1>1, <1>2, <1>3, <1>4, <1>5 DEF IInv

\* The same for steps that begin or end something and leave the exports alone.
LEMMA QuietWork ==
    ASSUME IInv, NEW w \in Workers, NEW t \in WorkType, Sensible(t),
           t.op \notin {"scrub", "copy", "generate", "write"}, Moves(w, t),
           UNCHANGED <<record, details, reopened, disk, queue, tombstones, hold, export, due>>,
           listed' \subseteq listed, UNCHANGED previewed, messages' \subseteq messages,
           faults' \in Nat
    PROVE  IInv'
<1>1. RestTyped' /\ RestInv'
  BY Parts DEF IInv, RestTyped, RestInv
<1>2. Kept /\ ArchiveHonest'
  BY DEF Kept, IInv, DataInv, ArchiveHonest
<1> QED BY <1>1, <1>2, Quiet

LEMMA TaskFacts ==
    /\ Idle \in WorkType /\ Sensible(Idle) /\ Idle.op = "idle"
    /\ \A op \in Ops, x \in Owners \cup Holds \cup Exports :
           Task(op, x) \in WorkType /\ Task(op, x).op = op /\ Task(op, x).on = x
<1>1. 0 \in Nat
  OBVIOUS
<1>2. Idle \in WorkType /\ Sensible(Idle) /\ Idle.op = "idle"
  BY <1>1 DEF Idle, Task, WorkType, Sensible, Ops
<1>3. ASSUME NEW op \in Ops, NEW x \in Owners \cup Holds \cup Exports
      PROVE  Task(op, x) \in WorkType /\ Task(op, x).op = op /\ Task(op, x).on = x
  <2>1. Task(op, x) = [op |-> op, on |-> x, sync |-> FALSE, left |-> {}, copy |-> "none",
                       retry |-> 0]
    BY DEF Task
  <2> QED BY <1>1, <2>1 DEF WorkType
<1> QED BY <1>2, <1>3

LEMMA EndQuiet ==
    ASSUME IInv, NEW w \in Workers, End(w),
           UNCHANGED <<record, details, reopened, disk, queue, tombstones, hold, export, due>>,
           listed' \subseteq listed, UNCHANGED previewed, messages' \subseteq messages,
           faults' \in Nat
    PROVE  IInv'
<1>1. Moves(w, Idle)
  BY DEF End, Moves
<1> QED BY <1>1, QuietWork, TaskFacts

\* A message that comes again is about what the task was about.
LEMMA RetryKeeps ==
    ASSUME IInv, NEW w \in Workers, Retry(w),
           work[w].op \in {"snapshot", "copy", "generate", "write", "clean", "mint"}
    PROVE  /\ messages' \subseteq [task : {"clean", "export"}, on : Attempts \cup Exports, retry : Nat]
           /\ \A m \in messages' :
                  /\ m.task = "clean" => m.on \in Attempts
                  /\ m.task = "export" => m.on \in Exports /\ export[m.on].status # "NONE"
<1> DEFINE task == IF work[w].op \in {"clean", "mint"} THEN "clean" ELSE "export"
           new == Message(task, work[w].on, work[w].retry + 1)
<1>1. RestTyped /\ RestInv /\ Sensible(work[w]) /\ work[w].retry \in Nat
  BY Parts DEF IInv, WorkTyped, WorkType
<1>2. \A m \in messages' : m \in messages \/ m = new
  BY DEF Retry
<1>3. /\ new \in [task : {"clean", "export"}, on : Attempts \cup Exports, retry : Nat]
      /\ new.task = "clean" => new.on \in Attempts
      /\ new.task = "export" => new.on \in Exports /\ export[new.on].status # "NONE"
  BY <1>1 DEF Message, Sensible
<1> HIDE DEF new
<1> QED BY <1>1, <1>2, <1>3 DEF RestTyped, RestInv

LEMMA RaiseSteps ==
    ASSUME IInv, NEW w \in Workers, TaskRaises(w)
    PROVE  IInv'
<1> USE DEF purgeVars, fileVars, taskVars
<1>1. RestTyped /\ RestInv /\ ArchiveHonest
  BY Parts DEF IInv, DataInv
<1>2. RestTyped' /\ RestInv'
  BY <1>1, RetryKeeps DEF TaskRaises, RestTyped, RestInv
<1>3. Kept /\ ArchiveHonest'
  BY <1>1 DEF TaskRaises, Kept, ArchiveHonest
<1>4. Moves(w, Idle)
  BY DEF TaskRaises, End, Moves
<1> QED BY <1>2, <1>3, <1>4, Quiet, TaskFacts DEF TaskRaises

LEMMA BeginSteps ==
    ASSUME IInv, NEW w \in Workers,
           \/ \E o \in Owners : RequestHold(w, o)
           \/ \E h \in Holds : RequestRelease(w, h)
           \/ \E a \in Attempts : DailyPurge(w, a) \/ ManualPurge(w, a)
    PROVE  IInv'
<1> USE DEF purgeVars, fileVars, taskVars
<1>0. faults \in Nat
  BY Parts DEF IInv, RestTyped
<1>1. ASSUME NEW o \in Owners, RequestHold(w, o) PROVE IInv'
  <2>1. Sensible(Task("hold", o)) /\ Task("hold", o) \in WorkType /\ Task("hold", o).op = "hold"
    BY TaskFacts DEF Sensible, Ops
  <2> QED BY <1>0, <1>1, <2>1, QuietWork DEF RequestHold, Moves
<1>2. ASSUME NEW h \in Holds, RequestRelease(w, h) PROVE IInv'
  <2>1. /\ Sensible(Task("release", h)) /\ Task("release", h) \in WorkType
        /\ Task("release", h).op = "release"
    BY <1>2, TaskFacts DEF Sensible, RequestRelease, Ops
  <2> QED BY <1>0, <1>2, <2>1, QuietWork DEF RequestRelease, Moves
<1>3. ASSUME NEW a \in Attempts, DailyPurge(w, a) PROVE IInv'
  <2>1. Sensible(Task("purge", a)) /\ Task("purge", a) \in WorkType /\ Task("purge", a).op = "purge"
    BY TaskFacts DEF Sensible, Ops, Owners
  <2> QED BY <1>0, <1>3, <2>1, QuietWork DEF DailyPurge, Moves
<1>4. ASSUME NEW a \in Attempts, ManualPurge(w, a) PROVE IInv'
  <2> DEFINE t == [Task("purge", a) EXCEPT !.sync = TRUE]
  <2>1. Task("purge", a) \in WorkType /\ Task("purge", a).op = "purge" /\ Task("purge", a).on = a
    BY TaskFacts DEF Ops, Owners
  <2>2. t \in WorkType /\ t.op = "purge" /\ t.on = a
    BY <2>1 DEF WorkType
  <2>3. Sensible(t)
    BY <2>2 DEF Sensible
  <2> HIDE DEF t
  <2>4. Moves(w, t)
    BY <1>4, <2>2 DEF ManualPurge, Moves, t
  <2> QED BY <1>0, <1>4, <2>2, <2>3, <2>4, QuietWork DEF ManualPurge
<1> QED BY <1>1, <1>2, <1>3, <1>4

LEMMA EndSteps ==
    ASSUME IInv, NEW w \in Workers, SkipLocked(w) \/ LoseWorker(w)
    PROVE  IInv'
<1>1. faults' \in Nat
  BY Parts DEF IInv, RestTyped, SkipLocked, LoseWorker, taskVars
<1> QED BY <1>1, EndQuiet DEF SkipLocked, LoseWorker, purgeVars, fileVars, taskVars

LEMMA AcquireKeeps ==
    ASSUME IInv, NEW w \in Workers, Acquire(w)
    PROVE  IInv'
<1> USE DEF purgeVars, fileVars, taskVars
<1>1. LockInv' /\ WorkTyped'
  BY AcquireStep, Parts DEF IInv, WorkTyped, Acquire
<1>2. TypeOK' /\ WorkInv'
  BY <1>1, Parts, PartsNext DEF IInv, Acquire, RestTyped, DataTyped, RestInv, HoldInv, Sensible
<1>3. StageInv'
  <2>1. \A v \in Workers : OneStage(v) /\ Sensible(work[v])
    BY DEF IInv, StageInv, WorkInv
  <2>2. work[w].op \notin {"scrub", "copy"}
    <3>1. taken[w] < Len(LocksOf(work[w]))
      BY DEF Acquire, Waiting
    <3>2. ASSUME work[w].op = "scrub" PROVE FALSE
      <4>1. taken[w] = 4
        BY <2>1, <3>2 DEF OneStage
      <4>2. Len(LocksOf(work[w])) = 4
        BY <2>1, <3>2, LockFacts DEF IInv
      <4> QED BY <3>1, <4>1, <4>2
    <3>3. ASSUME work[w].op = "copy" PROVE FALSE
      <4>1. taken[w] = 5
        BY <2>1, <3>3 DEF OneStage
      <4>2. Len(LocksOf(work[w])) = 5
        BY <2>1, <3>3, LockFacts DEF IInv
      <4> QED BY <3>1, <4>1, <4>2
    <3> QED BY <3>2, <3>3
  <2>3. \A v \in Workers \ {w} : taken'[v] = taken[v]
    BY Parts DEF IInv, Acquire, WorkTyped
  <2> QED BY <2>1, <2>2, <2>3 DEF StageInv, OneStage, Acquire, HasActiveHold, ActiveOn
<1>4. DataInv'
  BY DEF IInv, DataInv, TombstoneTruthful, ArchiveHonest, Acquire
<1> QED BY <1>1, <1>2, <1>3, <1>4 DEF IInv

(***************************************************************************)
(* Exports.                                                                *)
(***************************************************************************)
LEMMA ExportSteps ==
    ASSUME IInv, NEW w \in Workers,
           \/ \E j \in Exports, x \in Targets : RequestExport(w, j, x)
           \/ \E m \in messages : ExportTask(w, m)
           \/ Generate(w) \/ WriteArchive(w)
    PROVE  IInv'
<1> USE DEF purgeVars, fileVars, taskVars
<1>0. RestTyped /\ RestInv /\ ArchiveHonest
  BY Parts DEF IInv, DataInv
<1>1. ASSUME NEW j \in Exports, NEW x \in Targets, RequestExport(w, j, x) PROVE IInv'
  <2> DEFINE new == [on |-> x, status |-> "REQUESTED", archive |-> "FULL", full |-> FALSE]
  <2>1. export' = [export EXCEPT ![j] = new] /\ export[j].status = "NONE"
    BY <1>1 DEF RequestExport, NoExport
  <2>a. \A i \in Exports : export'[i] = IF i = j THEN new ELSE export[i]
    BY <1>0, <2>1 DEF RestTyped
  <2>2. Kept /\ ArchiveHonest'
    <3>1. Kept
      BY <1>1, <2>1, <2>a DEF RequestExport, Kept
    <3>2. ArchiveHonest'
      BY <1>0, <1>1, <2>a DEF RequestExport, ArchiveHonest
    <3> QED BY <3>1, <3>2
  <2>3. Message("export", j, 0) \in [task : {"clean", "export"}, on : Attempts \cup Exports,
                                     retry : Nat]
    BY DEF Message
  <2>4. RestTyped'
    <3>1. new \in [on : Targets \cup {Nobody}, full : BOOLEAN,
                   archive : {"FULL", "PARTIAL"},
                   status : {"NONE", "REQUESTED", "READY", "FAILED", "EXPIRED"} \cup Protected]
      OBVIOUS
    <3> QED BY <1>0, <1>1, <2>1, <2>3, <3>1 DEF RequestExport, RestTyped
  <2>5. RestInv'
    <3>1. \A i \in Exports : export'[i].status # "NONE" => export'[i].on \in Targets
      BY <1>0, <2>a DEF RestInv
    <3>2. \A m \in messages' : m \in messages \/ m = Message("export", j, 0)
      BY <1>1 DEF RequestExport
    <3>3. \A m \in messages : m.task = "export" => export'[m.on].status # "NONE"
      BY <1>0, <2>a DEF RestInv
    <3> QED BY <1>0, <2>a, <3>1, <3>2, <3>3 DEF RestInv, Message
  <2>6. CASE UNCHANGED workVars
    <3> DEFINE t == work[w]
    <3>1. t \in WorkType /\ Sensible(t) /\ work' = [work EXCEPT ![w] = t]
      BY <2>6, Parts DEF IInv, WorkTyped, WorkInv, workVars
    <3>2. LockInv' /\ WorkTyped'
      BY <2>2, <2>6, <3>1, LockMoves DEF IInv, Moves, WorkTyped, workVars
    <3>3. TypeOK' /\ WorkInv'
      BY <1>1, <2>2, <2>4, <2>5, <3>1, <3>2, Parts, PartsNext, AllSensible
         DEF IInv, DataTyped, HoldInv, RequestExport
    <3>4. \A v \in Workers : Sensible(work[v])
      BY DEF IInv, WorkInv
    <3>5. StageInv'
      <4> SUFFICES ASSUME NEW v \in Workers PROVE OneStage(v)'
        BY DEF StageInv
      <4>1. OneStage(v) /\ Sensible(work[v]) /\ work' = work /\ taken' = taken
        BY <2>6, <3>4 DEF IInv, StageInv, workVars
      <4>2. UNCHANGED <<record, hold>>
        BY <1>1 DEF RequestExport
      <4>3. /\ work[v].op = "copy" => export'[work[v].on].on = export[work[v].on].on
            /\ work[v].op \in {"generate", "write"} => export'[work[v].on].status # "REQUESTED"
        BY <2>2, <4>1 DEF Kept, Sensible, OneStage
      <4> QED BY <4>1, <4>2, <4>3 DEF OneStage, HasActiveHold, ActiveOn
    <3>6. DataInv'
      BY <1>1, <2>2 DEF IInv, DataInv, TombstoneTruthful, RequestExport
    <3> QED BY <3>2, <3>3, <3>5, <3>6 DEF IInv
  <2>7. CASE Begin(w, [Task("snapshot", j) EXCEPT !.sync = TRUE])
    <3> DEFINE t == [Task("snapshot", j) EXCEPT !.sync = TRUE]
    <3>0. /\ Task("snapshot", j) \in WorkType /\ Task("snapshot", j).op = "snapshot"
          /\ Task("snapshot", j).on = j
      BY TaskFacts DEF Ops
    <3>1. t \in WorkType /\ t.op = "snapshot" /\ t.on = j
      BY <3>0 DEF WorkType
    <3> HIDE DEF t
    <3>2. work' = [work EXCEPT ![w] = t] /\ UNCHANGED <<taken, lock>> /\ work[w] = Idle
      BY <2>7 DEF Begin, t
    <3>3. work' \in [Workers -> WorkType] /\ WorkTyped'
      BY <3>1, <3>2, Parts DEF IInv, WorkTyped
    <3>4. \A v \in Workers : v # w => work'[v] = work[v]
      BY <3>2, Parts DEF IInv, WorkTyped
    <3>5. work'[w] = t
      BY <3>2, Parts DEF IInv, WorkTyped
    <3>6. \A v \in Workers : Sensible(work[v])'
      <4> TAKE v \in Workers
      <4>1. CASE v = w
        BY <2>1, <3>1, <3>5, <4>1, <1>0 DEF Sensible, RestTyped
      <4>2. CASE v # w
        <5>1. PICK u \in WorkType : u = work[v] /\ u = work'[v] /\ Sensible(u)
          BY <3>4, <4>2, Parts DEF IInv, WorkTyped
        <5>2. Sensible(u)'
          BY <2>2, <5>1, LocksStable
        <5> QED BY <5>1, <5>2 DEF Sensible
      <4> QED BY <4>1, <4>2
    <3>7. WorkInv' /\ TypeOK'
      BY <1>1, <2>4, <2>5, <3>3, <3>6, Parts, PartsNext DEF IInv, RequestExport, DataTyped, HoldInv
    <3>8. taken[w] = 0
      <4>1. LocksOf(work[w]) = <<>>
        BY <3>2 DEF Idle, Task, LocksOf
      <4> QED BY <4>1, Parts DEF IInv, LockInv, WorkTyped
    <3>9. LockInv'
      <4>1. ASSUME NEW v \in Workers PROVE LockInv!(v)'
        <5>1. CASE v = w
          <6>1. Len(LocksOf(work[w]))' \in 0..5
            <7>1. PICK u : u = work'[w] /\ Sensible(u)'
              BY <3>6
            <7> QED BY <3>1, <3>5, <2>1, <1>0 DEF LocksOf, ExportLocks, RestTyped
          <6> QED BY <3>2, <3>8, <5>1, <6>1
        <5>2. CASE v # w
          <6>1. PICK u \in WorkType : u = work[v] /\ u = work'[v] /\ Sensible(u)
            BY <3>4, <5>2, Parts DEF IInv, WorkTyped
          <6>2. LocksOf(u)' = LocksOf(u)
            BY <2>2, <6>1, LocksStable
          <6>3. LocksOf(work[v])' = LocksOf(work[v])
            BY <6>1, <6>2 DEF LocksOf, HoldLocks, ExportLocks, PurgeLocks
          <6> QED BY <3>2, <6>3 DEF IInv, LockInv
        <5> QED BY <5>1, <5>2
      <4> QED BY <4>1 DEF LockInv
    <3>10. StageInv'
      <4> SUFFICES ASSUME NEW v \in Workers PROVE OneStage(v)'
        BY DEF StageInv
      <4>1. CASE v = w
        BY <3>1, <3>5, <4>1 DEF OneStage
      <4>2. CASE v # w
        <5>1. OneStage(v) /\ Sensible(work[v]) /\ work'[v] = work[v] /\ taken'[v] = taken[v]
          BY <3>2, <3>4, <4>2 DEF IInv, StageInv, WorkInv
        <5>2. UNCHANGED <<record, hold>>
          BY <1>1 DEF RequestExport
        <5>3. /\ work[v].op = "copy" => export'[work[v].on].on = export[work[v].on].on
              /\ work[v].op \in {"generate", "write"} => export'[work[v].on].status # "REQUESTED"
          BY <2>2, <5>1 DEF Kept, Sensible, OneStage
        <5> QED BY <5>1, <5>2, <5>3 DEF OneStage, HasActiveHold, ActiveOn
      <4> QED BY <4>1, <4>2
    <3>11. DataInv'
      BY <1>1, <2>2 DEF IInv, DataInv, TombstoneTruthful, RequestExport
    <3> QED BY <3>7, <3>9, <3>10, <3>11 DEF IInv
  <2> QED BY <1>1, <2>6, <2>7 DEF RequestExport
<1>2. ASSUME NEW m \in messages, ExportTask(w, m) PROVE IInv'
  <2> DEFINE t == [Task("snapshot", m.on) EXCEPT !.retry = m.retry]
  <2>1. m.on \in Exports /\ export[m.on].status # "NONE" /\ m.retry \in Nat
    BY <1>0, <1>2 DEF ExportTask, RestInv, RestTyped
  <2>a. /\ Task("snapshot", m.on) \in WorkType /\ Task("snapshot", m.on).op = "snapshot"
        /\ Task("snapshot", m.on).on = m.on
    BY <2>1, TaskFacts DEF Ops
  <2>2. t \in WorkType /\ t.op = "snapshot" /\ t.on = m.on
    BY <2>1, <2>a DEF WorkType
  <2>3. Sensible(t)
    BY <2>1, <2>2 DEF Sensible
  <2> HIDE DEF t
  <2>4. Moves(w, t)
    BY <1>2, <2>2 DEF ExportTask, Moves, t
  <2> QED BY <1>0, <1>2, <2>2, <2>3, <2>4, QuietWork DEF ExportTask, RestTyped
<1>3. CASE Generate(w)
  <2> DEFINE t == [work[w] EXCEPT !.op = "write"]
             j == work[w].on
  <2>1. work[w].op = "generate" /\ work[w] \in WorkType /\ Sensible(work[w]) /\ OneStage(w)
    BY <1>3, Parts DEF Generate, At, IInv, WorkInv, WorkTyped, StageInv
  <2>2. /\ t \in WorkType /\ t.op = "write" /\ t.on = work[w].on
        /\ j \in Exports /\ export[j].status \notin {"NONE", "REQUESTED"}
    BY <2>1 DEF WorkType, Ops, Sensible, OneStage
  <2>3. Sensible(t) /\ LocksOf(t) = LocksOf(work[w])
    BY <2>1, <2>2 DEF Sensible, LocksOf
  <2>4. Moves(w, t)
    BY <1>3, <2>3 DEF Generate, Moves
  <2>5. Kept /\ RestTyped' /\ RestInv' /\ ArchiveHonest'
    BY <1>0, <1>3, <2>2 DEF Generate, Kept, RestTyped, RestInv, ArchiveHonest, Protected
  <2>6. export'[t.on].status # "REQUESTED"
    BY <1>0, <1>3, <2>2 DEF Generate, RestTyped
  <2> HIDE DEF t
  <2> QED BY <1>3, <2>2, <2>3, <2>4, <2>5, <2>6, Quiet DEF Generate
<1>4. CASE WriteArchive(w)
  <2> DEFINE j == work[w].on
  <2>1. work[w].op = "write" /\ work[w] \in WorkType /\ Sensible(work[w]) /\ OneStage(w)
    BY <1>4, Parts DEF WriteArchive, At, IInv, WorkInv, WorkTyped, StageInv
  <2>2. j \in Exports /\ export[j].status \notin {"NONE", "REQUESTED"}
    BY <2>1 DEF Sensible, OneStage
  <2>3. Kept /\ ArchiveHonest'
    BY <1>0, <1>4, <2>2 DEF WriteArchive, Kept, RestTyped, ArchiveHonest
  <2>4. RestTyped'
    <3>1. messages' \subseteq [task : {"clean", "export"}, on : Attempts \cup Exports, retry : Nat]
      BY <1>0, <1>4, <2>1, RetryKeeps DEF WriteArchive, RestTyped
    <3>2. export' \in [Exports -> [on : Targets \cup {Nobody}, full : BOOLEAN,
                               archive : {"FULL", "PARTIAL"},
                               status : {"NONE", "REQUESTED", "READY", "FAILED", "EXPIRED"}
                                        \cup Protected]]
      BY <1>0, <1>4, <2>2 DEF WriteArchive, RestTyped
    <3> QED BY <1>0, <1>4, <3>1, <3>2 DEF WriteArchive, RestTyped
  <2>5. RestInv'
    <3>1. \A m \in messages' : /\ m.task = "clean" => m.on \in Attempts
                               /\ m.task = "export" => m.on \in Exports /\ export[m.on].status # "NONE"
      BY <1>0, <1>4, <2>1, RetryKeeps DEF WriteArchive, RestInv
    <3>2. \A i \in Exports : export'[i].status # "NONE" => export[i].status # "NONE"
      BY <1>0, <1>4, <2>2 DEF WriteArchive, RestTyped
    <3>3. \A i \in Exports : export'[i].status # "NONE" => export'[i].on \in Targets
      BY <1>0, <2>3, <3>2 DEF RestInv, Kept
    <3>4. \A m \in messages' : m.task = "export" => export'[m.on].status # "NONE"
      BY <2>3, <3>1 DEF Kept
    <3>5. \A m \in messages' : /\ m.task = "clean" => m.on \in Attempts
                               /\ m.task = "export" => m.on \in Exports /\ export'[m.on].status # "NONE"
      BY <3>1, <3>4
    <3> QED BY <3>3, <3>5 DEF RestInv
  <2>6. Moves(w, Idle)
    BY <1>4 DEF WriteArchive, End, Moves
  <2> QED BY <1>4, <2>3, <2>4, <2>5, <2>6, Quiet, TaskFacts DEF WriteArchive
<1> QED BY <1>1, <1>2, <1>3, <1>4

(***************************************************************************)
(* Steps that change the attempt's data, under its locks.                  *)
(***************************************************************************)
LEMMA Wide ==
    ASSUME IInv, Kept, NEW w \in Workers, NEW t \in WorkType, Sensible(t), Moves(w, t),
           RestTyped', RestInv', DataTyped', HoldInv', DataInv', OneStage(w)',
           \A b \in Attempts : Busy(b, w) => /\ record'[b] = record[b]
                                             /\ HasActiveHold(b)' => HasActiveHold(b)
    PROVE  IInv'
<1>1. LockInv' /\ WorkTyped'
  BY LockMoves DEF IInv, WorkTyped
<1>2. TypeOK'
  BY <1>1, PartsNext
<1>3. WorkInv'
  BY AllSensible, TakenOthers, PartsNext
<1>4. StageInv'
  BY StageOthers, TakenOthers DEF StageInv
<1> QED BY <1>1, <1>2, <1>3, <1>4 DEF IInv

\* A worker that has all its locks.
LEMMA HasLocks ==
    ASSUME IInv, NEW w \in Workers, ~Waiting(w)
    PROVE  taken[w] = Len(LocksOf(work[w])) /\ Sensible(work[w]) /\ work[w] \in WorkType
<1>1. Sensible(work[w]) /\ work[w] \in WorkType /\ taken[w] \in 0..5
  BY Parts DEF IInv, WorkTyped
<1>2. Len(LocksOf(work[w])) \in 0..5 /\ taken[w] <= Len(LocksOf(work[w]))
  BY <1>1, LockFacts DEF IInv, LockInv
<1> QED BY <1>1, <1>2 DEF Waiting

\* Nobody else has read the state of an attempt whose record w has locked.
LEMMA Alone ==
    ASSUME IInv, NEW w \in Workers, NEW a \in Attempts,
           \/ work[w].op \in {"purge", "scrub"} /\ work[w].on = a /\ taken[w] = 4
           \/ work[w].op = "mint" /\ work[w].on = a /\ taken[w] = 1
    PROVE  ~Busy(a, w)
<1>1. Sensible(work[w])
  BY Parts DEF IInv
<1>2. PICK i \in 1..taken[w] : LocksOf(work[w])[i] = RecordOf(a)
  <2>1. CASE work[w].op \in {"purge", "scrub"} /\ work[w].on = a /\ taken[w] = 4
    <3>1. LocksOf(work[w]) = <<Exam, Student, a, RecordOf(a)>>
      BY <1>1, <2>1, LockFacts DEF IInv, PurgeLocks
    <3>2. 4 \in 1..taken[w]
      BY <2>1
    <3> QED BY <3>1, <3>2
  <2>2. CASE work[w].op = "mint" /\ work[w].on = a /\ taken[w] = 1
    <3>1. LocksOf(work[w]) = <<RecordOf(a)>>
      BY <1>1, <2>2, LockFacts DEF IInv
    <3>2. 1 \in 1..taken[w]
      BY <2>2
    <3> QED BY <3>1, <3>2
  <2> QED BY <2>1, <2>2
<1> QED BY <1>2, Shut

LEMMA ChooseArchiveKeeps ==
    ASSUME IInv, NEW w \in Workers, ChooseArchive(w)
    PROVE  IInv'
<1> USE DEF purgeVars, fileVars, taskVars
<1> DEFINE j == work[w].on
<1>0. RestTyped /\ RestInv /\ ArchiveHonest /\ DataTyped /\ HoldInv
  BY Parts DEF IInv, DataInv
<1>1. /\ work[w].op = "snapshot" /\ work[w] \in WorkType /\ Sensible(work[w])
      /\ taken[w] = Len(LocksOf(work[w]))
  BY HasLocks DEF ChooseArchive, At
<1>2. j \in Exports /\ export[j].status # "NONE" /\ export[j].on \in Targets
  BY <1>0, <1>1 DEF Sensible, RestInv
<1>3. CASE export[j].on \notin Attempts
  <2> DEFINE t == [work[w] EXCEPT !.op = "generate"]
  <2>1. t \in WorkType /\ t.op = "generate" /\ t.on = j
    BY <1>1 DEF WorkType, Ops
  <2>2. Sensible(t) /\ Moves(w, t)
    BY <1>2, <1>3, <2>1 DEF Sensible, ChooseArchive, Moves
  <2>3. export' = [export EXCEPT ![j].status = "SNAPSHOT_ACQUIRED"]
    BY <1>3 DEF ChooseArchive
  <2>4. RestTyped' /\ RestInv' /\ Kept
    BY <1>0, <1>2, <2>3 DEF ChooseArchive, Kept, RestTyped, RestInv, Protected
  <2>5. /\ \A i \in Exports \ {j} : export'[i] = export[i]
        /\ export'[j].archive = export[j].archive /\ export'[j].on = export[j].on
        /\ export'[j].full = export[j].full /\ export'[j].status = "SNAPSHOT_ACQUIRED"
    BY <1>0, <1>2, <2>3 DEF RestTyped
  <2>6. export[j].on = Student /\ Student \notin details
    BY <1>0, <1>2, <1>3 DEF Targets, DataTyped
  <2>7. ArchiveHonest'
    BY <1>0, <2>5, <2>6 DEF ArchiveHonest, ChooseArchive
  <2> HIDE DEF t
  <2> QED BY <2>1, <2>2, <2>4, <2>5, <2>7, Quiet DEF ChooseArchive
<1>4. CASE export[j].on \in Attempts
  <2> DEFINE t == [work[w] EXCEPT !.op = "copy", !.copy = ArchiveType(export[j].on)]
  <2>1. ArchiveType(export[j].on) \in {"FULL", "PARTIAL"}
    BY DEF ArchiveType
  <2>2. /\ t \in WorkType /\ t.op = "copy" /\ t.on = j
        /\ t.copy = ArchiveType(export[j].on)
    BY <1>1, <2>1 DEF WorkType, Ops
  <2>3. Sensible(t)
    BY <1>2, <1>4, <2>2 DEF Sensible
  <2>4. LocksOf(t) = LocksOf(work[w])
    BY <1>1, <2>2 DEF LocksOf
  <2>5. work' = [work EXCEPT ![w] = t] /\ UNCHANGED <<export, taken, lock>>
    BY <1>4 DEF ChooseArchive
  <2>6. Moves(w, t)
    BY <2>4, <2>5 DEF Moves
  <2>7. taken[w] = 5
    <3>1. Len(LocksOf(t)) = 5
      BY <2>2, <2>3, LockFacts DEF IInv
    <3> QED BY <1>1, <2>4, <3>1
  <2>8. OneStage(w)'
    <3>1. work'[w] = t
      BY <2>5, Parts DEF IInv, WorkTyped
    <3>2. UNCHANGED record
      BY DEF ChooseArchive
    <3>3. /\ work'[w].op = "copy" /\ work'[w].on = j
          /\ work'[w].copy = ArchiveType(export[j].on)
      BY <2>2, <3>1
    <3>4. taken'[w] = 5 /\ export'[j].on = export[j].on /\ record' = record
      BY <2>5, <2>7, <3>2
    <3> HIDE DEF j
    <3> QED BY <3>3, <3>4 DEF OneStage, ArchiveType
  <2>9. /\ Kept /\ RestTyped' /\ RestInv' /\ DataTyped' /\ HoldInv'
    BY <1>0, <2>5 DEF ChooseArchive, Kept, RestTyped, RestInv, DataTyped, HoldInv
  <2>10. DataInv'
    BY <2>5 DEF IInv, ChooseArchive, DataInv, TombstoneTruthful, ArchiveHonest
  <2>11. UNCHANGED <<record, hold>>
    BY DEF ChooseArchive
  <2> QED BY <2>2, <2>3, <2>6, <2>8, <2>9, <2>10, <2>11, Wide DEF HasActiveHold, ActiveOn
<1> QED BY <1>3, <1>4

LEMMA AcquireSnapshotKeeps ==
    ASSUME IInv, NEW w \in Workers, AcquireSnapshot(w)
    PROVE  IInv'
<1> USE DEF purgeVars, fileVars, taskVars
<1> DEFINE j == work[w].on
           t == [work[w] EXCEPT !.op = "generate", !.copy = "none"]
<1>0. RestTyped /\ RestInv /\ ArchiveHonest
  BY Parts DEF IInv, DataInv
<1>1. /\ work[w].op = "copy" /\ work[w] \in WorkType /\ Sensible(work[w]) /\ OneStage(w)
  BY HasLocks DEF AcquireSnapshot, At, IInv, StageInv
<1>2. j \in Exports /\ export[j].status # "NONE" /\ export[j].on \in Attempts
  BY <1>1 DEF Sensible
<1>3. t \in WorkType /\ t.op = "generate" /\ t.on = j
  BY <1>1 DEF WorkType, Ops
<1>4. Sensible(t) /\ Moves(w, t)
  BY <1>2, <1>3 DEF Sensible, AcquireSnapshot, Moves
<1> DEFINE whole == work[w].copy = "FULL" /\ export[j].on \in details
           new == [on |-> export[j].on, full |-> whole, archive |-> work[w].copy,
                   status |-> "SNAPSHOT_ACQUIRED"]
<1>5. export' = [export EXCEPT ![j] = new]
  BY DEF AcquireSnapshot
<1>6. /\ new.status = "SNAPSHOT_ACQUIRED" /\ new.archive = work[w].copy
      /\ new.full = (work[w].copy = "FULL" /\ export[j].on \in details)
      /\ new.on = export[j].on
      /\ new \in [on : Targets \cup {Nobody}, full : BOOLEAN,
                  archive : {"FULL", "PARTIAL"},
                  status : {"NONE", "REQUESTED", "READY", "FAILED", "EXPIRED"} \cup Protected]
  <2>1. export[j].on \in Targets /\ work[w].copy \in {"FULL", "PARTIAL"}
    BY <1>1, <1>2 DEF WorkType, Targets, OneStage
  <2> QED BY <2>1 DEF Protected
<1> HIDE DEF new, t
<1>7. \A i \in Exports : export'[i] = IF i = j THEN new ELSE export[i]
  BY <1>0, <1>5 DEF RestTyped
<1>8. Kept /\ RestTyped' /\ RestInv'
  BY <1>0, <1>2, <1>5, <1>6, <1>7 DEF AcquireSnapshot, Kept, RestTyped, RestInv
<1>9. ArchiveHonest'
  <2>1. UNCHANGED <<details, reopened>>
    BY DEF AcquireSnapshot
  <2>2. new.archive = "FULL" => new.full \/ new.on \in reopened
    BY <1>1, <1>2, <1>6 DEF OneStage, IInv, DataInv
  <2>3. new.archive = "PARTIAL" => new.on \notin details
    BY <1>1, <1>2, <1>6 DEF OneStage, IInv, DataInv
  <2> QED BY <1>0, <1>7, <2>1, <2>2, <2>3 DEF ArchiveHonest
<1>10. export'[t.on].status # "REQUESTED"
  BY <1>2, <1>3, <1>6, <1>7
<1> QED BY <1>3, <1>4, <1>8, <1>9, <1>10, Quiet DEF AcquireSnapshot

(***************************************************************************)
(* Holds.                                                                  *)
(***************************************************************************)
LEMMA PlaceHoldKeeps ==
    ASSUME IInv, NEW w \in Workers, PlaceHold(w)
    PROVE  IInv'
<1> USE DEF purgeVars, fileVars, taskVars
<1> DEFINE o == work[w].on
<1>0. RestTyped /\ RestInv /\ ArchiveHonest /\ DataTyped /\ HoldInv /\ faults \in Nat
  BY Parts DEF IInv, DataInv, RestTyped
<1>1. work[w].op = "hold" /\ Sensible(work[w]) /\ taken[w] = Len(LocksOf(work[w]))
  BY HasLocks DEF PlaceHold, At
<1>2. o \in Owners /\ taken[w] = 1 /\ LocksOf(work[w]) = <<o>>
  BY <1>1, LockFacts DEF Sensible, IInv
<1>3. CASE UNCHANGED hold
  BY <1>0, <1>3, EndQuiet DEF PlaceHold
<1>4. ASSUME NEW h \in Holds, hold[h] = NoHold,
             hold' = [hold EXCEPT ![h] = [on |-> o, status |-> "ACTIVE"]]
      PROVE  IInv'
  <2>1. \A g \in Holds : hold'[g] = IF g = h THEN [on |-> o, status |-> "ACTIVE"] ELSE hold[g]
    BY <1>0, <1>4 DEF DataTyped
  <2>2. Kept
    BY <1>4, <2>1 DEF PlaceHold, Kept, NoHold
  <2>3. DataTyped' /\ HoldInv'
    BY <1>0, <1>2, <1>4, <2>1 DEF PlaceHold, DataTyped, HoldInv
  <2>4. RestTyped' /\ RestInv' /\ DataInv'
    BY <1>0 DEF PlaceHold, RestTyped, RestInv, DataInv, TombstoneTruthful, ArchiveHonest, IInv
  <2>5. ASSUME NEW b \in Attempts, Busy(b, w) PROVE HasActiveHold(b)' => HasActiveHold(b)
    <3>1. o \notin {Exam, Student, b}
      <4>1. 1 \in 1..taken[w] /\ LocksOf(work[w])[1] = o
        BY <1>2
      <4> QED BY <2>5, <4>1, Shut
    <3>2. \A x \in {Exam, Student, b} : ActiveOn(x)' => ActiveOn(x)
      BY <2>1, <3>1 DEF ActiveOn
    <3> QED BY <3>2 DEF HasActiveHold
  <2>6. Moves(w, Idle)
    BY DEF PlaceHold, End, Moves
  <2>7. OneStage(w)'
    <3>1. work'[w] = Idle
      BY <2>6, TaskFacts, TakenOthers, Parts DEF IInv, WorkTyped
    <3> QED BY <3>1 DEF OneStage, Idle, Task
  <2>8. UNCHANGED record
    BY DEF PlaceHold
  <2> QED BY <2>2, <2>3, <2>4, <2>5, <2>6, <2>7, <2>8, TaskFacts, Wide
<1> QED BY <1>3, <1>4 DEF PlaceHold

LEMMA ReleaseHoldKeeps ==
    ASSUME IInv, NEW w \in Workers, ReleaseHold(w)
    PROVE  IInv'
<1> USE DEF purgeVars, fileVars, taskVars
<1> DEFINE h == work[w].on
<1>0. RestTyped /\ RestInv /\ ArchiveHonest /\ DataTyped /\ HoldInv
  BY Parts DEF IInv, DataInv
<1>1. h \in Holds /\ hold[h].status # "NONE"
  BY HasLocks DEF ReleaseHold, At, Sensible
<1>2. hold' = [hold EXCEPT ![h].status = "RELEASED"]
  BY DEF ReleaseHold
<1>3. \A g \in Holds : /\ hold'[g].on = hold[g].on
                       /\ hold'[g].status = IF g = h THEN "RELEASED" ELSE hold[g].status
  BY <1>0, <1>2 DEF DataTyped
<1>4. Kept
  BY <1>3 DEF ReleaseHold, Kept
<1>5. DataTyped' /\ HoldInv'
  BY <1>0, <1>1, <1>2, <1>3 DEF ReleaseHold, DataTyped, HoldInv
<1>6. RestTyped' /\ RestInv' /\ DataInv'
  BY <1>0 DEF ReleaseHold, RestTyped, RestInv, DataInv, TombstoneTruthful, ArchiveHonest, IInv
<1>7. ASSUME NEW b \in Attempts PROVE HasActiveHold(b)' => HasActiveHold(b)
  BY <1>3 DEF HasActiveHold, ActiveOn
<1>8. Moves(w, Idle)
  BY DEF ReleaseHold, End, Moves
<1>9. OneStage(w)'
  <2>1. work'[w] = Idle
    BY <1>8, TaskFacts, TakenOthers, Parts DEF IInv, WorkTyped
  <2> QED BY <2>1 DEF OneStage, Idle, Task
<1>10. UNCHANGED record
  BY DEF ReleaseHold
<1> QED BY <1>4, <1>5, <1>6, <1>7, <1>8, <1>9, <1>10, TaskFacts, Wide

(***************************************************************************)
(* The purge, the files and the tombstone.                                 *)
(***************************************************************************)
LEMMA DecidePurgeKeeps ==
    ASSUME IInv, NEW w \in Workers, DecidePurge(w)
    PROVE  IInv'
<1> USE DEF purgeVars, fileVars, taskVars
<1> DEFINE a == work[w].on
<1>0. RestTyped /\ RestInv /\ ArchiveHonest /\ DataTyped /\ HoldInv /\ faults \in Nat
  BY Parts DEF IInv, DataInv, RestTyped
<1>1. /\ work[w].op = "purge" /\ work[w] \in WorkType /\ Sensible(work[w])
      /\ taken[w] = Len(LocksOf(work[w]))
  BY HasLocks DEF DecidePurge, At
<1>2. a \in Attempts /\ taken[w] = 4 /\ ~Busy(a, w)
  <2>1. a \in Attempts /\ taken[w] = 4
    BY <1>1, LockFacts DEF Sensible, IInv
  <2> QED BY <1>1, <2>1, Alone
<1>3. Kept /\ RestTyped' /\ RestInv' /\ HoldInv'
  BY <1>0 DEF DecidePurge, Kept, RestTyped, RestInv, HoldInv
<1>4. CASE End(w) /\ UNCHANGED <<record, reopened>>
  BY <1>0, <1>4, EndQuiet DEF DecidePurge
<1>5. ASSUME NEW s \in {"DEFERRED_HOLD", "DEFERRED_EXPORT"}, Defer(w, s), record[a] # "PURGED"
      PROVE  IInv'
  <2>1. \A b \in Attempts : record'[b] = IF b = a THEN s ELSE record[b]
    BY <1>0, <1>2, <1>5 DEF Defer, DataTyped
  <2>2. DataTyped'
    BY <1>0, <1>2, <1>5 DEF Defer, DecidePurge, DataTyped, PurgeStates
  <2>3. UNCHANGED <<details, tombstones, disk, queue, export, hold>>
    BY DEF DecidePurge
  <2>4. reopened \subseteq reopened' /\ (a \notin details => a \in reopened')
    BY <1>5 DEF Defer
  <2>5. ArchiveHonest'
    BY <1>0, <2>3, <2>4 DEF ArchiveHonest
  <2>6. TombstoneTruthful'
    BY <1>2, <1>5, <2>1, <2>3 DEF TombstoneTruthful, IInv, DataInv
  <2>7. DataInv'
    BY <2>1, <2>3, <2>4, <2>5, <2>6 DEF DataInv, IInv, Scrubbed
  <2>8. Moves(w, Idle)
    BY <1>5 DEF Defer, End, Moves
  <2>9. OneStage(w)'
    <3>1. work'[w] = Idle
      BY <2>8, TaskFacts, TakenOthers, Parts DEF IInv, WorkTyped
    <3> QED BY <3>1 DEF OneStage, Idle, Task
  <2>10. ASSUME NEW b \in Attempts, Busy(b, w)
         PROVE  record'[b] = record[b] /\ (HasActiveHold(b)' => HasActiveHold(b))
    <3>1. b # a
      BY <1>2, <2>10
    <3> QED BY <2>1, <2>3, <3>1 DEF HasActiveHold, ActiveOn
  <2> QED BY <1>3, <2>2, <2>7, <2>8, <2>9, <2>10, TaskFacts, Wide
<1>6. ASSUME record[a] # "PURGED", ~HasActiveHold(a), work' = [work EXCEPT ![w].op = "scrub"],
             UNCHANGED <<record, reopened, taken, lock>>
      PROVE  IInv'
  <2> DEFINE t == [work[w] EXCEPT !.op = "scrub"]
  <2>1. t \in WorkType /\ t.op = "scrub" /\ t.on = a
    BY <1>1 DEF WorkType, Ops
  <2>2. Sensible(t) /\ LocksOf(t) = LocksOf(work[w])
    BY <1>1, <1>2, <2>1 DEF Sensible, LocksOf
  <2>3. Moves(w, t)
    BY <1>6, <2>2 DEF Moves
  <2>4. work'[w] = t
    BY <2>1, <2>3, TakenOthers, Parts DEF IInv, WorkTyped
  <2>5. UNCHANGED <<record, hold, export, details, disk, queue, tombstones, reopened>>
    BY <1>6 DEF DecidePurge
  <2>6. OneStage(w)'
    <3>1. work'[w].op = "scrub" /\ work'[w].on = a /\ taken'[w] = 4
      BY <1>2, <1>6, <2>1, <2>4
    <3> HIDE DEF a
    <3> QED BY <1>6, <2>5, <3>1 DEF OneStage, HasActiveHold, ActiveOn, a
  <2>7. DataTyped' /\ DataInv'
    BY <1>0, <2>5 DEF DataTyped, DataInv, TombstoneTruthful, ArchiveHonest, IInv
  <2> QED BY <1>3, <2>1, <2>2, <2>3, <2>5, <2>6, <2>7, Wide DEF HasActiveHold, ActiveOn
<1> QED BY <1>4, <1>5, <1>6 DEF DecidePurge

LEMMA ScrubKeeps ==
    ASSUME IInv, NEW w \in Workers, Scrub(w)
    PROVE  IInv'
<1> USE DEF purgeVars, fileVars, taskVars
<1>0. RestTyped /\ RestInv /\ ArchiveHonest /\ DataTyped /\ HoldInv /\ faults \in Nat
  BY Parts DEF IInv, DataInv, RestTyped
<1>1. PICK a \in Attempts :
         /\ a = work[w].on /\ work[w].op = "scrub" /\ taken[w] = 4 /\ ~Busy(a, w)
         /\ record[a] # "PURGED" /\ a \notin tombstones
  <2>1. /\ work[w].op = "scrub" /\ Sensible(work[w]) /\ OneStage(w)
        /\ taken[w] = Len(LocksOf(work[w]))
    BY HasLocks DEF Scrub, At, IInv, StageInv
  <2>2. work[w].on \in Attempts /\ taken[w] = 4
    BY <2>1, LockFacts DEF Sensible, IInv
  <2> QED BY <2>1, <2>2, Alone DEF OneStage, IInv, DataInv, TombstoneTruthful
<1>2. /\ details' = details \ {a} /\ record' = [record EXCEPT ![a] = "CLEANING_FILES"]
      /\ UNCHANGED <<due, listed, previewed, reopened, disk, tombstones, hold, export>>
  BY <1>1 DEF Scrub
<1>3. PICK bad \in SUBSET ({a} \X Files) : queue' = Queued(a, bad)
  BY <1>1 DEF Scrub
<1>4. /\ queue' \in [Evidence -> QueueStates]
      /\ \A e \in Evidence : e[1] # a \/ a \notin details => queue'[e] = queue[e]
      /\ \A e \in Evidence : e[1] = a /\ a \in details => queue'[e] \notin {"NONE", "CONFIRMED"}
  BY <1>0, <1>3 DEF Queued, DataTyped, QueueStates
<1>5. DataTyped' /\ HoldInv' /\ Kept
  BY <1>0, <1>1, <1>2, <1>4 DEF DataTyped, HoldInv, Kept, PurgeStates
<1>6. \A b \in Attempts : record'[b] = IF b = a THEN "CLEANING_FILES" ELSE record[b]
  BY <1>0, <1>2 DEF DataTyped
<1>7. DataInv'
  <2>1. ArchiveHonest'
    BY <1>0, <1>2 DEF ArchiveHonest
  <2>2. TombstoneTruthful'
    BY <1>1, <1>2, <1>6 DEF TombstoneTruthful, IInv, DataInv
  <2>3. \A b \in Attempts : /\ record'[b] \in Scrubbed => b \notin details'
                            /\ b \notin details' => record'[b] \in Scrubbed \/ b \in reopened'
    BY <1>2, <1>6 DEF IInv, DataInv, Scrubbed
  <2>4. \A e \in disk' : e[1] \notin details' => queue'[e] \notin {"NONE", "CONFIRMED"}
    <3> SUFFICES ASSUME NEW e \in disk, e[1] \notin details'
                 PROVE  queue'[e] \notin {"NONE", "CONFIRMED"}
      BY <1>2
    <3>1. e \in Evidence /\ (e[1] \notin details => queue[e] \notin {"NONE", "CONFIRMED"})
      BY <1>0 DEF DataTyped, IInv, DataInv
    <3>2. CASE e[1] = a /\ a \in details
      BY <1>4, <3>1, <3>2
    <3>3. CASE e[1] # a \/ a \notin details
      BY <1>2, <1>4, <3>1, <3>3
    <3> QED BY <3>2, <3>3
  <2> QED BY <2>1, <2>2, <2>3, <2>4 DEF DataInv
<1>8. ASSUME NEW b \in Attempts, Busy(b, w)
      PROVE  record'[b] = record[b] /\ (HasActiveHold(b)' => HasActiveHold(b))
  <2>1. b # a
    BY <1>1, <1>8
  <2> QED BY <1>2, <1>6, <2>1 DEF HasActiveHold, ActiveOn
<1>9. RestTyped' /\ RestInv'
  <2>1. 0 \in Nat
    OBVIOUS
  <2>2. faults' \in Nat /\ messages' \subseteq messages \cup {Message("clean", a, 0)}
    BY <1>0, <1>1 DEF Scrub
  <2> QED BY <1>0, <1>2, <2>1, <2>2 DEF RestTyped, RestInv, Message
<1>10. ASSUME NEW t \in WorkType, Sensible(t), GoOn(w, t), t.op \in {"idle", "clean"}
       PROVE  IInv'
  <2>1. Moves(w, t)
    BY <1>10 DEF Moves
  <2>2. work'[w] = t
    BY <2>1, TakenOthers, Parts DEF IInv, WorkTyped
  <2>3. OneStage(w)'
    BY <1>10, <2>2 DEF OneStage
  <2> QED BY <1>5, <1>7, <1>8, <1>9, <1>10, <2>1, <2>3, Wide
<1>11. CASE End(w)
  BY <1>10, <1>11, TaskFacts DEF End
<1>12. CASE GoOn(w, [Task("clean", a) EXCEPT !.left = CleanOf(a, queue')])
  <2> DEFINE t == [Task("clean", a) EXCEPT !.left = CleanOf(a, queue')]
  <2>1. Task("clean", a) \in WorkType /\ Task("clean", a).op = "clean" /\ Task("clean", a).on = a
    BY TaskFacts DEF Ops, Owners
  <2>2. CleanOf(a, queue') \in SUBSET Evidence
    BY DEF CleanOf
  <2>3. t \in WorkType /\ t.op = "clean" /\ t.on = a
    BY <2>1, <2>2 DEF WorkType
  <2>4. Sensible(t)
    BY <2>3 DEF Sensible
  <2> HIDE DEF t
  <2>5. GoOn(w, t)
    BY <1>12 DEF t
  <2> QED BY <1>10, <2>3, <2>4, <2>5
<1> QED BY <1>1, <1>11, <1>12 DEF Scrub

LEMMA FileSteps ==
    ASSUME IInv, NEW w \in Workers,
           \/ \E m \in messages : CleanTask(w, m)
           \/ CleanEnds(w)
    PROVE  IInv'
<1> USE DEF purgeVars, fileVars, taskVars
<1>0. RestTyped /\ RestInv
  BY Parts DEF IInv
<1>1. ASSUME NEW m \in messages, CleanTask(w, m) PROVE IInv'
  <2> DEFINE t == [Task("clean", m.on) EXCEPT !.left = CleanOf(m.on, queue), !.retry = m.retry]
  <2>1. m.on \in Attempts /\ m.retry \in Nat
    BY <1>0, <1>1 DEF CleanTask, RestInv, RestTyped
  <2>2. /\ Task("clean", m.on) \in WorkType /\ Task("clean", m.on).op = "clean"
        /\ Task("clean", m.on).on = m.on
    BY <2>1, TaskFacts DEF Ops, Owners
  <2>3. CleanOf(m.on, queue) \in SUBSET Evidence
    BY DEF CleanOf
  <2>4. t \in WorkType /\ t.op = "clean" /\ t.on = m.on
    BY <2>1, <2>2, <2>3 DEF WorkType
  <2>5. Sensible(t)
    BY <2>1, <2>4 DEF Sensible
  <2> HIDE DEF t
  <2>6. Moves(w, t)
    BY <1>1, <2>4 DEF CleanTask, Moves, t
  <2> QED BY <1>0, <1>1, <2>4, <2>5, <2>6, QuietWork DEF CleanTask, RestTyped
<1>2. CASE CleanEnds(w)
  <2>1. work[w].on \in Attempts
    BY <1>2, HasLocks DEF CleanEnds, At, Sensible
  <2>2. CASE End(w)
    BY <1>0, <1>2, <2>2, EndQuiet DEF CleanEnds, RestTyped
  <2>3. CASE GoOn(w, [work[w] EXCEPT !.op = "mint"])
    <3> DEFINE t == [work[w] EXCEPT !.op = "mint"]
    <3>1. t \in WorkType /\ t.op = "mint" /\ t.on = work[w].on
      BY Parts DEF IInv, WorkTyped, WorkType, Ops
    <3>2. Sensible(t) /\ Moves(w, t)
      BY <2>1, <2>3, <3>1 DEF Sensible, Moves
    <3> QED BY <1>0, <1>2, <3>1, <3>2, QuietWork DEF CleanEnds, RestTyped
  <2> QED BY <1>2, <2>2, <2>3 DEF CleanEnds
<1> QED BY <1>1, <1>2

LEMMA CleanItemKeeps ==
    ASSUME IInv, NEW w \in Workers, NEW e \in Evidence, CleanItem(w, e)
    PROVE  IInv'
<1> USE DEF purgeVars, fileVars, taskVars
<1>0. RestTyped /\ RestInv /\ ArchiveHonest /\ DataTyped /\ HoldInv /\ faults \in Nat
  BY Parts DEF IInv, DataInv, RestTyped
<1>1. work[w].op = "clean" /\ work[w] \in WorkType /\ Sensible(work[w])
  BY HasLocks DEF CleanItem, At
<1>2. UNCHANGED <<due, record, details, listed, previewed, reopened, tombstones, hold, export>>
  BY DEF CleanItem
<1>3. /\ disk' \subseteq disk /\ queue' \in [Evidence -> QueueStates]
      /\ \A x \in Evidence \ {e} : queue'[x] = queue[x]
      /\ queue'[e] \in {"NONE", "CONFIRMED"} => e \notin disk' \/ queue'[e] = queue[e]
  BY <1>0 DEF CleanItem, DataTyped, QueueStates
<1>4. Kept /\ RestTyped' /\ RestInv' /\ DataTyped' /\ HoldInv'
  <2>1. faults' \in Nat
    BY <1>0 DEF CleanItem
  <2>2. CASE Retry(w)
    BY <1>0, <1>1, <1>2, <1>3, <2>1, <2>2, RetryKeeps DEF Kept, RestTyped, RestInv, DataTyped, HoldInv
  <2>3. messages' = messages \/ Retry(w)
    BY DEF CleanItem
  <2> QED BY <1>0, <1>2, <1>3, <2>1, <2>2, <2>3 DEF Kept, RestTyped, RestInv, DataTyped, HoldInv
<1>5. DataInv'
  <2>1. TombstoneTruthful' /\ ArchiveHonest'
    BY <1>2, <1>3 DEF IInv, DataInv, TombstoneTruthful, ArchiveHonest
  <2>2. ASSUME NEW x \in disk', x[1] \notin details' PROVE queue'[x] \notin {"NONE", "CONFIRMED"}
    <3>1. x \in disk /\ x \in Evidence /\ queue[x] \notin {"NONE", "CONFIRMED"}
      BY <1>0, <1>2, <1>3, <2>2 DEF DataTyped, IInv, DataInv
    <3> QED BY <1>3, <2>2, <3>1
  <2> QED BY <1>2, <2>1, <2>2 DEF IInv, DataInv
<1>6. ASSUME NEW t \in WorkType, Sensible(t), Moves(w, t), t.op \in {"idle", "clean"}
      PROVE  IInv'
  <2>1. work'[w] = t
    BY <1>6, TakenOthers, Parts DEF IInv, WorkTyped
  <2>2. OneStage(w)'
    BY <1>6, <2>1 DEF OneStage
  <2> QED BY <1>2, <1>4, <1>5, <1>6, <2>2, Wide DEF HasActiveHold, ActiveOn
<1>7. CASE End(w)
  BY <1>6, <1>7, TaskFacts DEF End, Moves
<1>8. CASE work' = [work EXCEPT ![w].left = @ \ {e}] /\ UNCHANGED <<taken, lock>>
  <2> DEFINE t == [work[w] EXCEPT !.left = @ \ {e}]
  <2>1. t \in WorkType /\ t.op = "clean" /\ t.on = work[w].on
    BY <1>1 DEF WorkType
  <2>2. Sensible(t) /\ LocksOf(t) = LocksOf(work[w])
    BY <1>1, <2>1 DEF Sensible, LocksOf
  <2> HIDE DEF t
  <2>3. work' = [work EXCEPT ![w] = t]
    BY <1>8 DEF t
  <2>4. Moves(w, t)
    BY <1>8, <2>2, <2>3 DEF Moves
  <2> QED BY <1>6, <2>1, <2>2, <2>4
<1> QED BY <1>7, <1>8 DEF CleanItem

LEMMA MintKeeps ==
    ASSUME IInv, NEW w \in Workers, Mint(w)
    PROVE  IInv'
<1> USE DEF purgeVars, fileVars, taskVars
<1>0. RestTyped /\ RestInv /\ ArchiveHonest /\ DataTyped /\ HoldInv /\ faults \in Nat
  BY Parts DEF IInv, DataInv, RestTyped
<1>1. PICK a \in Attempts :
         a = work[w].on /\ work[w].op = "mint" /\ taken[w] = 1 /\ ~Busy(a, w)
  <2>1. /\ work[w].op = "mint" /\ Sensible(work[w])
        /\ taken[w] = Len(LocksOf(work[w]))
    BY HasLocks DEF Mint, At
  <2>2. work[w].on \in Attempts /\ taken[w] = 1
    BY <2>1, LockFacts DEF Sensible, IInv
  <2> QED BY <2>1, <2>2, Alone
<1>2. CASE UNCHANGED <<tombstones, record, queue>>
  BY <1>0, <1>2, EndQuiet DEF Mint
<1>3. CASE /\ a \notin tombstones /\ a \notin details /\ AllConfirmed(a)
           /\ tombstones' = tombstones \cup {a}
           /\ record' = [record EXCEPT ![a] = "PURGED"]
           /\ queue' = [e \in Evidence |-> IF e[1] = a THEN "NONE" ELSE queue[e]]
  <2>1. UNCHANGED <<due, details, listed, previewed, reopened, disk, hold, export, messages, faults>>
    BY DEF Mint
  <2>2. \A b \in Attempts : record'[b] = IF b = a THEN "PURGED" ELSE record[b]
    BY <1>0, <1>3 DEF DataTyped
  <2>3. Kept /\ RestTyped' /\ RestInv' /\ DataTyped' /\ HoldInv'
    BY <1>0, <1>3, <2>1 DEF Kept, RestTyped, RestInv, DataTyped, HoldInv, QueueStates, PurgeStates
  <2>4. \A e \in disk : e \in Evidence /\ e[1] # a
    BY <1>0, <1>3 DEF DataTyped, AllConfirmed, IInv, DataInv
  <2>5. DataInv'
    <3>1. TombstoneTruthful' /\ ArchiveHonest'
      BY <1>0, <1>3, <2>1, <2>2, <2>4 DEF TombstoneTruthful, ArchiveHonest, IInv, DataInv
    <3>2. \A e \in disk' : e[1] \notin details' => queue'[e] \notin {"NONE", "CONFIRMED"}
      BY <1>3, <2>1, <2>4 DEF IInv, DataInv
    <3> QED BY <1>3, <2>1, <2>2, <3>1, <3>2 DEF IInv, DataInv, Scrubbed
  <2>6. Moves(w, Idle)
    BY DEF Mint, End, Moves
  <2>7. OneStage(w)'
    <3>1. work'[w] = Idle
      BY <2>6, TaskFacts, TakenOthers, Parts DEF IInv, WorkTyped
    <3> QED BY <3>1 DEF OneStage, Idle, Task
  <2>8. ASSUME NEW b \in Attempts, Busy(b, w)
        PROVE  record'[b] = record[b] /\ (HasActiveHold(b)' => HasActiveHold(b))
    <3>1. b # a
      BY <1>1, <2>8
    <3> QED BY <2>1, <2>2, <3>1 DEF HasActiveHold, ActiveOn
  <2> QED BY <2>3, <2>5, <2>6, <2>7, <2>8, TaskFacts, Wide
<1> QED BY <1>1, <1>2, <1>3 DEF Mint

(***************************************************************************)
(* Steps that are no worker's.                                             *)
(***************************************************************************)
LEMMA OtherSteps ==
    ASSUME IInv,
           \/ DailyList \/ Preview \/ TokenExpires
           \/ \E a \in Attempts : Elapse(a)
           \/ \E j \in Exports : ExpireArchive(j)
    PROVE  IInv'
<1> USE DEF purgeVars, fileVars, taskVars, workVars
<1> USE DEF DailyList, Preview, TokenExpires, Elapse, ExpireArchive
<1>0. RestTyped /\ RestInv /\ ArchiveHonest /\ DataTyped /\ HoldInv /\ WorkTyped
      /\ \A w \in Workers : Sensible(work[w]) /\ OneStage(w)
  BY Parts DEF IInv, DataInv, StageInv
<1>1. UNCHANGED <<record, details, reopened, disk, queue, tombstones, hold, work, taken, lock>>
  OBVIOUS
<1>2. RestTyped'
  BY <1>0 DEF RestTyped
<1>3. /\ \A j \in Exports : /\ export'[j].on = export[j].on
                            /\ export'[j].archive = export[j].archive
                            /\ export'[j].full = export[j].full
                            /\ export[j].status # "NONE" => export'[j].status # "NONE"
                            /\ export'[j].status # "NONE" => export[j].status # "NONE"
                            /\ export[j].status # "REQUESTED" <=> export'[j].status # "REQUESTED"
      /\ messages' = messages
  BY <1>0 DEF RestTyped
<1>4. Kept /\ RestInv' /\ ArchiveHonest'
  BY <1>0, <1>1, <1>3 DEF Kept, RestInv, ArchiveHonest
<1>5. ASSUME NEW w \in Workers PROVE Sensible(work[w])' /\ LocksOf(work[w])' = LocksOf(work[w])
                                     /\ OneStage(w)'
  <2>1. PICK u \in WorkType : u = work[w] /\ u = work'[w] /\ Sensible(u)
    BY <1>0, <1>1 DEF WorkTyped
  <2>2. Sensible(u)' /\ LocksOf(u)' = LocksOf(u)
    BY <1>4, <2>1, LocksStable
  <2>3. Sensible(work[w])' /\ LocksOf(work[w])' = LocksOf(work[w])
    BY <2>1, <2>2 DEF Sensible, LocksOf, HoldLocks, ExportLocks, PurgeLocks
  <2>4. /\ work[w].op = "copy" => export'[work[w].on].on = export[work[w].on].on
        /\ work[w].op \in {"generate", "write"} => export'[work[w].on].status # "REQUESTED"
    BY <1>0, <1>3 DEF Sensible, OneStage
  <2>5. OneStage(w)'
    BY <1>0, <1>1, <2>4 DEF OneStage, HasActiveHold, ActiveOn
  <2> QED BY <2>3, <2>5
<1>6. LockInv'
  BY <1>1, <1>5 DEF IInv, LockInv
<1>7. TypeOK' /\ WorkInv'
  BY <1>0, <1>1, <1>2, <1>4, <1>5, PartsNext DEF DataTyped, HoldInv, WorkTyped
<1>8. DataInv'
  BY <1>1, <1>4 DEF IInv, DataInv, TombstoneTruthful
<1> QED BY <1>5, <1>6, <1>7, <1>8 DEF IInv, StageInv

(***************************************************************************)
(* The theorems.                                                           *)
(***************************************************************************)
LEMMA Starts == Init => IInv
<1> SUFFICES ASSUME Init PROVE IInv
  OBVIOUS
<1> USE DEF Init
<1>1. RestTyped
  BY DEF RestTyped, NoExport
<1>2. DataTyped
  BY DEF DataTyped, NoHold, PurgeStates, QueueStates, Evidence
<1>3. WorkTyped
  BY TaskFacts DEF WorkTyped
<1>4. RestInv /\ HoldInv
  BY DEF RestInv, HoldInv, NoExport, NoHold
<1>5. \A w \in Workers : work[w] = Idle /\ work[w].op = "idle" /\ taken[w] = 0
                         /\ Sensible(work[w])
  BY TaskFacts
<1>6. LockInv
  <2>1. ASSUME NEW w \in Workers PROVE LocksOf(work[w]) = <<>>
    BY <1>5 DEF LocksOf
  <2> QED BY <1>5, <2>1 DEF LockInv
<1>7. StageInv
  BY <1>5 DEF StageInv, OneStage
<1>8. DataInv
  <2>1. \A j \in Exports : export[j].status = "NONE"
    BY DEF NoExport
  <2>2. \A a \in Attempts : record[a] = "SCHEDULED" /\ a \in details /\ a \notin tombstones
    OBVIOUS
  <2>3. \A e \in disk : e[1] \in details
    BY DEF Evidence
  <2> QED BY <2>1, <2>2, <2>3 DEF DataInv, TombstoneTruthful, ArchiveHonest, Scrubbed
<1> QED BY <1>1, <1>2, <1>3, <1>4, <1>5, <1>6, <1>7, <1>8, Parts DEF IInv

LEMMA Steps == IInv /\ [Next]_vars => IInv'
<1> SUFFICES ASSUME IInv, [Next]_vars PROVE IInv'
  OBVIOUS
<1>1. CASE UNCHANGED vars
  <2>1. /\ UNCHANGED <<due, record, details, listed, previewed, reopened>>
        /\ UNCHANGED <<disk, queue, tombstones, hold, export, messages, faults>>
        /\ UNCHANGED <<work, taken, lock>>
    BY <1>1 DEF vars, purgeVars, fileVars, taskVars, workVars
  <2>2. TypeOK'
    BY <2>1, Parts, PartsNext DEF IInv, RestTyped, DataTyped, WorkTyped
  <2>3. WorkInv' /\ LockInv'
    BY <2>1 DEF IInv, WorkInv, LockInv, Sensible, LocksOf, HoldLocks, PurgeLocks, ExportLocks
  <2>4. StageInv'
    BY <2>1 DEF IInv, StageInv, OneStage, HasActiveHold, ActiveOn
  <2>5. DataInv'
    BY <2>1 DEF IInv, DataInv, TombstoneTruthful, ArchiveHonest
  <2> QED BY <2>2, <2>3, <2>4, <2>5 DEF IInv
<1>2. CASE DailyList \/ Preview \/ TokenExpires \/ (\E a \in Attempts : Elapse(a))
           \/ \E j \in Exports : ExpireArchive(j)
  BY <1>2, OtherSteps
<1>3. ASSUME NEW w \in Workers, Acquire(w) \/ SkipLocked(w) \/ LoseWorker(w) \/ TaskRaises(w)
      PROVE  IInv'
  BY <1>3, AcquireKeeps, EndSteps, RaiseSteps
<1>4. ASSUME NEW w \in Workers, HoldStep(w) PROVE IInv'
  BY <1>4, BeginSteps, PlaceHoldKeeps, ReleaseHoldKeeps DEF HoldStep
<1>5. ASSUME NEW w \in Workers, PurgeStep(w) PROVE IInv'
  BY <1>5, BeginSteps, DecidePurgeKeeps, ScrubKeeps DEF PurgeStep
<1>6. ASSUME NEW w \in Workers, FileStep(w) PROVE IInv'
  BY <1>6, FileSteps, CleanItemKeeps, MintKeeps DEF FileStep
<1>7. ASSUME NEW w \in Workers, ExportStep(w) PROVE IInv'
  BY <1>7, ExportSteps, ChooseArchiveKeeps, AcquireSnapshotKeeps DEF ExportStep
<1> QED BY <1>1, <1>2, <1>3, <1>4, <1>5, <1>6, <1>7 DEF Next

\* Every variable keeps its type, and so do the locks and the tasks of workers.
THEOREM Typing == Spec => []TypeOK
<1>1. IInv => TypeOK
  BY DEF IInv
<1> QED BY <1>1, Starts, Steps, PTL DEF Spec

\* A tombstone exists only of an attempt whose details and evidence are gone, and
\* its record is closed: mint_tombstone reads the queue in the transaction that closes it.
THEOREM Tombstones == Spec => []TombstoneTruthful
<1>1. IInv => TombstoneTruthful
  BY DEF IInv, DataInv
<1> QED BY <1>1, Starts, Steps, PTL DEF Spec

\* What acquire_snapshot reads of the purge state is still so when it copies the
\* attempt, as both hold the row of its retention record.
THEOREM Archives == Spec => []ArchiveHonest
<1>1. IInv => ArchiveHonest
  BY DEF IInv, DataInv
<1> QED BY <1>1, Starts, Steps, PTL DEF Spec

\* Only the scrub deletes details, and the hold it looked for cannot come between
\* the look and the deletion: the owners' rows are locked.
LEMMA ScrubOnly == IInv /\ [Next]_vars => [\A a \in details : a \notin details' => ~HasActiveHold(a)]_vars
<1> SUFFICES ASSUME IInv, Next, NEW a \in details, a \notin details' PROVE ~HasActiveHold(a)
  OBVIOUS
<1>1. PICK w \in Workers : Scrub(w)
  BY ZenonT(40) DEF Next, DailyList, Preview, TokenExpires, Elapse, ExpireArchive, Acquire, SkipLocked,
     LoseWorker, TaskRaises, HoldStep, RequestHold, RequestRelease, PlaceHold, ReleaseHold, PurgeStep,
     DailyPurge, ManualPurge, DecidePurge, FileStep, CleanTask, CleanItem, CleanEnds, Mint,
     ExportStep, RequestExport, ExportTask, ChooseArchive, AcquireSnapshot, Generate,
     WriteArchive, purgeVars
<1>2. a = work[w].on /\ work[w].op = "scrub" /\ OneStage(w)
  BY <1>1 DEF Scrub, At, IInv, StageInv
<1> QED BY <1>2 DEF OneStage

\* No step deletes what a hold protects.
THEOREM HeldAttempts == Spec => HeldUntouched
<1> QED BY Starts, Steps, ScrubOnly, PTL DEF Spec, HeldUntouched

-------------------------------------------------------------------------------
(***************************************************************************)
(* Deadlock.  The locks a worker has are the ones it took, each of a       *)
(* higher rank than the one before; so is the lock it waits for.           *)
(***************************************************************************)
Rank(r) == CASE r \in Exports -> 0
             [] r = Exam -> 1
             [] r = Student -> 2
             [] r \in Attempts -> 3
             [] OTHER -> 4

LEMMA Ranks ==
    /\ \A j \in Exports : Rank(j) = 0
    /\ Rank(Exam) = 1 /\ Rank(Student) = 2
    /\ \A a \in Attempts : Rank(a) = 3 /\ Rank(RecordOf(a)) = 4
    /\ \A r : Rank(r) \in Nat
<1>1. \A a \in Attempts : RecordOf(a) \notin Exports \cup {Exam, Student} \cup Attempts
  BY DEF RecordOf
<1> QED BY <1>1 DEF Rank

LEMMA Ordered ==
    ASSUME NEW t, Sensible(t), WorkInv,
           NEW i \in 1..Len(LocksOf(t)), NEW k \in 1..Len(LocksOf(t)), i < k
    PROVE  Rank(LocksOf(t)[i]) < Rank(LocksOf(t)[k])
<1>1. CASE t.op \in {"purge", "scrub"}
  <2>1. LocksOf(t) = <<Exam, Student, t.on, RecordOf(t.on)>> /\ t.on \in Attempts
    BY <1>1 DEF LocksOf, PurgeLocks, Sensible
  <2> QED BY <2>1, Ranks
<1>2. CASE t.op \in {"hold", "release", "mint"}
  BY <1>2 DEF LocksOf, HoldLocks
<1>3. CASE t.op \in {"snapshot", "copy"} /\ export[t.on].on = Student
  BY <1>3 DEF LocksOf
<1>4. CASE t.op \in {"snapshot", "copy"} /\ export[t.on].on # Student
  <2>1. t.on \in Exports /\ export[t.on].on \in Attempts
    BY <1>4 DEF Sensible, WorkInv, Targets
  <2>2. LocksOf(t) = <<t.on, Exam, Student, export[t.on].on, RecordOf(export[t.on].on)>>
    BY <1>4 DEF LocksOf, ExportLocks
  <2> QED BY <2>1, <2>2, Ranks
<1>5. CASE t.op \notin {"purge", "scrub", "hold", "release", "snapshot", "copy", "mint"}
  BY <1>5 DEF LocksOf
<1> QED BY <1>1, <1>2, <1>3, <1>4, <1>5

\* A worker has no locks but those it took.
Owned(w) == \A r \in Rows : lock[r] = w => \E i \in 1..taken[w] : LocksOf(work[w])[i] = r

AllOwned == \A w \in Workers : Owned(w)

\* A step of w, other than taking a lock: it keeps its locks and what they are
\* for, or gives them up.
Frees(w) ==
    /\ \A v \in Workers \ {w} : work'[v] = work[v] /\ taken'[v] = taken[v]
    /\ \A r \in Rows : lock'[r] \in {Nobody, lock[r]}
    /\ \/ \A r \in Rows : lock'[r] # w
       \/ taken'[w] = taken[w] /\ LocksOf(work[w])' = LocksOf(work[w])

LEMMA EndFrees ==
    ASSUME WorkTyped, NEW w \in Workers, NEW t, GoOn(w, t) PROVE Frees(w)
BY DEF WorkTyped, GoOn, Frees

\* A worker that has no locks to take has none.
LEMMA LocklessFrees ==
    ASSUME IInv, NEW w \in Workers, Owned(w), NEW t, LocksOf(work[w]) = <<>>,
           work' = [work EXCEPT ![w] = t], UNCHANGED <<taken, lock>>
    PROVE  Frees(w)
<1>1. WorkTyped /\ taken[w] = 0
  BY Parts DEF IInv, LockInv, WorkTyped
<1>2. \A r \in Rows : lock[r] # w
  BY <1>1 DEF Owned
<1> QED BY <1>1, <1>2 DEF Frees, WorkTyped

LEMMA BeginFrees ==
    ASSUME IInv, NEW w \in Workers, Owned(w), NEW t, Begin(w, t) PROVE Frees(w)
<1>1. LocksOf(work[w]) = <<>>
  BY DEF Begin, Idle, Task, LocksOf
<1> QED BY <1>1, LocklessFrees DEF Begin

LEMMA WorkFrees ==
    ASSUME IInv, NEW w \in Workers, Owned(w),
           \/ SkipLocked(w) \/ LoseWorker(w) \/ TaskRaises(w)
           \/ HoldStep(w) \/ PurgeStep(w) \/ FileStep(w)
    PROVE  Frees(w)
<1>0. WorkTyped
  BY Parts DEF IInv
<1>1. CASE \/ SkipLocked(w) \/ LoseWorker(w) \/ TaskRaises(w)
           \/ PlaceHold(w) \/ ReleaseHold(w) \/ Scrub(w) \/ CleanEnds(w) \/ Mint(w)
  <2>1. \E t : GoOn(w, t)
    BY <1>1 DEF SkipLocked, LoseWorker, TaskRaises, PlaceHold, ReleaseHold, Scrub, CleanEnds, Mint,
           End
  <2> QED BY <1>0, <2>1, EndFrees
<1>2. CASE \/ \E o \in Owners : RequestHold(w, o)
           \/ \E h \in Holds : RequestRelease(w, h)
           \/ \E a \in Attempts : DailyPurge(w, a) \/ ManualPurge(w, a)
           \/ \E m \in messages : CleanTask(w, m)
  <2>1. \E t : Begin(w, t)
    BY <1>2 DEF RequestHold, RequestRelease, DailyPurge, ManualPurge, CleanTask
  <2> QED BY <2>1, BeginFrees
<1>3. CASE DecidePurge(w)
  <2>1. CASE \E t : GoOn(w, t)
    BY <1>0, <2>1, EndFrees
  <2>2. CASE work' = [work EXCEPT ![w].op = "scrub"] /\ UNCHANGED <<taken, lock>>
    <3>1. work[w] \in WorkType /\ work[w].op = "purge"
      BY <1>0, <1>3 DEF WorkTyped, DecidePurge, At
    <3>2. work'[w].op = "scrub" /\ work'[w].on = work[w].on
      BY <1>0, <2>2, <3>1 DEF WorkTyped, WorkType
    <3>3. LocksOf(work[w])' = LocksOf(work[w])
      BY <3>1, <3>2 DEF LocksOf, PurgeLocks
    <3> QED BY <1>0, <2>2, <3>3 DEF Frees, WorkTyped
  <2> QED BY <1>3, <2>1, <2>2 DEF DecidePurge, Defer, End
<1>4. ASSUME NEW e \in Evidence, CleanItem(w, e) PROVE Frees(w)
  <2>1. LocksOf(work[w]) = <<>>
    BY <1>4 DEF CleanItem, At, LocksOf
  <2>2. CASE End(w)
    BY <1>0, <2>2, EndFrees DEF End
  <2>3. CASE work' = [work EXCEPT ![w].left = @ \ {e}] /\ UNCHANGED <<taken, lock>>
    <3>1. \E t : work' = [work EXCEPT ![w] = t]
      BY <2>3
    <3> QED BY <2>1, <2>3, <3>1, LocklessFrees
  <2> QED BY <1>4, <2>2, <2>3 DEF CleanItem
<1> QED BY <1>1, <1>2, <1>3, <1>4 DEF HoldStep, PurgeStep, FileStep

LEMMA ExportFrees ==
    ASSUME IInv, NEW w \in Workers, Owned(w), ExportStep(w)
    PROVE  Frees(w) \/ UNCHANGED <<work, taken, lock>>
<1>0. WorkTyped
  BY Parts DEF IInv
<1>1. CASE AcquireSnapshot(w) \/ WriteArchive(w)
  <2>1. \E t : GoOn(w, t)
    BY <1>1 DEF AcquireSnapshot, WriteArchive, End
  <2> QED BY <1>0, <2>1, EndFrees
<1>2. ASSUME NEW j \in Exports, NEW x \in Targets, RequestExport(w, j, x)
      PROVE  Frees(w) \/ UNCHANGED <<work, taken, lock>>
  BY <1>2, BeginFrees DEF RequestExport, workVars
<1>3. ASSUME NEW m \in messages, ExportTask(w, m) PROVE Frees(w)
  BY <1>3, BeginFrees DEF ExportTask
<1>4. CASE ChooseArchive(w)
  <2>1. CASE \E t : GoOn(w, t)
    BY <1>0, <2>1, EndFrees
  <2>2. CASE /\ export[work[w].on].on \in Attempts
             /\ work' = [work EXCEPT ![w].op = "copy",
                                     ![w].copy = ArchiveType(export[work[w].on].on)]
             /\ UNCHANGED <<export, taken, lock>>
    <3>1. work[w] \in WorkType /\ work[w].op = "snapshot"
      BY <1>0, <1>4 DEF WorkTyped, ChooseArchive, At
    <3>2. work'[w].op = "copy" /\ work'[w].on = work[w].on
      BY <1>0, <2>2, <3>1 DEF WorkTyped, WorkType
    <3>3. PICK j \in Exports, a \in Attempts : j = work[w].on /\ a = export[j].on
      BY <2>2, <3>1, Parts DEF IInv, Sensible
    <3>4. LocksOf(work[w]) = ExportLocks(j, a)
      BY <3>1, <3>3 DEF LocksOf
    <3>5. work'[w].on = j /\ export'[j].on = a /\ a # Student
      BY <2>2, <3>2, <3>3
    <3>6. LocksOf(work[w])' = ExportLocks(j, a)
      BY <3>2, <3>5 DEF LocksOf, ExportLocks
    <3>7. LocksOf(work[w])' = LocksOf(work[w])
      BY <3>4, <3>6
    <3> QED BY <1>0, <2>2, <3>7 DEF Frees, WorkTyped
  <2> QED BY <1>4, <2>1, <2>2 DEF ChooseArchive
<1>5. CASE Generate(w)
  <2>1. LocksOf(work[w]) = <<>>
    BY <1>5 DEF Generate, At, LocksOf
  <2>2. \E t : work' = [work EXCEPT ![w] = t]
    BY <1>5 DEF Generate
  <2> QED BY <1>5, <2>1, <2>2, LocklessFrees DEF Generate
<1> QED BY <1>1, <1>2, <1>3, <1>4, <1>5 DEF ExportStep

LEMMA AlwaysKept == ASSUME IInv, [Next]_vars PROVE Kept
<1>0. WorkInv /\ DataTyped /\ RestTyped /\ \A w \in Workers : Sensible(work[w])
  BY Parts DEF IInv
<1>1. CASE UNCHANGED <<hold, export>>
  BY <1>1 DEF Kept
<1>2. ASSUME NEW w \in Workers, PlaceHold(w) PROVE Kept
  BY <1>0, <1>2 DEF PlaceHold, Kept, DataTyped, NoHold
<1>3. ASSUME NEW w \in Workers, ReleaseHold(w) PROVE Kept
  BY <1>0, <1>3 DEF ReleaseHold, Kept, DataTyped
<1>4. ASSUME NEW w \in Workers, NEW j \in Exports, NEW x \in Targets, RequestExport(w, j, x)
      PROVE  Kept
  BY <1>0, <1>4 DEF RequestExport, Kept, RestTyped, NoExport
<1>5. ASSUME NEW w \in Workers, ChooseArchive(w) \/ Generate(w) \/ WriteArchive(w) PROVE Kept
  BY <1>0, <1>5 DEF ChooseArchive, Generate, WriteArchive, Kept, RestTyped, Protected
<1>6. ASSUME NEW w \in Workers, AcquireSnapshot(w) PROVE Kept
  BY <1>0, <1>6 DEF AcquireSnapshot, Kept, RestTyped
<1>7. ASSUME NEW j \in Exports, ExpireArchive(j) PROVE Kept
  BY <1>0, <1>7 DEF ExpireArchive, Kept, RestTyped
<1> QED BY <1>1, <1>2, <1>3, <1>4, <1>5, <1>6, <1>7
        DEF Next, DailyList, Preview, TokenExpires, Elapse, Acquire, SkipLocked, LoseWorker,
            TaskRaises, HoldStep, RequestHold, RequestRelease, PurgeStep, DailyPurge, ManualPurge,
            DecidePurge, Scrub, FileStep, CleanTask, CleanItem, CleanEnds, Mint, ExportStep,
            ExportTask, vars

\* What others do does not change what a worker's locks are.
LEMMA OthersLocks ==
    ASSUME IInv, Kept, NEW v \in Workers, work'[v] = work[v]
    PROVE  LocksOf(work[v])' = LocksOf(work[v])
<1>1. PICK u \in WorkType : u = work[v] /\ u = work'[v] /\ Sensible(u)
  BY Parts DEF IInv, WorkTyped
<1>2. LocksOf(u)' = LocksOf(u)
  BY <1>1, LocksStable
<1> QED BY <1>1, <1>2 DEF LocksOf, HoldLocks, ExportLocks, PurgeLocks

LEMMA OwnedStep == ASSUME IInv, [Next]_vars, AllOwned PROVE AllOwned'
<1> SUFFICES ASSUME NEW v \in Workers PROVE Owned(v)'
  BY DEF AllOwned
<1>0. Kept /\ WorkTyped /\ \A w \in Workers : Owned(w)
  BY AlwaysKept, Parts DEF IInv, AllOwned
<1>1. ASSUME NEW w \in Workers, Frees(w) PROVE Owned(v)'
  <2>1. ASSUME NEW r \in Rows, lock'[r] = v
        PROVE  lock[r] = v /\ taken'[v] = taken[v] /\ LocksOf(work[v])' = LocksOf(work[v])
    BY <1>0, <1>1, <2>1, OthersLocks, RowAssumption DEF Frees
  <2> QED BY <1>0, <2>1 DEF Owned
<1>2. CASE UNCHANGED <<work, taken, lock>>
  BY <1>0, <1>2, OthersLocks DEF Owned
<1>3. ASSUME NEW w \in Workers, Acquire(w) PROVE Owned(v)'
  <2>1. LocksOf(work[v])' = LocksOf(work[v])
    BY <1>0, <1>3, OthersLocks DEF Acquire
  <2>2. PICK n : n = NextRow(w)
    OBVIOUS
  <2>3. lock' = [lock EXCEPT ![n] = w] /\ taken' = [taken EXCEPT ![w] = @ + 1]
    BY <1>3, <2>2 DEF Acquire
  <2>4. taken[v] \in 0..5 /\ taken'[v] \in Nat /\ taken[v] <= taken'[v]
        /\ (v = w => taken'[v] = taken[v] + 1)
    BY <1>0, <2>3 DEF WorkTyped
  <2>5. ASSUME NEW r \in Rows, lock'[r] = v
        PROVE  \E i \in 1..taken'[v] : LocksOf(work[v])[i] = r
    <3>1. CASE lock[r] = v
      <4>1. PICK i \in 1..taken[v] : LocksOf(work[v])[i] = r
        BY <1>0, <3>1 DEF Owned
      <4>2. i \in 1..taken'[v]
        BY <2>4
      <4> QED BY <4>1, <4>2
    <3>2. CASE lock[r] # v
      <4>1. r = n /\ v = w
        BY <1>0, <2>3, <2>5, <3>2 DEF WorkTyped
      <4>2. taken[v] + 1 \in 1..taken'[v] /\ LocksOf(work[v])[taken[v] + 1] = r
        BY <2>2, <2>4, <4>1 DEF NextRow
      <4> QED BY <4>2
    <3> QED BY <3>1, <3>2
  <2> QED BY <2>1, <2>5 DEF Owned
<1>4. CASE DailyList \/ Preview \/ TokenExpires \/ (\E a \in Attempts : Elapse(a))
           \/ \E j \in Exports : ExpireArchive(j)
  BY <1>2, <1>4 DEF DailyList, Preview, TokenExpires, Elapse, ExpireArchive, workVars
<1>5. CASE UNCHANGED vars
  BY <1>2, <1>5 DEF vars, workVars
<1>6. ASSUME NEW w \in Workers,
             \/ SkipLocked(w) \/ LoseWorker(w) \/ TaskRaises(w)
             \/ HoldStep(w) \/ PurgeStep(w) \/ FileStep(w)
      PROVE  Owned(v)'
  <2>1. Frees(w)
    BY <1>0, <1>6, WorkFrees
  <2> QED BY <1>1, <2>1
<1>7. ASSUME NEW w \in Workers, ExportStep(w) PROVE Owned(v)'
  <2>1. Frees(w) \/ UNCHANGED <<work, taken, lock>>
    BY <1>0, <1>7, ExportFrees
  <2> QED BY <1>1, <1>2, <2>1
<1> QED BY <1>3, <1>4, <1>5, <1>6, <1>7 DEF Next

\* No two workers wait for each other: the one would have a lock of a higher rank
\* than the one it waits for.
THEOREM LocksInOrder == Spec => []NoLockCycle
<1>1. Init => AllOwned
  BY DEF Init, AllOwned, Owned
<1>2. ASSUME IInv, AllOwned, NEW w \in Workers, NEW v \in Workers,
             WaitsFor(w, v)
      PROVE  NextRow(w) \in Rows /\ (Waiting(v) => Rank(NextRow(w)) < Rank(NextRow(v)))
  <2>0. /\ Sensible(work[w]) /\ Sensible(work[v]) /\ WorkInv
        /\ taken[v] \in 0..5 /\ taken[w] \in 0..5
        /\ Len(LocksOf(work[v])) \in 0..5 /\ Len(LocksOf(work[w])) \in 0..5
    BY <1>2, Parts, LockFacts DEF IInv, WorkTyped
  <2>1. NextRow(w) \in Rows
    <3>1. taken[w] + 1 \in 1..Len(LocksOf(work[w]))
      BY <1>2, <2>0 DEF WaitsFor, Waiting
    <3> QED BY <2>0, <3>1, LockFacts DEF NextRow
  <2>2. ASSUME Waiting(v) PROVE Rank(NextRow(w)) < Rank(NextRow(v))
    <3>1. PICK i \in 1..taken[v] : LocksOf(work[v])[i] = NextRow(w)
      BY <1>2, <2>1 DEF AllOwned, Owned, WaitsFor
    <3>2. taken[v] + 1 \in 1..Len(LocksOf(work[v])) /\ i \in 1..Len(LocksOf(work[v]))
          /\ i < taken[v] + 1
      BY <2>0, <2>2 DEF Waiting
    <3> QED BY <2>0, <3>1, <3>2, Ordered DEF NextRow
  <2> QED BY <2>1, <2>2
<1>3. IInv /\ AllOwned => NoLockCycle
  <2> SUFFICES ASSUME IInv, AllOwned, NEW w \in Workers, NEW v \in Workers,
                      WaitsFor(w, v), WaitsFor(v, w)
               PROVE  FALSE
    BY DEF NoLockCycle
  <2>1. Waiting(w) /\ Waiting(v)
    BY DEF WaitsFor
  <2>2. Rank(NextRow(w)) < Rank(NextRow(v)) /\ Rank(NextRow(v)) < Rank(NextRow(w))
    BY <1>2, <2>1
  <2>3. Rank(NextRow(w)) \in Nat /\ Rank(NextRow(v)) \in Nat
    BY Ranks
  <2> QED BY <2>2, <2>3
<1>4. IInv /\ AllOwned /\ [Next]_vars => AllOwned'
  BY OwnedStep
<1> QED BY <1>1, <1>3, <1>4, Starts, Steps, PTL DEF Spec

================================================================================
