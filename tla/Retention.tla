------------------------------- MODULE Retention -------------------------------
(***************************************************************************)
(* What becomes of an attempt's details after the retention period: the    *)
(* purge, legal holds, the deletion of evidence files, the tombstone, and  *)
(* the archives students ask for (DSAR).                                   *)
(*                                                                         *)
(* A transaction takes its row locks one after the other, Assessment ->    *)
(* User -> TestAttempt -> RetentionRecord, then reads, then writes and     *)
(* commits; that order of steps is what protects a held attempt.  One      *)
(* student in one assessment, whose attempts have been finalized, with a   *)
(* RetentionRecord each.                                                   *)
(***************************************************************************)
EXTENDS Naturals, Sequences, FiniteSets

CONSTANTS
    Attempts,
    Exam, Student,   \* the rows of the assessment and of the student
    Holds,           \* legal holds that may be placed
    Exports,         \* ExportJobs that may be requested
    Files,           \* evidence files of every attempt
    Workers,         \* processes of the server and of Celery
    Faults,          \* bound: failures, lost messages and lost processes
    ExportRetries,   \* max_retries of generate_student_dsar_archive
    CleanRetries,    \* max_retries of process_file_cleanup_queue
    Nobody

ASSUME RowAssumption ==
    /\ Exam # Student /\ {Exam, Student} \cap (Attempts \cup Exports) = {}
    /\ Attempts \cap Exports = {}
    /\ ({"record"} \X Attempts) \cap ({Exam, Student} \cup Attempts \cup Exports) = {}
    /\ Nobody \notin Workers
ASSUME BoundAssumption == Faults \in Nat /\ ExportRetries \in Nat /\ CleanRetries \in Nat

VARIABLES
    due,         \* attempts whose detailed_data_expires_at has passed
    record,      \* RetentionRecord.purge_state
    details,     \* attempts with answers, submissions and events
    disk,        \* evidence files, as <<attempt, file>>
    queue,       \* FileCleanupQueue, by <<attempt, file>>
    tombstones,
    hold,        \* LegalHold
    export,      \* ExportJob
    listed,      \* attempts the running daily task has still to look at
    previewed,   \* attempts in a preview token that is valid
    messages,    \* messages for workers, as [task, on, retry]
    work, taken, \* what a worker does, and how many of its locks it has
    lock,        \* who holds the lock of a row
    faults,
    reopened     \* history: attempts that were put off after they had been scrubbed

purgeVars == <<due, record, details, listed, previewed, reopened>>
fileVars == <<disk, queue, tombstones>>
taskVars == <<messages, faults>>
workVars == <<work, taken, lock>>
vars == <<purgeVars, fileVars, hold, export, taskVars, workVars>>

RecordOf(a) == <<"record", a>>
Rows == {Exam, Student} \cup Attempts \cup Exports \cup {RecordOf(a) : a \in Attempts}
Owners == {Exam, Student} \cup Attempts   \* whom a hold may be placed on
Targets == Attempts \cup {Student}        \* an export is of one attempt or of the account
Evidence == Attempts \X Files

PurgeStates == {"SCHEDULED", "DEFERRED_HOLD", "DEFERRED_EXPORT", "CLEANING_FILES", "PURGED"}
QueueStates == {"NONE", "PENDING", "UNSAFE", "RETRYING", "CONFIRMED", "FAILED"}
Scrubbed == {"CLEANING_FILES", "PURGED"}
Protected == {"SNAPSHOT_ACQUIRED", "GENERATING"}

NoHold == [on |-> Nobody, status |-> "NONE"]
NoExport == [on |-> Nobody, status |-> "NONE", archive |-> "FULL", full |-> FALSE]
Task(op, x) ==
    [op |-> op, on |-> x, sync |-> FALSE, left |-> {}, copy |-> "none", retry |-> 0]
Idle == Task("idle", Nobody)
Message(task, x, n) == [task |-> task, on |-> x, retry |-> n]

Ops == {"idle", "purge", "scrub", "hold", "release", "snapshot", "copy", "generate", "write",
        "clean", "mint"}

TypeOK ==
    /\ due \subseteq Attempts /\ details \subseteq Attempts
    /\ record \in [Attempts -> PurgeStates]
    /\ disk \subseteq Evidence /\ tombstones \subseteq Attempts
    /\ queue \in [Evidence -> QueueStates]
    /\ hold \in [Holds -> [on : Owners \cup {Nobody}, status : {"NONE", "ACTIVE", "RELEASED"}]]
    /\ export \in [Exports -> [on : Targets \cup {Nobody}, full : BOOLEAN,
                               archive : {"FULL", "PARTIAL"},
                               status : {"NONE", "REQUESTED", "READY", "FAILED", "EXPIRED"}
                                        \cup Protected]]
    /\ listed \subseteq Attempts /\ previewed \subseteq Attempts
    /\ reopened \subseteq Attempts
    /\ messages \subseteq [task : {"clean", "export"}, on : Attempts \cup Exports,
                           retry : Nat]
    /\ work \in [Workers -> [op : Ops, on : Owners \cup Holds \cup Exports \cup {Nobody},
                             sync : BOOLEAN, left : SUBSET Evidence,
                             copy : {"none", "FULL", "PARTIAL"}, retry : Nat]]
    /\ taken \in [Workers -> 0..5]
    /\ lock \in [Rows -> Workers \cup {Nobody}]
    /\ faults \in Nat

Init ==
    /\ due = {} /\ details = Attempts
    /\ record = [a \in Attempts |-> "SCHEDULED"]
    /\ disk = Evidence /\ tombstones = {}
    /\ queue = [e \in Evidence |-> "NONE"]
    /\ hold = [h \in Holds |-> NoHold]
    /\ export = [j \in Exports |-> NoExport]
    /\ listed = {} /\ previewed = {} /\ messages = {}
    /\ reopened = {}
    /\ work = [w \in Workers |-> Idle]
    /\ taken = [w \in Workers |-> 0]
    /\ lock = [r \in Rows |-> Nobody]
    /\ faults = 0

-------------------------------------------------------------------------------
(* Locks *)

\* Mutant: a hold is placed without the lock of its owner.
HoldLocks_None(o) == <<>>

HoldLocks(o) == <<o>>

\* execute_purge_for_attempt
PurgeLocks(a) == <<Exam, Student, a, RecordOf(a)>>

\* Mutant: an export locks the attempt before its owners.
ExportLocks_AttemptFirst(j, a) == <<j, a, Exam, Student, RecordOf(a)>>

\* acquire_snapshot
ExportLocks(j, a) == <<j, Exam, Student, a, RecordOf(a)>>

\* The rows an operation locks, in the order it locks them.
LocksOf(t) ==
    CASE t.op = "hold" -> HoldLocks(t.on)
      [] t.op = "release" -> HoldLocks(hold[t.on].on)
      [] t.op \in {"purge", "scrub"} -> PurgeLocks(t.on)
      [] t.op \in {"snapshot", "copy"} -> IF export[t.on].on = Student THEN <<t.on>>
                                          ELSE ExportLocks(t.on, export[t.on].on)
      [] t.op = "mint" -> <<RecordOf(t.on)>>
      [] OTHER -> <<>>

Waiting(w) == taken[w] < Len(LocksOf(work[w]))
NextRow(w) == LocksOf(work[w])[taken[w] + 1]

\* w has the locks it needs for op.
At(w, op) == work[w].op = op /\ ~Waiting(w)

Begin(w, t) ==
    /\ work[w] = Idle
    /\ work' = [work EXCEPT ![w] = t]
    /\ UNCHANGED <<taken, lock>>

\* The transaction of w ends, and w goes on with t.
GoOn(w, t) ==
    /\ work' = [work EXCEPT ![w] = t]
    /\ taken' = [taken EXCEPT ![w] = 0]
    /\ lock' = [r \in Rows |-> IF lock[r] = w THEN Nobody ELSE lock[r]]

End(w) == GoOn(w, Idle)

Acquire(w) ==
    /\ Waiting(w) /\ lock[NextRow(w)] = Nobody
    /\ lock' = [lock EXCEPT ![NextRow(w)] = w]
    /\ taken' = [taken EXCEPT ![w] = @ + 1]
    /\ UNCHANGED <<purgeVars, fileVars, hold, export, taskVars, work>>

\* skip_locked: a purge does not wait for the row of its attempt.
SkipLocked(w) ==
    /\ work[w].op = "purge" /\ Waiting(w)
    /\ NextRow(w) = work[w].on /\ lock[work[w].on] # Nobody
    /\ End(w)
    /\ UNCHANGED <<purgeVars, fileVars, hold, export, taskVars>>

-------------------------------------------------------------------------------
(* Legal holds *)

ActiveOn(o) == \E h \in Holds : hold[h].on = o /\ hold[h].status = "ACTIVE"

\* has_active_hold_for_attempt: on the attempt, on its student or its assessment.
HasActiveHold(a) == ActiveOn(a) \/ ActiveOn(Student) \/ ActiveOn(Exam)

RequestHold(w, o) ==
    /\ \E h \in Holds : hold[h] = NoHold
    /\ Begin(w, Task("hold", o))
    /\ UNCHANGED <<purgeVars, fileVars, hold, export, taskVars>>

\* create_attempt_hold, create_student_hold and create_assessment_hold
PlaceHold(w) ==
    /\ At(w, "hold")
    /\ \/ ActiveOn(work[w].on) /\ UNCHANGED hold
       \/ /\ ~ActiveOn(work[w].on)
          /\ \E h \in Holds :
                 /\ hold[h] = NoHold
                 /\ hold' = [hold EXCEPT ![h] = [on |-> work[w].on, status |-> "ACTIVE"]]
       \/ (\A h \in Holds : hold[h] # NoHold) /\ UNCHANGED hold
    /\ End(w)
    /\ UNCHANGED <<purgeVars, fileVars, export, taskVars>>

\* release_hold, of which the status is read before the lock.
RequestRelease(w, h) ==
    /\ hold[h].status = "ACTIVE"
    /\ Begin(w, Task("release", h))
    /\ UNCHANGED <<purgeVars, fileVars, hold, export, taskVars>>

ReleaseHold(w) ==
    /\ At(w, "release")
    /\ hold' = [hold EXCEPT ![work[w].on].status = "RELEASED"]
    /\ End(w)
    /\ UNCHANGED <<purgeVars, fileVars, export, taskVars>>

-------------------------------------------------------------------------------
(* The purge *)

Elapse(a) ==
    /\ a \notin due
    /\ due' = due \cup {a}
    /\ UNCHANGED <<record, details, listed, previewed, reopened, fileVars, hold, export, taskVars,
                   workVars>>

\* retention_scheduled_daily_purge: the candidates, read once.
DailyList ==
    /\ listed = {}
    /\ listed' = {a \in due : record[a] \in {"SCHEDULED", "DEFERRED_EXPORT"}}
    /\ UNCHANGED <<due, record, details, previewed, reopened, fileVars, hold, export, taskVars,
                   workVars>>

DailyPurge(w, a) ==
    /\ a \in listed
    /\ listed' = listed \ {a}
    /\ Begin(w, Task("purge", a))
    /\ UNCHANGED <<due, record, details, previewed, reopened, fileVars, hold, export, taskVars>>

ProtectedExport(a) == \E j \in Exports : export[j].on = a /\ export[j].status \in Protected

\* is_eligible_for_purge
IsEligible(a) ==
    /\ a \in due /\ record[a] \notin Scrubbed
    /\ ~HasActiveHold(a) /\ ~ProtectedExport(a)

\* generate_purge_preview, and the token that may be used for five minutes.
Preview ==
    /\ previewed' = {a \in due : IsEligible(a)}
    /\ previewed' # previewed
    /\ UNCHANGED <<due, record, details, listed, reopened, fileVars, hold, export, taskVars, workVars>>

TokenExpires ==
    /\ previewed # {} /\ previewed' = {}
    /\ UNCHANGED <<due, record, details, listed, reopened, fileVars, hold, export, taskVars, workVars>>

\* validate_and_execute_preview_purge, whose cleanup is done by the same request.
ManualPurge(w, a) ==
    /\ a \in previewed
    /\ Begin(w, [Task("purge", a) EXCEPT !.sync = TRUE])
    /\ UNCHANGED <<purgeVars, fileVars, hold, export, taskVars>>

Defer(w, state) ==
    /\ record' = [record EXCEPT ![work[w].on] = state]
    /\ reopened' = IF work[w].on \in details THEN reopened ELSE reopened \cup {work[w].on}
    /\ End(w)

\* execute_purge_for_attempt once it has its locks: what it reads.
DecidePurge(w) ==
    LET a == work[w].on IN
    /\ At(w, "purge")
    /\ \/ (a \notin due \/ record[a] = "PURGED") /\ End(w) /\ UNCHANGED <<record, reopened>>
       \/ /\ a \in due /\ record[a] # "PURGED" /\ HasActiveHold(a)
          /\ Defer(w, "DEFERRED_HOLD")
       \/ /\ a \in due /\ record[a] # "PURGED" /\ ~HasActiveHold(a) /\ ProtectedExport(a)
          /\ Defer(w, "DEFERRED_EXPORT")
       \/ /\ a \in due /\ record[a] # "PURGED" /\ ~HasActiveHold(a) /\ ~ProtectedExport(a)
          /\ work' = [work EXCEPT ![w].op = "scrub"]
          /\ UNCHANGED <<record, reopened, taken, lock>>
    /\ UNCHANGED <<due, details, listed, previewed, fileVars, hold, export, taskVars>>

\* The evidence rows that are left become PENDING rows of the queue; those in bad
\* ("UNSAFE") have a path that is_safe_path refuses.
Queued(a, bad) ==
    [e \in Evidence |-> IF e[1] # a \/ a \notin details THEN queue[e]
                        ELSE IF e \in bad THEN "UNSAFE" ELSE "PENDING"]

CleanOf(a, q) == {e \in Evidence : e[1] = a /\ q[e] \in {"PENDING", "UNSAFE", "RETRYING"}}

\* The rest of execute_purge_for_attempt: the scrub, its commit, and the cleanup
\* that follows in the request or is left to a message.
Scrub(w) ==
    LET a == work[w].on IN
    /\ At(w, "scrub")
    /\ details' = details \ {a}
    /\ \E bad \in SUBSET ({a} \X Files) : queue' = Queued(a, bad)
    /\ record' = [record EXCEPT ![a] = "CLEANING_FILES"]
    /\ \/ /\ work[w].sync
          /\ GoOn(w, [Task("clean", a) EXCEPT !.left = CleanOf(a, queue')])
          /\ UNCHANGED taskVars
       \/ /\ ~work[w].sync /\ End(w)
          /\ messages' = messages \cup {Message("clean", a, 0)}
          /\ UNCHANGED faults
       \/ /\ ~work[w].sync /\ End(w)
          /\ faults < Faults /\ faults' = faults + 1
          /\ UNCHANGED messages
    /\ UNCHANGED <<due, listed, previewed, reopened, disk, tombstones, hold, export>>

-------------------------------------------------------------------------------
(* Files and the tombstone *)

\* self.retry of the two tasks: the message comes again, max_retries times at
\* most.  What the request does itself is not tried again.
Retry(w) ==
    LET t == work[w]
        task == IF t.op \in {"clean", "mint"} THEN "clean" ELSE "export"
        limit == IF t.op \in {"clean", "mint"} THEN CleanRetries ELSE ExportRetries
    IN  messages' = IF ~t.sync /\ t.retry < limit
                    THEN messages \cup {Message(task, t.on, t.retry + 1)} ELSE messages

\* An error of the database in a task: the transaction is rolled back.
TaskRaises(w) ==
    /\ work[w].op \in {"snapshot", "copy", "generate", "clean", "mint"}
    /\ faults < Faults /\ faults' = faults + 1
    /\ Retry(w) /\ End(w)
    /\ UNCHANGED <<purgeVars, fileVars, hold, export>>

\* process_file_cleanup_queue
CleanTask(w, m) ==
    /\ m.task = "clean"
    /\ messages' = messages \ {m}
    /\ Begin(w, [Task("clean", m.on) EXCEPT !.left = CleanOf(m.on, queue), !.retry = m.retry])
    /\ UNCHANGED <<purgeVars, fileVars, hold, export, faults>>

\* A row of the queue that is not there any more cannot be saved: the task raises.
CleanItem(w, e) ==
    /\ At(w, "clean") /\ e \in work[w].left
    /\ \/ /\ queue[e] = "NONE" /\ disk' = disk \ {e}
          /\ Retry(w) /\ End(w) /\ UNCHANGED <<queue, faults>>
       \/ /\ queue[e] \in {"UNSAFE", "FAILED"}
          /\ queue' = [queue EXCEPT ![e] = "FAILED"]
          /\ work' = [work EXCEPT ![w].left = @ \ {e}]
          /\ UNCHANGED <<disk, taken, lock, taskVars>>
       \/ /\ queue[e] \notin {"NONE", "UNSAFE", "FAILED"}
          /\ disk' = disk \ {e} /\ queue' = [queue EXCEPT ![e] = "CONFIRMED"]
          /\ work' = [work EXCEPT ![w].left = @ \ {e}] /\ UNCHANGED <<taken, lock, taskVars>>
       \/ /\ queue[e] \notin {"NONE", "UNSAFE", "FAILED"} /\ e \in disk
          /\ faults < Faults /\ faults' = faults + 1
          /\ queue' = [queue EXCEPT ![e] = "RETRYING"]
          /\ work' = [work EXCEPT ![w].left = @ \ {e}]
          /\ UNCHANGED <<disk, taken, lock, messages>>
    /\ UNCHANGED <<purgeVars, tombstones, hold, export>>

\* Mutant: what has failed does not count.
AllConfirmed_ButFailed(a) ==
    \A e \in Evidence : e[1] = a => queue[e] \in {"NONE", "CONFIRMED", "FAILED"}

AllConfirmed(a) == \A e \in Evidence : e[1] = a => queue[e] \in {"NONE", "CONFIRMED"}

\* The worker is through with its rows and looks at the whole queue.
CleanEnds(w) ==
    LET a == work[w].on IN
    /\ At(w, "clean") /\ work[w].left = {}
    /\ IF AllConfirmed(a) /\ a \notin tombstones THEN GoOn(w, [work[w] EXCEPT !.op = "mint"]) ELSE End(w)
    /\ UNCHANGED <<purgeVars, fileVars, hold, export, taskVars>>

\* mint_tombstone in its transaction, with the unique key of the attempt.
Mint(w) ==
    LET a == work[w].on IN
    /\ At(w, "mint")
    /\ \/ /\ a \notin tombstones /\ a \notin details /\ AllConfirmed(a)
          /\ tombstones' = tombstones \cup {a}
          /\ record' = [record EXCEPT ![a] = "PURGED"]
          /\ queue' = [e \in Evidence |-> IF e[1] = a THEN "NONE" ELSE queue[e]]
       \/ /\ a \in tombstones \/ a \in details \/ ~AllConfirmed(a)
          /\ UNCHANGED <<tombstones, record, queue>>
    /\ End(w)
    /\ UNCHANGED <<due, details, listed, previewed, reopened, disk, hold, export, taskVars>>

-------------------------------------------------------------------------------
(* Archives *)

\* create_export_request and the message, or the same work at once.
RequestExport(w, j, x) ==
    /\ export[j] = NoExport
    /\ export' = [export EXCEPT ![j] = [on |-> x, status |-> "REQUESTED", archive |-> "FULL",
                                        full |-> FALSE]]
    /\ \/ /\ messages' = messages \cup {Message("export", j, 0)}
          /\ UNCHANGED <<workVars, faults>>
       \/ /\ faults < Faults /\ faults' = faults + 1
          /\ Begin(w, [Task("snapshot", j) EXCEPT !.sync = TRUE])
          /\ UNCHANGED messages
    /\ UNCHANGED <<purgeVars, fileVars, hold>>

\* generate_student_dsar_archive
ExportTask(w, m) ==
    /\ m.task = "export"
    /\ messages' = messages \ {m}
    /\ Begin(w, [Task("snapshot", m.on) EXCEPT !.retry = m.retry])
    /\ UNCHANGED <<purgeVars, fileVars, hold, export, faults>>

\* Mutant: only a record that is closed counts as purged.
ArchiveType_PurgedOnly(a) == IF record[a] = "PURGED" THEN "PARTIAL" ELSE "FULL"

ArchiveType(a) == IF record[a] \in Scrubbed THEN "PARTIAL" ELSE "FULL"

\* acquire_snapshot reads the purge state.  For an account it copies nothing and
\* leaves archive_type at its default.
ChooseArchive(w) ==
    LET j == work[w].on IN
    /\ At(w, "snapshot")
    /\ \/ /\ export[j].on \notin Attempts
          /\ export' = [export EXCEPT ![j].status = "SNAPSHOT_ACQUIRED"]
          /\ GoOn(w, [work[w] EXCEPT !.op = "generate"])
       \/ /\ export[j].on \in Attempts
          /\ work' = [work EXCEPT ![w].op = "copy",
                                  ![w].copy = ArchiveType(export[j].on)]
          /\ UNCHANGED <<export, taken, lock>>
    /\ UNCHANGED <<purgeVars, fileVars, hold, taskVars>>

\* The rest of acquire_snapshot: the payload and the commit.
AcquireSnapshot(w) ==
    LET j == work[w].on IN
    /\ At(w, "copy")
    /\ export' = [export EXCEPT ![j] =
                      [on |-> export[j].on, status |-> "SNAPSHOT_ACQUIRED", archive |-> work[w].copy,
                       full |-> work[w].copy = "FULL" /\ export[j].on \in details]]
    /\ GoOn(w, [work[w] EXCEPT !.op = "generate", !.copy = "none"])
    /\ UNCHANGED <<purgeVars, fileVars, hold, taskVars>>

\* generate_and_encrypt_archive holds no lock.
Generate(w) ==
    /\ At(w, "generate")
    /\ export' = [export EXCEPT ![work[w].on].status = "GENERATING"]
    /\ work' = [work EXCEPT ![w].op = "write"]
    /\ UNCHANGED <<purgeVars, fileVars, hold, taskVars, taken, lock>>

WriteArchive(w) ==
    LET j == work[w].on IN
    /\ At(w, "write")
    /\ \/ export' = [export EXCEPT ![j].status = "READY"] /\ UNCHANGED <<messages, faults>>
       \/ /\ export' = [export EXCEPT ![j].status = "FAILED"]
          /\ faults < Faults /\ faults' = faults + 1
          /\ Retry(w)
    /\ End(w)
    /\ UNCHANGED <<purgeVars, fileVars, hold>>

\* cleanup_expired_archives
ExpireArchive(j) ==
    /\ export[j].status = "READY"
    /\ export' = [export EXCEPT ![j].status = "EXPIRED"]
    /\ UNCHANGED <<purgeVars, fileVars, hold, taskVars, workVars>>

\* A process goes down: its transaction is rolled back, and its message is gone.
LoseWorker(w) ==
    /\ work[w] # Idle
    /\ faults < Faults /\ faults' = faults + 1
    /\ End(w)
    /\ UNCHANGED <<purgeVars, fileVars, hold, export, messages>>

-------------------------------------------------------------------------------

HoldStep(w) ==
    \/ \E o \in Owners : RequestHold(w, o)
    \/ \E h \in Holds : RequestRelease(w, h)
    \/ PlaceHold(w) \/ ReleaseHold(w)

PurgeStep(w) ==
    \/ \E a \in Attempts : DailyPurge(w, a) \/ ManualPurge(w, a)
    \/ DecidePurge(w) \/ Scrub(w)

FileStep(w) ==
    \/ \E m \in messages : CleanTask(w, m)
    \/ \E e \in Evidence : CleanItem(w, e)
    \/ CleanEnds(w) \/ Mint(w)

ExportStep(w) ==
    \/ \E j \in Exports, x \in Targets : RequestExport(w, j, x)
    \/ \E m \in messages : ExportTask(w, m)
    \/ ChooseArchive(w) \/ AcquireSnapshot(w) \/ Generate(w) \/ WriteArchive(w)

Next ==
    \/ DailyList \/ Preview \/ TokenExpires
    \/ \E a \in Attempts : Elapse(a)
    \/ \E j \in Exports : ExpireArchive(j)
    \/ \E w \in Workers :
           \/ Acquire(w) \/ SkipLocked(w) \/ LoseWorker(w) \/ TaskRaises(w)
           \/ HoldStep(w) \/ PurgeStep(w) \/ FileStep(w) \/ ExportStep(w)

Spec == Init /\ [][Next]_vars

-------------------------------------------------------------------------------
(* Properties *)

\* No step deletes the details of an attempt that a hold covers: a hold that is
\* placed while the purge is under way waits for it or stops it.
HeldUntouched == [][\A a \in details : a \notin details' => ~HasActiveHold(a)]_vars

\* A tombstone says what is so: no details, no evidence on the disk, the record
\* is closed and no later purge, hold or archive opens it again.
TombstoneTruthful ==
    \A a \in Attempts :
        /\ a \in tombstones <=> record[a] = "PURGED"
        /\ a \in tombstones => a \notin details /\ \A f \in Files : <<a, f>> \notin disk

\* Once its snapshot is taken, an archive that calls itself full holds the details,
\* unless its attempt was put off once more after its scrub, or it is of the whole
\* account: that one is empty.  An archive that calls itself partial is made of an
\* attempt whose details are gone.
ArchiveHonest ==
    \A j \in Exports : export[j].status \notin {"NONE", "REQUESTED"} =>
        /\ export[j].archive = "FULL" =>
               export[j].full \/ export[j].on \in reopened \/ export[j].on = Student
        /\ export[j].archive = "PARTIAL" => export[j].on \notin details

\* The order in which rows are locked leaves no two workers waiting for each other.
WaitsFor(w, v) == Waiting(w) /\ lock[NextRow(w)] = v
NoLockCycle == \A w, v \in Workers : ~(WaitsFor(w, v) /\ WaitsFor(v, w))

================================================================================
