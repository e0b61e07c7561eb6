------------------------------- MODULE Authoring -------------------------------
(***************************************************************************)
(* How an assessment comes to be: the question bank, the draft, its        *)
(* audience, and the publication that freezes it in a snapshot.            *)
(*                                                                         *)
(* A request is not one transaction.  The view loads a row, the service    *)
(* decides on that copy, and save() writes the whole copy back; only       *)
(* publish_assessment, assign_students and revoke_assignment lock the row. *)
(* So a request is a step that reads, sometimes one in which save()        *)
(* compares the copy with the row, and one that writes.  Writing the row   *)
(* of the assessment, or inserting one that refers to it, waits for that   *)
(* lock; deleting one that refers to it does not.                          *)
(*                                                                         *)
(* One assessment, and questions of one version each: both ways to ask for *)
(* a second version refuse a question whose version is not a draft.        *)
(***************************************************************************)
EXTENDS Naturals, Functions

CONSTANTS
    Questions, Students,
    Points,    \* what a question may be worth in the assessment
    Totals,    \* values of Assessment.total_points
    Admins,    \* requests of administrators that run at the same time
    Nobody

ASSUME PointsAssumption == Points \subseteq Nat \ {0} /\ Totals \subseteq Nat
ASSUME AdminAssumption == Nobody \notin Admins \cup Questions

VARIABLES
    version,    \* status of the version of each question
    sound,      \* versions whose content validate_for_publish accepts
    exam,       \* the row of the assessment
    links,      \* AssessmentQuestion: points of a question, 0 when it is not linked
    targets,    \* Assessment.target_students
    assigned,   \* AssessmentAssignment
    snapshot,   \* AssessmentSnapshot, with the list that had been added up when it was taken
    work,       \* the request that every administrator has under way
    lock,       \* who holds the lock of the row of the assessment
    eligible,   \* the audience that publish_assessment resolved
    summed      \* the list of questions it added up

bankVars == <<version, sound>>
examVars == <<exam, links, targets, assigned, snapshot>>
publishVars == <<lock, eligible, summed>>
vars == <<bankVars, examVars, work, publishVars>>

Statuses == {"NONE", "DRAFT", "PUBLISHED", "ARCHIVED", "DELETED"}
Ops == {"idle", "update", "archive", "configure", "add", "remove", "publish", "delete",
        "edit_version", "publish_version", "archive_version", "delete_question"}
Stages == {"read", "checked"}

\* The request op about a question or about nobody; new is the status, and total the points,
\* that the copy it loaded is going to be saved with.
Request(op, stage, on, new, total) ==
    [op |-> op, stage |-> stage, on |-> on, new |-> new, total |-> total]
Idle == Request("idle", "read", Nobody, "NONE", 0)
Frozen(list, total, added) == [taken |-> TRUE, list |-> list, total |-> total, summed |-> added]
NoList == [q \in Questions |-> 0]
NoSnapshot == [taken |-> FALSE, list |-> NoList, total |-> 0, summed |-> NoList]
Lists == [Questions -> Points \cup {0}]

TypeOK ==
    /\ version \in [Questions -> Statuses] /\ sound \subseteq Questions
    /\ exam \in [status : Statuses, total : Totals \cup {0}]
    /\ links \in Lists
    /\ targets \subseteq Students
    /\ assigned \in [Students -> {"NONE", "ASSIGNED", "REVOKED"}]
    /\ snapshot \in [taken : BOOLEAN, list : Lists, total : Totals \cup {0}, summed : Lists]
    /\ work \in [Admins -> [op : Ops, stage : Stages, on : Questions \cup {Nobody},
                            new : Statuses, total : Totals \cup {0}]]
    /\ lock \in Admins \cup {Nobody}
    /\ eligible \subseteq Students
    /\ summed \in Lists

Init ==
    /\ version = [q \in Questions |-> "NONE"] /\ sound = {}
    /\ exam = [status |-> "NONE", total |-> 0]
    /\ links = NoList
    /\ targets = {}
    /\ assigned = [s \in Students |-> "NONE"]
    /\ snapshot = NoSnapshot
    /\ work = [w \in Admins |-> Idle]
    /\ lock = Nobody
    /\ eligible = {} /\ summed = NoList

Exists == exam.status \notin {"NONE", "DELETED"}
Starts(w, request) == work[w] = Idle /\ work' = [work EXCEPT ![w] = request]
Ends(w) == work' = [work EXCEPT ![w] = Idle]
At(w, op, stage) == work[w].op = op /\ work[w].stage = stage
Checks(w) == work' = [work EXCEPT ![w] = Request(work[w].op, "checked", work[w].on,
                                                 work[w].new, work[w].total)]

-------------------------------------------------------------------------------
(* The question bank *)

\* validate_for_publish
Passes(q) == q \in sound

\* Questions are born as drafts; some is the part of S whose content passes.
Born(S, some) ==
    /\ version' = [q \in Questions |-> IF q \in S THEN "DRAFT" ELSE version[q]]
    /\ sound' = sound \cup some
    /\ UNCHANGED <<examVars, work, publishVars>>
Unborn == {q \in Questions : version[q] = "NONE"}

CreateQuestion(q) == q \in Unborn /\ \E some \in SUBSET {q} : Born({q}, some)

\* All the questions of a file, or none of them.
ImportCanonical(S) == S \subseteq Unborn /\ \E some \in SUBSET S : Born(S, some)

\* Row after row, each in a transaction of its own: some are skipped.
CommitRows(S) == \E T \in SUBSET S : T \subseteq Unborn /\ \E some \in SUBSET T : Born(T, some)

DuplicateQuestion(q, from) ==
    /\ version[from] \notin {"NONE", "DELETED"} /\ q \in Unborn
    /\ Born({q}, IF Passes(from) THEN {q} ELSE {})

\* get_question_usage
Used(q) == links[q] # 0 \/ snapshot.list[q] # 0

ReadQuestion(w, op, q) ==
    /\ CASE op = "edit_version" -> version[q] = "DRAFT"
         [] op = "publish_version" -> version[q] = "DRAFT" /\ Passes(q)
         [] op = "archive_version" -> version[q] = "PUBLISHED"
         [] op = "delete_question" -> version[q] \notin {"NONE", "DELETED"} /\ ~Used(q)
    /\ Starts(w, Request(op, "read", q, "NONE", 0))
    /\ UNCHANGED <<bankVars, examVars, publishVars>>

\* QuestionVersion.save compares what it is going to write with the row as it is now.
NewStatus(op) ==
    CASE op = "edit_version" -> "DRAFT"
      [] op = "publish_version" -> "PUBLISHED"
      [] op = "archive_version" -> "ARCHIVED"
MaySaveVersion(old, new) ==
    old \notin {"ARCHIVED", "DELETED"} /\ (old = "PUBLISHED" => new = "ARCHIVED")

\* publish_version keeps the question locked from here on.
CheckVersion(w) ==
    /\ work[w].op \in {"edit_version", "publish_version", "archive_version"}
    /\ work[w].stage = "read"
    /\ MaySaveVersion(version[work[w].on], NewStatus(work[w].op))
    /\ work[w].op = "publish_version" =>
           ~\E v \in Admins : At(v, "publish_version", "checked") /\ work[v].on = work[w].on
    /\ Checks(w)
    /\ UNCHANGED <<bankVars, examVars, publishVars>>

SavesStatus(w, op, q) ==
    /\ At(w, op, "checked") /\ work[w].on = q
    /\ version[q] # "DELETED"
    /\ version' = [version EXCEPT ![q] = NewStatus(op)]
    /\ Ends(w)
    /\ UNCHANGED <<examVars, publishVars>>

\* An edit writes every column of its copy, the status too; the other two write only the status.
UpdateDraftVersion(w) ==
    \E q \in Questions :
        /\ SavesStatus(w, "edit_version", q)
        /\ sound' \in {sound \cup {q}, sound \ {q}}
PublishVersion(w) == \E q \in Questions : SavesStatus(w, "publish_version", q) /\ sound' = sound
ArchiveVersion(w) == \E q \in Questions : SavesStatus(w, "archive_version", q) /\ sound' = sound
SaveVersion(w) == UpdateDraftVersion(w) \/ PublishVersion(w) \/ ArchiveVersion(w)

\* Archives what is published among the versions of a question.
ArchiveQuestion(q) ==
    /\ version[q] = "PUBLISHED"
    /\ version' = [version EXCEPT ![q] = "ARCHIVED"]
    /\ UNCHANGED <<sound, examVars, work, publishVars>>

\* A question that is linked, or in a snapshot, is protected by its foreign keys.
DeleteQuestion(w) ==
    LET q == work[w].on IN
    /\ At(w, "delete_question", "read")
    /\ ~Used(q)
    /\ version' = [version EXCEPT ![q] = "DELETED"]
    /\ sound' = sound \ {q}
    /\ Ends(w)
    /\ UNCHANGED <<examVars, publishVars>>

-------------------------------------------------------------------------------
(* The draft *)

CreateAssessment(n) ==
    /\ exam.status = "NONE"
    /\ exam' = [status |-> "DRAFT", total |-> n]
    /\ UNCHANGED <<bankVars, links, targets, assigned, snapshot, work, publishVars>>

\* A PATCH loads the row and puts the new values in the copy ...
ReadForUpdate(w) ==
    /\ exam.status \in {"DRAFT", "PUBLISHED"}
    /\ \E n \in Totals : Starts(w, Request("update", "read", Nobody, exam.status, n))
    /\ UNCHANGED <<bankVars, examVars, publishVars>>

\* ... and archive_assessment the status.
ReadForArchive(w) ==
    /\ exam.status \in {"DRAFT", "PUBLISHED"}
    /\ Starts(w, Request("archive", "read", Nobody, "ARCHIVED", exam.total))
    /\ UNCHANGED <<bankVars, examVars, publishVars>>

\* Assessment.save
MaySave(new, n) ==
    /\ Exists /\ exam.status # "ARCHIVED"
    /\ exam.status = "PUBLISHED" => new # "DRAFT" /\ n = exam.total

CheckAssessment(w) ==
    /\ At(w, "update", "read") \/ At(w, "archive", "read")
    /\ MaySave(work[w].new, work[w].total)
    /\ Checks(w)
    /\ UNCHANGED <<bankVars, examVars, publishVars>>

\* The whole copy is written, or inserted where the row has gone.
SavesCopy(w, op) ==
    /\ At(w, op, "checked")
    /\ lock = Nobody
    /\ exam' = [status |-> work[w].new, total |-> work[w].total]
    /\ Ends(w)
    /\ UNCHANGED <<bankVars, links, assigned, snapshot, publishVars>>

\* The audience of a draft may come with an update.
UpdateAssessment(w) ==
    /\ SavesCopy(w, "update")
    /\ IF work[w].new = "DRAFT" THEN targets' \in SUBSET Students ELSE targets' = targets
ArchiveAssessment(w) == SavesCopy(w, "archive") /\ targets' = targets
SaveAssessment(w) == UpdateAssessment(w) \/ ArchiveAssessment(w)

\* The other handlers ask for a draft once, of the copy they loaded.
ReadDraft(w, op, q) ==
    /\ exam.status = "DRAFT"
    /\ Starts(w, Request(op, "read", q, "NONE", 0))
    /\ UNCHANGED <<bankVars, examVars, publishVars>>
ReadForAudience(w) == ReadDraft(w, "configure", Nobody)
ReadForDelete(w) == ReadDraft(w, "delete", Nobody)
ReadForRemove(w) == \E q \in Questions : ReadDraft(w, "remove", q)
ReadForAdd(w) == \E q \in Questions : version[q] = "PUBLISHED" /\ ReadDraft(w, "add", q)

\* Mutant: publish_assessment does not lock the row.
MayRefer_Always == TRUE

\* A row that refers to the assessment is inserted when nobody has the assessment locked.
MayRefer == Exists /\ lock = Nobody

ConfigureAudience(w) ==
    /\ At(w, "configure", "read")
    /\ targets' \in SUBSET Students
    /\ targets' \subseteq targets \/ MayRefer
    /\ Ends(w)
    /\ UNCHANGED <<bankVars, exam, links, assigned, snapshot, publishVars>>

AddQuestion(w) ==
    LET q == work[w].on IN
    /\ At(w, "add", "read")
    /\ MayRefer
    /\ links[q] = 0 /\ version[q] # "DELETED"
    /\ \E p \in Points : links' = [links EXCEPT ![q] = p]
    /\ Ends(w)
    /\ UNCHANGED <<bankVars, exam, targets, assigned, snapshot, publishVars>>

RemoveQuestion(w) ==
    /\ At(w, "remove", "read")
    /\ links[work[w].on] # 0
    /\ links' = [links EXCEPT ![work[w].on] = 0]
    /\ Ends(w)
    /\ UNCHANGED <<bankVars, exam, targets, assigned, snapshot, publishVars>>

\* Mutant: the snapshot goes with its assessment.
Deletable_Cascade == lock = Nobody /\ Exists

\* AssessmentSnapshot refers to the assessment with on_delete=PROTECT.
Deletable == lock = Nobody /\ Exists /\ ~snapshot.taken

DeleteAssessment(w) ==
    /\ At(w, "delete", "read")
    /\ Deletable
    /\ exam' = [status |-> "DELETED", total |-> exam.total]
    /\ links' = NoList /\ targets' = {} /\ assigned' = [s \in Students |-> "NONE"]
    /\ snapshot' = NoSnapshot
    /\ Ends(w)
    /\ UNCHANGED <<bankVars, publishVars>>

-------------------------------------------------------------------------------
(* Access *)

Admitted(a) == {s \in Students : a[s] = "ASSIGNED"}

\* Mutant: a row that was revoked stays as it is.
Admit_NewRowsOnly(S) ==
    [s \in Students |-> IF s \in S /\ assigned[s] = "NONE" THEN "ASSIGNED" ELSE assigned[s]]

Admit(S) == [s \in Students |-> IF s \in S THEN "ASSIGNED" ELSE assigned[s]]

\* One transaction under the lock of the assessment.
AssignStudents(S) ==
    /\ Exists /\ lock = Nobody
    /\ assigned' = Admit(S)
    /\ targets' = IF exam.status = "DRAFT" THEN targets \cup S ELSE targets
    /\ UNCHANGED <<bankVars, exam, links, snapshot, work, publishVars>>

RevokeAssignment(s) ==
    /\ Exists /\ lock = Nobody
    /\ assigned[s] # "NONE"
    /\ assigned' = [assigned EXCEPT ![s] = "REVOKED"]
    /\ targets' = IF exam.status = "DRAFT" THEN targets \ {s} ELSE targets
    /\ UNCHANGED <<bankVars, exam, links, snapshot, work, publishVars>>

-------------------------------------------------------------------------------
(* Publication *)

\* resolve_audience
Audience == targets \cup Admitted(assigned)

\* publish_assessment locks the row, adds up the questions and resolves the audience ...
StartPublish(w) ==
    /\ lock = Nobody
    /\ exam.status = "DRAFT"
    /\ links # NoList /\ SumFunction(links) = exam.total
    /\ Audience # {}
    /\ Starts(w, Request("publish", "read", Nobody, "NONE", 0))
    /\ lock' = w
    /\ eligible' = Audience /\ summed' = links
    /\ UNCHANGED <<bankVars, examVars>>

\* ... and later reads the questions again for the snapshot.  A snapshot that exists is returned.
CreateSnapshot ==
    IF snapshot.taken THEN snapshot' = snapshot
    ELSE links # NoList /\ snapshot' = Frozen(links, exam.total, summed)

Publish(w) ==
    /\ At(w, "publish", "read")
    /\ CreateSnapshot
    /\ assigned' = Admit(eligible)
    /\ exam' = [status |-> "PUBLISHED", total |-> exam.total]
    /\ lock' = Nobody /\ eligible' = {} /\ summed' = NoList
    /\ Ends(w)
    /\ UNCHANGED <<bankVars, links, targets>>

\* A request that is refused, or fails, leaves nothing behind.
Refuse(w) ==
    /\ work[w].op # "idle"
    /\ Ends(w)
    /\ IF lock = w THEN lock' = Nobody /\ eligible' = {} /\ summed' = NoList
                   ELSE UNCHANGED publishVars
    /\ UNCHANGED <<bankVars, examVars>>

Next ==
    \/ \E q \in Questions : CreateQuestion(q) \/ ArchiveQuestion(q)
    \/ \E S \in SUBSET Questions \ {{}} : ImportCanonical(S) \/ CommitRows(S)
    \/ \E q, from \in Questions : DuplicateQuestion(q, from)
    \/ \E n \in Totals : CreateAssessment(n)
    \/ \E S \in SUBSET Students \ {{}} : AssignStudents(S)
    \/ \E s \in Students : RevokeAssignment(s)
    \/ \E w \in Admins :
          \/ \E q \in Questions, op \in {"edit_version", "publish_version", "archive_version",
                                         "delete_question"} : ReadQuestion(w, op, q)
          \/ CheckVersion(w) \/ SaveVersion(w) \/ DeleteQuestion(w)
          \/ ReadForUpdate(w) \/ ReadForArchive(w) \/ CheckAssessment(w) \/ SaveAssessment(w)
          \/ ReadForAudience(w) \/ ReadForAdd(w) \/ ReadForRemove(w) \/ ReadForDelete(w)
          \/ ConfigureAudience(w) \/ AddQuestion(w) \/ RemoveQuestion(w) \/ DeleteAssessment(w)
          \/ StartPublish(w) \/ Publish(w) \/ Refuse(w)

Spec == Init /\ [][Next]_vars

-------------------------------------------------------------------------------
(* Properties *)

\* What students are examined on never comes to more than the total it is marked against: the
\* snapshot holds questions of the list whose points publish_assessment added up to that total,
\* with those points, although it reads them a second time and a removal takes no lock.
SnapshotWithinTotal ==
    snapshot.taken =>
        /\ snapshot.list # NoList
        /\ SumFunction(snapshot.summed) = snapshot.total
        /\ \A q \in Questions : snapshot.list[q] \in {0, snapshot.summed[q]}

\* When publish_assessment commits, every student the draft is meant for may take the assessment,
\* one whose access had been revoked before too, whatever was done to the audience meanwhile.
AudienceAdmitted ==
    [][\A w \in Admins :
          lock = w /\ exam' # exam => targets \subseteq Admitted(assigned')]_vars

\* An assessment that students can open has a snapshot, although an update or an archive may write
\* an old copy of the row back after others have published, archived or deleted it.
PublishedHasSnapshot == exam.status = "PUBLISHED" => snapshot.taken

================================================================================
