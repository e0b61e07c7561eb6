-------------------------------- MODULE Accounts --------------------------------
(***************************************************************************)
(* The accounts of students and administrators, the sections students are  *)
(* sorted into, and the import of a file of students.  A request reads,    *)
(* checks and then writes in steps that other requests come between, and   *)
(* the process that serves it may die after any of them.                   *)
(*                                                                         *)
(* A roll number stands for its normal form; a file may write it with      *)
(* punctuation that the normal form drops.  The address the system makes   *)
(* of a roll number is that roll number here, so an address is one or the  *)
(* other.  The code of a deleted section is not used again.                *)
(***************************************************************************)
EXTENDS Integers, Sequences, FiniteSets

CONSTANTS
    Calls,    \* requests of administrators, and the pages that import a file
    Rolls, Sections,
    Addresses,   \* what is typed as an address in the forms
    Files,       \* what an administrator may import
    NoSection, Blank, Void,  \* Void: a roll number with nothing but punctuation
    Old,         \* numbers the administrator from before the sequence may have
    MaxAccounts  \* bound on the accounts made

ASSUME RowsAssumption ==
    \A file \in Files :
        /\ file.columns \subseteq {"roll", "email", "section"}
        /\ file.lines \in Seq([roll : Rolls \cup {Blank, Void}, plain : BOOLEAN,
                              email : Rolls \cup Addresses \cup {Blank},
                              section : Sections \cup {Blank}])

VARIABLES
    sections,  \* what became of each section: "none", "active", "inactive" or "deleted"
    targeted,  \* sections an assessment is for
    students,  \* [id, roll, email, section]
    admins,    \* [id, number, email, active]
    sequence,  \* the next number of an administrator
    entered,      \* accounts made so far
    records,   \* accounts with rows the database does not let go (attempts, interventions)
    held,      \* students under a legal hold, administrators on duty
    audit,     \* of makings and deletions: <<"created", account, number>>, <<"deleted", account>>
    call,   \* requests being served, and what they read
    taken      \* history: what others took of the roll numbers and addresses, since a preview
accountsVars == <<sections, targeted, students, admins, sequence, entered, records, held, audit, call, taken>>

Primary == 1   \* the primary administrator's account
Earlier == 2   \* that of an administrator from before the sequence
Beginning == {Primary, Earlier}  \* these are left as they are: a bound
NoNumber == 0
NoCall == [step |-> "free"]
Put(r, q) == call' = [call EXCEPT ![r] = q]
At(r, step) == call[r].step = step

Ids(accounts) == {x.id : x \in accounts}
Existing == Ids(students) \cup Ids(admins)
Emails == {x.email : x \in students \cup admins}
UsedRolls == {x.roll : x \in students}
Exists(s) == sections[s] \in {"active", "inactive"}

Importing == {"previewed", "importing", "imported"}
Named(r) == {call[r].rows[i].roll : i \in DOMAIN call[r].rows}
            \cup {call[r].rows[i].email : i \in DOMAIN call[r].rows}
\* History: these are taken, for the pages among those given that show a row which names them.
Take(pages, ids) ==
    taken' = [x \in Calls |-> IF x \in pages /\ call[x].step \in Importing
                              THEN taken[x] \cup (ids \cap Named(x)) ELSE taken[x]]

AccountsInit ==
    /\ sections = [s \in Sections |-> "none"]
    /\ targeted = {} /\ students = {} /\ records = {} /\ held = {} /\ audit = {}
    /\ \E n \in Old :
          admins = {[id |-> Primary, number |-> NoNumber, email |-> "primary", active |-> TRUE],
                    [id |-> Earlier, number |-> n, email |-> "earlier", active |-> TRUE]}
    /\ sequence = 3
    /\ entered = Earlier
    /\ call = [r \in Calls |-> NoCall]
    /\ taken = [r \in Calls |-> {}]

-----------------------------------------------------------------------------
(* Sections. *)

CreateSection(s, state) ==
    /\ sections[s] = "none" /\ state \in {"active", "inactive"}
    /\ sections' = [sections EXCEPT ![s] = state]
    /\ UNCHANGED <<targeted, students, admins, sequence, entered, records, held, audit, call, taken>>

SetSection(s) ==
    /\ Exists(s)
    /\ sections' = [sections EXCEPT ![s] = IF @ = "active" THEN "inactive" ELSE "active"]
    /\ UNCHANGED <<targeted, students, admins, sequence, entered, records, held, audit, call, taken>>

\* An assessment names the section, of which nothing here is locked.
Target(s) ==
    /\ sections[s] = "active"
    /\ targeted' = targeted \cup {s}
    /\ UNCHANGED <<sections, students, admins, sequence, entered, records, held, audit, call, taken>>

CheckSection(r, s) ==
    /\ At(r, "free") /\ Exists(s)
    /\ s \notin targeted /\ \A x \in students : x.section # s
    /\ Put(r, [step |-> "empty", section |-> s])
    /\ UNCHANGED <<sections, targeted, students, admins, sequence, entered, records, held, audit, taken>>

\* Students who joined after the check are left without a section, assessments without theirs.
DeleteSection(r) ==
    /\ At(r, "empty")
    /\ LET s == call[r].section
       IN /\ sections' = [sections EXCEPT ![s] = "deleted"]
          /\ targeted' = targeted \ {s}
          /\ students' = {IF x.section = s THEN [x EXCEPT !.section = NoSection] ELSE x : x \in students}
    /\ Put(r, NoCall)
    /\ UNCHANGED <<admins, sequence, entered, records, held, audit, taken>>

-----------------------------------------------------------------------------
(* Students. *)

Open(s) == s \in {NoSection} \cup {t \in Sections : sections[t] = "active"}
Present(s) == s \in {NoSection} \cup {t \in Sections : Exists(t)}

\* What the constraints of the database let in.
Admits(roll, email, s) == roll \notin UsedRolls /\ email \notin Emails /\ Present(s)
Enter(roll, email, s) ==
    /\ entered' = entered + 1
    /\ students' = students \cup {[id |-> entered + 1, roll |-> roll, email |-> email, section |-> s]}
    /\ audit' = audit \cup {<<"created", entered + 1, NoNumber>>}

\* A new student; the section is read, and must be active, before the account is stored.
Register(r, roll, email, s) ==
    /\ At(r, "free") /\ entered < MaxAccounts
    /\ Open(s) /\ Admits(roll, email, s)
    /\ Put(r, [step |-> "register", roll |-> roll, email |-> email, section |-> s])
    /\ UNCHANGED <<sections, targeted, students, admins, sequence, entered, records, held, audit, taken>>

CreateStudent(r) ==
    /\ At(r, "register") /\ entered < MaxAccounts
    /\ LET q == call[r]
       IN IF Admits(q.roll, q.email, q.section)
          THEN Enter(q.roll, q.email, q.section) /\ Take(Calls \ {r}, {q.roll, q.email})
          ELSE UNCHANGED <<students, entered, audit, taken>>
    /\ Put(r, NoCall)
    /\ UNCHANGED <<sections, targeted, admins, sequence, records, held>>

UpdateEmail(x, email) ==
    /\ x \in students /\ email \notin Emails
    /\ students' = (students \ {x}) \cup {[x EXCEPT !.email = email]}
    /\ Take(Calls, {email})
    /\ UNCHANGED <<sections, targeted, admins, sequence, entered, records, held, audit, call>>

\* Another section for a student, read before the student is stored.
Reassign(r, x, s) ==
    /\ At(r, "free") /\ x \in students /\ s # x.section /\ Open(s)
    /\ Put(r, [step |-> "reassign", id |-> x.id, section |-> s])
    /\ UNCHANGED <<sections, targeted, students, admins, sequence, entered, records, held, audit, taken>>

ChangeSection(r) ==
    /\ At(r, "reassign")
    /\ LET q == call[r]
       IN students' = {IF x.id = q.id /\ Present(q.section) THEN [x EXCEPT !.section = q.section]
                       ELSE x : x \in students}
    /\ Put(r, NoCall)
    /\ UNCHANGED <<sections, targeted, admins, sequence, entered, records, held, audit, taken>>

-----------------------------------------------------------------------------
(* Administrators. *)

\* Mutant: the number that was given is not stored.
GivesCurrent(n) == UNCHANGED sequence
Gives(n) == sequence' = n + 1

\* The sequence is locked: its first number from 2 on that no administrator has.
NextNumber == CHOOSE n \in sequence..(sequence + Cardinality(admins)) :
    /\ n \notin {a.number : a \in admins}
    /\ \A m \in sequence..(n - 1) : m \in {a.number : a \in admins}

CreateAdmin(email, active) ==
    /\ entered < MaxAccounts /\ email \notin Emails
    /\ Gives(NextNumber)
    /\ entered' = entered + 1
    /\ admins' = admins \cup {[id |-> entered + 1, number |-> NextNumber, email |-> email, active |-> active]}
    /\ audit' = audit \cup {<<"created", entered + 1, NextNumber>>}
    /\ Take(Calls, {email})
    /\ UNCHANGED <<sections, targeted, students, records, held, call>>

\* Never the primary administrator, nor the last that is active.
SetAdminStatus(a) ==
    /\ a \in admins /\ a.id # Primary
    /\ a.active => \E b \in admins \ {a} : b.active
    /\ admins' = (admins \ {a}) \cup {[a EXCEPT !.active = ~@]}
    /\ UNCHANGED <<sections, targeted, students, sequence, entered, records, held, audit, call, taken>>

-----------------------------------------------------------------------------
(* What other parts of the system do with an account. *)

\* An attempt begins, an intervention is recorded.
Record(i) ==
    /\ i \in Existing /\ \A a \in admins : a.id = i => a.active
    /\ records' = records \cup {i}
    /\ UNCHANGED <<sections, targeted, students, admins, sequence, entered, held, audit, call, taken>>

\* A student is put under a hold, an administrator goes on duty; and back.
Hold(i) ==
    /\ i \in Existing \ held /\ \A a \in admins : a.id = i => a.active
    /\ held' = held \cup {i}
    /\ UNCHANGED <<sections, targeted, students, admins, sequence, entered, records, audit, call, taken>>
Release(i) ==
    /\ i \in held
    /\ held' = held \ {i}
    /\ UNCHANGED <<sections, targeted, students, admins, sequence, entered, records, audit, call, taken>>

-----------------------------------------------------------------------------
(* Deletion, of one account or of several in turn: checked, then audited, then done. *)

StudentDeletable(i) == i \notin held \cup records
AdminDeletable(i) == i # Primary /\ i \notin held
Deletable(i) == IF i \in Ids(students) THEN StudentDeletable(i) ELSE AdminDeletable(i)

\* Accounts that a request is still to delete.
ToDelete(left) == IF left = <<>> THEN NoCall ELSE [step |-> "several", left |-> left]

CheckDelete(r, i) ==
    /\ At(r, "free") /\ i \in Existing /\ Deletable(i)
    /\ Put(r, [step |-> "checked", id |-> i, left |-> <<>>])
    /\ UNCHANGED <<sections, targeted, students, admins, sequence, entered, records, held, audit, taken>>

\* Bound: two accounts at a time, in the order of their making.
DeleteStudents(r, i, j) ==
    /\ At(r, "free") /\ i < j /\ {i, j} \subseteq Ids(students)
    /\ Put(r, ToDelete(<<i, j>>))
    /\ UNCHANGED <<sections, targeted, students, admins, sequence, entered, records, held, audit, taken>>
DeleteAdmins(r, i, j) ==
    /\ At(r, "free") /\ i < j /\ {i, j} \subseteq Ids(admins)
    /\ Put(r, ToDelete(<<i, j>>))
    /\ UNCHANGED <<sections, targeted, students, admins, sequence, entered, records, held, audit, taken>>

\* An account that is gone, or is to be kept, is passed over.
TryNext(r) ==
    /\ At(r, "several")
    /\ LET i == Head(call[r].left)
           left == Tail(call[r].left)
       IN Put(r, IF i \in Existing /\ Deletable(i)
                   THEN [step |-> "checked", id |-> i, left |-> left] ELSE ToDelete(left))
    /\ UNCHANGED <<sections, targeted, students, admins, sequence, entered, records, held, audit, taken>>

LogDelete(r) ==
    /\ At(r, "checked")
    /\ audit' = audit \cup {<<"deleted", call[r].id>>}
    /\ Put(r, [step |-> "logged", id |-> call[r].id, left |-> call[r].left])
    /\ UNCHANGED <<sections, targeted, students, admins, sequence, entered, records, held, taken>>

\* What protects the account undoes its deletion; a hold goes with the account.
Delete(r) ==
    /\ At(r, "logged")
    /\ LET i == call[r].id
       IN IF i \in records
          THEN UNCHANGED <<students, admins, held>>
          ELSE /\ students' = {x \in students : x.id # i}
               /\ admins' = {a \in admins : a.id # i}
               /\ held' = held \ {i}
    /\ Put(r, ToDelete(call[r].left))
    /\ UNCHANGED <<sections, targeted, sequence, entered, records, audit, taken>>

-----------------------------------------------------------------------------
(* The import of a file: every row judged, the valid ones sent back and created. *)

\* A file without rows, or without the column of roll numbers, is refused; a line that is
\* blank throughout is skipped, and what has no column is blank.
Readable(file) == "roll" \in file.columns
Cells(file, line) ==
    [line EXCEPT !.email = IF "email" \in file.columns THEN @ ELSE Blank,
                 !.section = IF "section" \in file.columns THEN @ ELSE Blank]
ParseFile(file) ==
    LET blank(l) == l.roll = Blank /\ l.email = Blank /\ l.section = Blank
        full == {i \in DOMAIN file.lines : ~blank(file.lines[i])}
    IN [rows |-> [i \in full |-> Cells(file, file.lines[i])],
        sectioned |-> "section" \in file.columns]

Address(row) == IF row.email = Blank THEN row.roll ELSE row.email

\* What is looked up of the file: the rolls as they are written, the addresses, and those
\* made of the rolls as they are written.
LookedUpRolls(rows) == {rows[i].roll : i \in {j \in DOMAIN rows : rows[j].plain}}
LookedUpEmails(rows) == {Address(rows[i]) : i \in {j \in DOMAIN rows : rows[j].plain \/ rows[j].email # Blank}}

\* Mutant: a row is compared with the accounts alone.
DuplicateOfAccount(rows, i) ==
    \/ rows[i].roll \in UsedRolls \cap LookedUpRolls(rows)
    \/ Address(rows[i]) \in Emails \cap LookedUpEmails(rows)

\* An address that is made of a roll number is not compared with the other rows.
Duplicate(rows, i) ==
    \/ \E j \in DOMAIN rows :
          /\ j < i
          /\ \/ rows[j].roll = rows[i].roll
             \/ rows[j].email = rows[i].email /\ rows[i].email # Blank
    \/ rows[i].roll \in UsedRolls \cap LookedUpRolls(rows)
    \/ Address(rows[i]) \in Emails \cap LookedUpEmails(rows)

Placed(file, row) == file.sectioned => row.section # Blank /\ sections[row.section] = "active"

Valid(file, i) ==
    LET row == file.rows[i]
    IN row.roll # Blank /\ ~Duplicate(file.rows, i) /\ Placed(file, row)

\* What the page keeps of the valid rows: the address, but neither name nor section.
Carried(row) == [roll |-> row.roll, plain |-> row.plain, email |-> Address(row),
                 generated |-> row.email = Blank]
ValidRows(file) == [i \in {j \in DOMAIN file.rows : Valid(file, j)} |-> Carried(file.rows[i])]

Show(rows) == [step |-> "previewed", rows |-> rows]

\* A roll number that has no normal form fails the whole preview.
Preview(r, file) ==
    /\ At(r, "free")
    /\ Readable(file)
    /\ LET parsed == ParseFile(file)
       IN /\ DOMAIN parsed.rows # {} /\ \A i \in DOMAIN parsed.rows : parsed.rows[i].roll # Void
          /\ Put(r, Show(ValidRows(parsed)))
    /\ taken' = [taken EXCEPT ![r] = {}]
    /\ UNCHANGED <<sections, targeted, students, admins, sequence, entered, records, held, audit>>

\* Of the rows that are sent back: those left, those that failed, and what the others took.
Import(rows, left, failed, mine) ==
    [step |-> IF left = {} THEN "imported" ELSE "importing",
     rows |-> rows, left |-> left, failed |-> failed, mine |-> mine]

Confirm(r) ==
    /\ At(r, "previewed") /\ DOMAIN call[r].rows # {}
    /\ Put(r, Import(call[r].rows, DOMAIN call[r].rows, {}, {}))
    /\ UNCHANGED <<sections, targeted, students, admins, sequence, entered, records, held, audit, taken>>

\* The first row that is left is created, or reported as failed, on its own.
ImportRow(r, i) ==
    /\ At(r, "importing") /\ entered < MaxAccounts
    /\ i \in call[r].left /\ \A j \in call[r].left : i <= j
    /\ LET q == call[r]
           row == q.rows[i]
       IN IF Admits(row.roll, row.email, NoSection)
          THEN /\ Enter(row.roll, row.email, NoSection)
               /\ Take(Calls \ {r}, {row.roll, row.email})
               /\ Put(r, Import(q.rows, q.left \ {i}, q.failed, q.mine \cup {row.roll, row.email}))
          ELSE /\ Put(r, Import(q.rows, q.left \ {i}, q.failed \cup {i}, q.mine))
               /\ UNCHANGED <<students, entered, audit, taken>>
    /\ UNCHANGED <<sections, targeted, admins, sequence, records, held>>

\* The answer is lost, or the process dies before the last row: the page still shows the
\* preview, and the rows that were created are taken.
LoseImport(r) ==
    /\ call[r].step \in {"importing", "imported"}
    /\ Put(r, Show(call[r].rows))
    /\ taken' = [taken EXCEPT ![r] = @ \cup call[r].mine]
    /\ UNCHANGED <<sections, targeted, students, admins, sequence, entered, records, held, audit>>

Close(r) ==
    /\ call[r].step \in {"previewed", "imported"}
    /\ Put(r, NoCall)
    /\ taken' = [taken EXCEPT ![r] = {}]
    /\ UNCHANGED <<sections, targeted, students, admins, sequence, entered, records, held, audit>>

\* Any other request may be cut off between two of its steps.
Crash(r) ==
    /\ call[r].step \in {"empty", "register", "reassign", "several", "checked", "logged"}
    /\ Put(r, NoCall)
    /\ UNCHANGED <<sections, targeted, students, admins, sequence, entered, records, held, audit, taken>>

AccountsNext ==
    \/ \E s \in Sections :
          \/ \E state \in {"active", "inactive"} : CreateSection(s, state)
          \/ SetSection(s) \/ Target(s)
          \/ \E r \in Calls : CheckSection(r, s)
    \/ \E r \in Calls :
          \/ DeleteSection(r)
          \/ \E roll \in Rolls, email \in Addresses, s \in Sections \cup {NoSection} :
                Register(r, roll, email, s)
          \/ CreateStudent(r)
          \/ \E x \in students, s \in Sections \cup {NoSection} : Reassign(r, x, s)
          \/ ChangeSection(r)
          \/ \E i, j \in Existing \ Beginning : DeleteStudents(r, i, j) \/ DeleteAdmins(r, i, j)
          \/ TryNext(r) \/ LogDelete(r) \/ Delete(r)
          \/ \E file \in Files : Preview(r, file)
          \/ Confirm(r) \/ LoseImport(r) \/ Close(r) \/ Crash(r)
          \/ At(r, "importing") /\ \E i \in call[r].left : ImportRow(r, i)
    \/ \E x \in students, email \in Addresses : UpdateEmail(x, email)
    \/ \E email \in Addresses, active \in BOOLEAN : CreateAdmin(email, active)
    \/ \E a \in {b \in admins : b.id \notin Beginning} : SetAdminStatus(a)
    \/ \E i \in Existing \ Beginning : Record(i) \/ Hold(i) \/ Release(i) \/ \E r \in Calls : CheckDelete(r, i)
AccountsSpec == AccountsInit /\ [][AccountsNext]_accountsVars

-----------------------------------------------------------------------------
(* Properties *)

MadeElsewhere(q, i) == \E j \in DOMAIN q.rows \ {i} :
    q.rows[j].email = q.rows[i].email /\ (q.rows[j].generated \/ q.rows[i].generated)

\* A row that the preview calls valid is created when it is confirmed, unless another
\* administrator, or an earlier confirmation whose answer was lost, took its roll number or
\* its address in the meantime; the code makes two exceptions: a roll number the file
\* writes with punctuation, and an address made of the roll number of one row that
\* another row gives as its own.
ImportExplained == \A r \in Calls : call[r].step \in {"importing", "imported"} =>
    \A i \in call[r].failed :
        LET row == call[r].rows[i]
        IN ~row.plain \/ MadeElsewhere(call[r], i) \/ {row.roll, row.email} \cap taken[r] # {}

\* Whatever requests overlap, are cut off or are refused by the database, an account that
\* is gone has its entry in the audit trail and nothing that must be kept refers to it,
\* although attempts are checked for long before the deletion; and no two administrators
\* the trail tells of were ever given the same number.
AuditTrailSound ==
    /\ \A i \in 1..entered \ Existing : <<"deleted", i>> \in audit /\ i \notin records
    /\ \A i \in (Earlier + 1)..entered : \E n \in NoNumber..sequence : <<"created", i, n>> \in audit
    /\ \A e, f \in {entry \in audit : entry[1] = "created"} :
          e[3] = f[3] /\ e[3] # NoNumber => e[2] = f[2]

=============================================================================
