------------------------------- MODULE Import -------------------------------
(***************************************************************************)
(* `planer import` beside everything else: a process of the CLI that reads *)
(* the participants of the course, from three endpoints one after the      *)
(* other or from an exported file, and commits first the students and then *)
(* the groups.  Nothing is ever deleted.  Meanwhile lecturers work in the  *)
(* course, results are transferred, and tutors submit marks of students    *)
(* whose rows change.                                                      *)
(*                                                                         *)
(* `import` has pc; excel, the source; people, the participants as far as  *)
(* they have been read (group NoTeam for the empty one); and the history   *)
(* steady: the course has not changed since the import began.              *)
(***************************************************************************)
EXTENDS ResultSync

CONSTANTS
    Solo,           \* the group a student without one forms: the id of the user
    Points          \* what a homework result can be

VARIABLE import

importVars == <<syncVars, import>>

NoImport == [pc |-> "idle", excel |-> FALSE, people |-> {}, steady |-> TRUE]

ASSUME ImportAssumption == Solo \in [UserIds -> GroupIds] /\ Points \subseteq Nat

ImportInit == SyncInit /\ import = NoImport

Importing(pc) == import.pc = pc

-----------------------------------------------------------------------------
(* Models and repository.                                                  *)

\* Mutant: the stored group of a solo student stays empty.
resolve_group_id_mutant(p) == p.group

resolve_group_id(p) == IF p.group = NoTeam THEN Solo[p.user_id] ELSE p.group

\* Mutant: the group of the participant as it is, an empty one included.
build_groups_mutant(people) == {p.group : p \in people} \ {NoTeam}

build_groups(people) == {resolve_group_id(p) : p \in people}

\* A participant without the homework result is stored with 0 points.
upsert_students(d, people) ==
    [d EXCEPT !.students =
        {s \in @ : s.user_id \notin {p.user_id : p \in people}} \cup
        {[user_id |-> p.user_id, group |-> resolve_group_id(p), prev |-> p.prev,
          assessed |-> p.assessed,
          points |-> IF p.results = {} THEN 0 ELSE CHOOSE x \in p.results : TRUE] : p \in people}]

upsert_groups(d, groups) == [d EXCEPT !.groups = @ \cup groups]

-----------------------------------------------------------------------------

\* The admission status: identity, admission and results of everybody.
StartImport ==
    /\ Importing("idle")
    /\ import' = [NoImport EXCEPT !.pc = "groups",
          !.people = {[user_id |-> u, group |-> NoTeam, prev |-> u \in course.prev,
                       assessed |-> FALSE, results |-> course.results[u]] : u \in UserIds}]
    /\ UNCHANGED syncVars

\* The file holds what the course was when it was exported, and nothing about
\* assessments; how old it is shows in how long the import takes.
StartExcel ==
    /\ Importing("idle")
    /\ import' = [NoImport EXCEPT !.pc = "students", !.excel = TRUE,
          !.people = {[user_id |-> u, group |-> course.group[u], prev |-> u \in course.prev,
                       assessed |-> FALSE, results |-> course.results[u]] : u \in UserIds}]
    /\ UNCHANGED syncVars

ReadTeams ==
    /\ Importing("groups")
    /\ import' = [import EXCEPT !.pc = "assessments",
          !.people = {[p EXCEPT !.group = course.group[p.user_id]] : p \in @}]
    /\ UNCHANGED syncVars

\* resolve_assignment and the assessments, with an assignment configured: the
\* code leaves this read out otherwise.
ReadAssessments ==
    LET examined == passed_assessment_user_ids(course.assessments) IN
    /\ Importing("assessments")
    /\ import' = [import EXCEPT !.pc = "students",
          !.people = {[p EXCEPT !.assessed = p.user_id \in examined] : p \in @}]
    /\ UNCHANGED syncVars

CommitStudents ==
    /\ Importing("students")
    /\ db' = upsert_students(db, import.people)
    /\ import' = [import EXCEPT !.pc = "rows"]
    /\ UNCHANGED <<solver, pages, post, course, sync, calm, overwritten, replanned>>

CommitGroups ==
    /\ Importing("rows")
    /\ db' = upsert_groups(db, build_groups(import.people))
    /\ import' = [import EXCEPT !.pc = "report"]
    /\ UNCHANGED <<solver, pages, post, course, sync, calm, overwritten, replanned>>

\* The report is printed; or a request or a statement fails, or the command is
\* killed, before.
ImportEnds ==
    /\ ~Importing("idle")
    /\ import' = NoImport
    /\ UNCHANGED syncVars

ImportStep == ReadTeams \/ ReadAssessments \/ CommitStudents \/ CommitGroups \/ ImportEnds

\* A lecturer enters a homework result or moves a student to another group.
EnterResult(u, points) ==
    /\ course' = [course EXCEPT !.results[u] = {points}]
    /\ UNCHANGED <<attVars, sync, calm, overwritten, replanned>>

MoveStudent(u, g) ==
    /\ course' = [course EXCEPT !.group[u] = g]
    /\ UNCHANGED <<attVars, sync, calm, overwritten, replanned>>

\* Whatever changes the course ends the steadiness of an import under way.
Beside(A) ==
    /\ A
    /\ import' = [import EXCEPT !.steady = @ /\ (Importing("idle") \/ course' = course)]

ImportNext ==
    \/ StartImport \/ StartExcel \/ ImportStep
    \/ Beside(SyncNext)
    \/ Beside(\E u \in UserIds, points \in Points : EnterResult(u, points))
    \/ Beside(\E u \in UserIds, g \in GroupIds \cup {NoTeam} : MoveStudent(u, g))

ImportSpec == ImportInit /\ [][ImportNext]_importVars

-----------------------------------------------------------------------------
(* Properties.                                                             *)

\* The shape of the course, the transfers and the import.
CourseTypeOK ==
    /\ AttTypeOK /\ SyncTypeOK
    /\ import \in [pc : {"idle", "groups", "assessments", "students", "rows", "report"},
                   excel : BOOLEAN, steady : BOOLEAN,
                   people : SUBSET [user_id : UserIds, group : GroupIds \cup {NoTeam},
                                    prev : BOOLEAN, assessed : BOOLEAN, results : SUBSET Nat]]

Examined(u) == \E a \in AssessmentsOf(course, u) : a.passed /\ ~a.draft

\* Who is due by the rule of the domain and the facts of the course.
TrulyDue(u) ==
    is_due([user_id |-> u, group |-> course.group[u], prev |-> u \in course.prev,
            assessed |-> Examined(u), results |-> course.results[u]], Threshold)

StoredDue(u) ==
    \E s \in db.students : s.user_id = u /\ student_is_due(s, Threshold)

Current == Importing("report") /\ ~import.excel /\ import.steady

\* After an import from the API the planner summons those who are due, and
\* nobody who "is bereits geprüft" (README.md:60: released, with enough points),
\* if the course stood still; whatever an earlier import left in the tables and
\* whatever drafts a transfer has written.
ImportIsCurrent ==
    Current => \A u \in UserIds : course.results[u] # {} => (StoredDue(u) <=> TrulyDue(u))

\* The solver and the dashboard go through the groups, and a student row does
\* not name its group by a foreign key: once an import is through, nobody it has
\* read is without a group's row, whatever import was killed before it.
ImportedAreGrouped ==
    Importing("report") =>
        \A p \in import.people : \E s \in db.students :
            s.user_id = p.user_id /\ s.group \in db.groups

\* "An assessment already exists ... already examined, never due" (models.py:25):
\* a student whom an import has found to be examined stays so, through transfers
\* and further imports, unless a forced transfer has overwritten the assessment;
\* but for the file, which knows no assessments.
ExaminedStay ==
    [][\A s \in db.students :
          s.assessed /\ s.user_id \notin overwritten =>
              \/ \E t \in db'.students : t.user_id = s.user_id /\ t.assessed
              \/ import.excel]_importVars
=============================================================================
