---------------------------- MODULE CourseClient ----------------------------
(***************************************************************************)
(* The course system (stu-mgmt, external: modelled from how the code uses  *)
(* it) and the client of adapters/ingest_api.py.                           *)
(*                                                                         *)
(* The course is a record: assessments, those of the presentation          *)
(* assignment, [user, n, draft, passed], the n-th of that user; late, the   *)
(* writes on their way that the client no longer waits for; group, each    *)
(* user's group or NoTeam; results, the points of the homework result, no  *)
(* element when there is none; prev, who was admitted in an earlier        *)
(* semester.  A write is [create, patch]: users to create an assessment    *)
(* for, keys of assessments to overwrite.  The assignment's full points    *)
(* reach presentation_pass_points, so what the planner writes is passed.   *)
(*                                                                         *)
(* A GET changes nothing: whoever makes it either gets the answer or ends, *)
(* as one step.  Only writes go through the machine of `request`.          *)
(***************************************************************************)
EXTENDS Repository

NoTeam == 0

AssessmentKey(a) == [user |-> a.user, n |-> a.n]

AssessmentsOf(course, u) == {a \in course.assessments : a.user = u}

\* POST .../assessments/bulk and PATCH: full points, as drafts.
Write(course, w) ==
    [course EXCEPT !.assessments =
        {IF AssessmentKey(a) \in w.patch THEN [a EXCEPT !.draft = TRUE, !.passed = TRUE] ELSE a :
            a \in @}
        \cup {[user |-> u, n |-> Cardinality(AssessmentsOf(course, u)) + 1,
               draft |-> TRUE, passed |-> TRUE] : u \in w.create}]

-----------------------------------------------------------------------------
(* StuMgmtClient._request.                                                 *)

\* How an attempt can end: success; 401; 403 or another 4xx; 5xx; an exception
\* of the transport, a time-out, or a token that cannot be renewed.
Answers == {"done", "unauthorized", "refused", "unavailable", "broken"}

\* What it can do to the course: an answer that is no success may come after
\* the write was applied, or before a write that is applied later.
Effects(answer) ==
    IF answer = "done" THEN {"now"}
    ELSE IF answer \in {"unavailable", "broken"} THEN {"now", "late", "never"}
    ELSE {"never"}

MaxAttempts == 3

NoRequest == [state |-> "none", write |-> [create |-> {}, patch |-> {}], attempt |-> 0,
              reauthed |-> FALSE]

NewRequest(w) == [NoRequest EXCEPT !.state = "open", !.write = w]

\* Mutant: the last 5xx is returned like an answer.
AfterAnswer_lenient_mutant(req, answer) ==
    LET again == [req EXCEPT !.attempt = @ + 1] IN
    IF answer = "done" \/ (answer = "unavailable" /\ again.attempt = MaxAttempts)
    THEN [req EXCEPT !.state = "ok"]
    ELSE IF again.attempt < MaxAttempts /\ answer = "unauthorized" /\ ~req.reauthed
    THEN [again EXCEPT !.reauthed = TRUE]
    ELSE IF again.attempt < MaxAttempts /\ answer = "unavailable" THEN again
    ELSE [req EXCEPT !.state = "raised"]

\* Mutant: every 401 renews the token and starts over.
AfterAnswer_forever_mutant(req, answer) ==
    LET again == [req EXCEPT !.attempt = @ + 1] IN
    IF answer = "done" THEN [req EXCEPT !.state = "ok"]
    ELSE IF answer = "unauthorized" THEN [req EXCEPT !.attempt = 0]
    ELSE IF again.attempt < MaxAttempts /\ answer = "unavailable" THEN again
    ELSE [req EXCEPT !.state = "raised"]

\* for attempt in range(3): the first 401 renews the token and uses up an
\* attempt (on the last one the loop ends with "max retries exceeded"), a 5xx
\* is tried again, anything else is returned or raised at once.
AfterAnswer(req, answer) ==
    LET again == [req EXCEPT !.attempt = @ + 1] IN
    IF answer = "done" THEN [req EXCEPT !.state = "ok"]
    ELSE IF again.attempt < MaxAttempts /\ answer = "unauthorized" /\ ~req.reauthed
    THEN [again EXCEPT !.reauthed = TRUE]
    ELSE IF again.attempt < MaxAttempts /\ answer = "unavailable" THEN again
    ELSE [req EXCEPT !.state = "raised"]

-----------------------------------------------------------------------------
(* Reads of the assessments.                                               *)

\* Mutant: drafts are overlooked.
ExistingChoices_mutant(assessments) ==
    {keys \in SUBSET {AssessmentKey(a) : a \in {x \in assessments : ~x.draft}} :
        \A a \in assessments : ~a.draft => \E k \in keys :
            k.user = a.user /\ \A l \in keys : l.user = a.user => l = k}

\* existing_assessments_by_user: one key per user, the last one of the list;
\* the order of the list is the server's.
ExistingChoices(assessments) ==
    {keys \in SUBSET {AssessmentKey(a) : a \in assessments} :
        \A a \in assessments : \E k \in keys :
            k.user = a.user /\ \A l \in keys : l.user = a.user => l = k}

\* Mutant: drafts count.
passed_assessment_user_ids_mutant(assessments) ==
    {a.user : a \in {x \in assessments : x.passed}}

\* Drafts and assessments below the pass points do not count.
passed_assessment_user_ids(assessments) ==
    {a.user : a \in {x \in assessments : ~x.draft /\ x.passed}}
=============================================================================
