----------------------------- MODULE Import_proofs -----------------------------
(***************************************************************************)
(* Theorems about Import, and with it about the transfer of the results,   *)
(* for every set of students, groups, processes, databases and states of   *)
(* the course.                                                             *)
(***************************************************************************)
EXTENDS Import, Attendance_proofs, FiniteSetTheorems, SequenceTheorems

-----------------------------------------------------------------------------
(* The course.                                                             *)

Assessment == [user : UserIds, n : Nat \ {0}, draft : BOOLEAN, passed : BOOLEAN]

AssessmentKeys == [user : UserIds, n : Nat \ {0}]

Assessed(u) == AssessmentsOf(course, u) # {}

\* The assessments a write leaves: the old ones, patched or not, and one more for
\* each user it creates one for.
LEMMA WriteType ==
    ASSUME NEW c \in CourseSet, NEW w \in Writes, IsFiniteSet(c.assessments)
    PROVE  /\ Write(c, w) \in CourseSet
           /\ IsFiniteSet(Write(c, w).assessments)
           /\ Write(c, w).late = c.late
           /\ \A u : AssessmentsOf(Write(c, w), u) # {} <=>
                        AssessmentsOf(c, u) # {} \/ u \in w.create
           /\ OnceEach(c) /\ (\A u \in w.create : AssessmentsOf(c, u) = {}) =>
                 OnceEach(Write(c, w))
<1> DEFINE old(a) == IF AssessmentKey(a) \in w.patch
                     THEN [a EXCEPT !.draft = TRUE, !.passed = TRUE] ELSE a
           new(u) == [user |-> u, n |-> Cardinality(AssessmentsOf(c, u)) + 1,
                      draft |-> TRUE, passed |-> TRUE]
           S == {old(a) : a \in c.assessments}
           T == {new(u) : u \in w.create}
<1>1. Write(c, w) = [c EXCEPT !.assessments = S \cup T]
  BY DEF Write
<1>2. c.assessments \subseteq Assessment /\ w.create \subseteq UserIds
  BY DEF CourseSet, Writes, Assessment
<1>3. \A a \in c.assessments : old(a) \in Assessment /\ old(a).user = a.user
  BY <1>2 DEF Assessment
<1>4. \A u \in w.create : new(u) \in Assessment /\ new(u).user = u
  <2>1. \A u : Cardinality(AssessmentsOf(c, u)) \in Nat
    BY FS_Subset, FS_CardinalityType DEF AssessmentsOf
  <2> QED BY <1>2, <2>1 DEF Assessment
<1>5. IsFiniteSet(S \cup T)
  <2>1. IsFiniteSet(S)
    <3> DEFINE f == [a \in c.assessments |-> old(a)]
    <3>1. f \in Surjection(c.assessments, S)
      BY DEF Surjection
    <3> QED BY <3>1, FS_Surjection
  <2>2. IsFiniteSet(T)
    <3> DEFINE f == [u \in w.create |-> new(u)]
    <3>1. f \in Surjection(w.create, T)
      BY DEF Surjection
    <3>2. IsFiniteSet(w.create)
      BY <1>2, IdsAssumption, FS_Subset
    <3> QED BY <3>1, <3>2, FS_Surjection
  <2> QED BY <2>1, <2>2, FS_Union
<1> HIDE DEF old, new
<1>6. S \cup T \subseteq Assessment
  BY <1>3, <1>4
<1>7. /\ Write(c, w).assessments = S \cup T /\ Write(c, w).late = c.late
      /\ Write(c, w) \in CourseSet
  <2> HIDE DEF S, T
  <2> QED BY <1>1, <1>6 DEF CourseSet, Assessment
<1>8. \A u : AssessmentsOf(Write(c, w), u) # {} <=>
                AssessmentsOf(c, u) # {} \/ u \in w.create
  BY <1>3, <1>4, <1>7 DEF AssessmentsOf
<1>9. OnceEach(c) /\ (\A u \in w.create : AssessmentsOf(c, u) = {}) =>
         OnceEach(Write(c, w))
  BY <1>3, <1>4, <1>7 DEF AssessmentsOf, OnceEach
<1> QED BY <1>5, <1>7, <1>8, <1>9

LEMMA AppendType ==
    ASSUME NEW c \in CourseSet, NEW w \in Writes
    PROVE  [c EXCEPT !.late = Append(@, w)] \in CourseSet
<1>1. Append(c.late, w) \in Seq(Writes)
  BY AppendProperties DEF CourseSet
<1> QED BY <1>1 DEF CourseSet

LEMMA RemoveType ==
    ASSUME NEW W, NEW s \in Seq(W), NEW i \in DOMAIN s
    PROVE  s[i] \in W /\ RemoveAt(s, i) \in Seq(W)
<1>1. Len(s) \in Nat /\ i \in 1..Len(s) /\ s[i] \in W
  BY LenProperties, ElementOfSeq
<1>2. SubSeq(s, 1, i - 1) \in Seq(W) /\ SubSeq(s, i + 1, Len(s)) \in Seq(W)
  BY <1>1, SubSeqProperties
<1> QED BY <1>1, <1>2, ConcatProperties DEF RemoveAt
-----------------------------------------------------------------------------
(* Types of the transfer.                                                  *)

TypeInv == AttTypeOK /\ SyncTypeOK /\ IsFiniteSet(course.assessments)

\* A record a process may keep.
SyncOK(s) == s \in SyncSet /\ (s.pc = "request" => s.request.state = "open")

LEMMA NoRequestOK == NoRequest \in RequestSet
  BY DEF NoRequest, RequestSet, Writes, MaxAttempts

LEMMA NoSyncOK == SyncOK(NoSync)
  BY NoRequestOK, IdsAssumption DEF SyncOK, NoSync, SyncSet, RoundIds

LEMMA NewRequestOK ==
    ASSUME NEW w \in Writes
    PROVE  NewRequest(w) \in RequestSet /\ NewRequest(w).state = "open" /\ NewRequest(w).write = w
  BY NoRequestOK DEF NewRequest, RequestSet

\* An attempt ends in an answer, an error, or another attempt; success is
\* reported of nothing but a success.
LEMMA AfterAnswerOK ==
    ASSUME NEW req \in RequestSet, req.state = "open", NEW answer
    PROVE  LET r == AfterAnswer(req, answer) IN
           /\ r.write = req.write
           /\ \/ r.state = "open" /\ r \in RequestSet /\ answer # "done"
              \/ r.state = "ok" /\ answer = "done"
              \/ r.state = "raised"
<1> DEFINE again == [req EXCEPT !.attempt = @ + 1]
<1>1. req.attempt \in 0..2 /\ again.attempt = req.attempt + 1
  BY DEF RequestSet, MaxAttempts
<1>2. again.attempt < MaxAttempts =>
         /\ again \in RequestSet /\ [again EXCEPT !.reauthed = TRUE] \in RequestSet
         /\ again.state = "open" /\ [again EXCEPT !.reauthed = TRUE].state = "open"
  <2>1. \A x \in 0..2 : [req EXCEPT !.attempt = x] \in RequestSet
                      /\ [req EXCEPT !.attempt = x].state = "open"
    BY DEF RequestSet, MaxAttempts
  <2>3. \A q \in RequestSet : [q EXCEPT !.reauthed = TRUE] \in RequestSet
                           /\ [q EXCEPT !.reauthed = TRUE].state = q.state
    BY DEF RequestSet, MaxAttempts
  <2>2. again.attempt < MaxAttempts => req.attempt + 1 \in 0..2
    BY <1>1 DEF MaxAttempts
  <2> QED BY <2>1, <2>2, <2>3
<1>3. /\ again.write = req.write /\ [again EXCEPT !.reauthed = TRUE].write = req.write
      /\ \A x : [req EXCEPT !.state = x].write = req.write /\ [req EXCEPT !.state = x].state = x
  BY DEF RequestSet
<1>4. AfterAnswer(req, answer) =
         IF answer = "done" THEN [req EXCEPT !.state = "ok"]
         ELSE IF again.attempt < MaxAttempts /\ answer = "unauthorized" /\ ~req.reauthed
         THEN [again EXCEPT !.reauthed = TRUE]
         ELSE IF again.attempt < MaxAttempts /\ answer = "unavailable" THEN again
         ELSE [req EXCEPT !.state = "raised"]
  BY DEF AfterAnswer
<1> HIDE DEF again
<1> QED BY <1>2, <1>3, <1>4

\* It is enough to look at the record that changes.
LEMMA SyncFrame ==
    ASSUME TypeInv, NEW p \in Syncs, NEW s, SyncOK(s), Continues(p, s),
           UNCHANGED <<attVars, course>>, calm' \in BOOLEAN,
           overwritten' \in SUBSET UserIds, replanned' \in SUBSET Syncs
    PROVE  TypeInv'
<1>1. AttTypeOK'
  BY DEF TypeInv, AttTypeOK, attVars, solveVars, SolveTypeOK, ProcOK
<1>2. SyncTypeOK'
  BY DEF TypeInv, SyncTypeOK, SyncOK, Continues, Syncing
<1> QED BY <1>1, <1>2 DEF TypeInv

LEMMA SyncFacts ==
    ASSUME TypeInv, NEW p \in Syncs
    PROVE  /\ db \in DB /\ course \in CourseSet /\ calm \in BOOLEAN
           /\ overwritten \in SUBSET UserIds /\ replanned \in SUBSET Syncs
           /\ SyncOK(sync[p]) /\ sync[p] \in SyncSet
  BY DEF TypeInv, AttTypeOK, SolveTypeOK, SyncTypeOK, SyncOK, Syncing

LEMMA QuietFrame ==
    ASSUME TypeInv, NEW p \in Syncs, NEW s, SyncOK(s), Continues(p, s),
           UNCHANGED <<attVars, course, calm, overwritten, replanned>>
    PROVE  TypeInv'
  BY SyncFacts, SyncFrame

LEMMA StartSyncType ==
    ASSUME TypeInv, NEW p \in Syncs, NEW r \in RoundIds, NEW f \in BOOLEAN, NEW d \in BOOLEAN,
           StartSync(p, r, f, d)
    PROVE  TypeInv'
<1>1. SyncOK([NoSync EXCEPT !.pc = "students", !.round = r, !.force = f, !.dry = d])
  BY NoSyncOK DEF SyncOK, SyncSet
<1>2. calm' \in BOOLEAN
  BY DEF StartSync
<1> QED BY <1>1, <1>2, SyncFacts, SyncFrame DEF StartSync

\* What a process reads it keeps.
LEMMA ReadOK ==
    ASSUME NEW s, SyncOK(s)
    PROVE  /\ \A m \in SUBSET [user : UserIds, group : GroupIds] :
                 SyncOK([s EXCEPT !.pc = "marks", !.members = m])
           /\ \A m \in SUBSET [user : UserIds, status : Statuses], g \in SUBSET GroupIds :
                 SyncOK([s EXCEPT !.pc = "statuses", !.marks = m, !.marked = g])
           /\ \A g \in SUBSET UserIds :
                 SyncOK([s EXCEPT !.pc = "existing", !.members = {}, !.marks = {},
                                  !.marked = {}, !.graded = g])
<1>1. ASSUME NEW m \in SUBSET [user : UserIds, group : GroupIds]
      PROVE  SyncOK([s EXCEPT !.pc = "marks", !.members = m])
  BY DEF SyncOK, SyncSet
<1>2. ASSUME NEW m \in SUBSET [user : UserIds, status : Statuses], NEW g \in SUBSET GroupIds
      PROVE  SyncOK([s EXCEPT !.pc = "statuses", !.marks = m, !.marked = g])
  BY DEF SyncOK, SyncSet
<1>3. ASSUME NEW g \in SUBSET UserIds
      PROVE  SyncOK([s EXCEPT !.pc = "existing", !.members = {}, !.marks = {},
                              !.marked = {}, !.graded = g])
  BY DEF SyncOK, SyncSet
<1> QED BY <1>1, <1>2, <1>3, Zenon

LEMMA ReadMembersType ==
    ASSUME TypeInv, NEW p \in Syncs, ReadMembers(p) PROVE TypeInv'
<1> DEFINE read == {[user |-> s.user_id, group |-> s.group] : s \in db.students}
<1>1. read \subseteq [user : UserIds, group : GroupIds]
  BY SyncFacts DEF DB, Database
<1> HIDE DEF read
<1>2. SyncOK([sync[p] EXCEPT !.pc = "marks", !.members = read])
  BY <1>1, SyncFacts, ReadOK, Zenon
<1>3. /\ Continues(p, [sync[p] EXCEPT !.pc = "marks", !.members = read])
      /\ UNCHANGED <<attVars, course, calm, overwritten, replanned>>
  BY DEF ReadMembers, read
<1> QED BY <1>2, <1>3, QuietFrame, Zenon

LEMMA ReadMarksType ==
    ASSUME TypeInv, NEW p \in Syncs, ReadMarks(p) PROVE TypeInv'
<1> DEFINE rows == {a \in db.att : a.round = sync[p].round}
           read == {[user |-> a.student, status |-> a.status] : a \in rows}
           groups == {a.group : a \in rows}
<1>1. read \subseteq [user : UserIds, status : Statuses] /\ groups \subseteq GroupIds
  BY SyncFacts DEF DB, Database
<1>2. PICK marks \in SUBSET read :
         Continues(p, [sync[p] EXCEPT !.pc = "statuses", !.marks = marks, !.marked = groups])
  BY DEF ReadMarks
<1> HIDE DEF read, groups
<1>3. SyncOK([sync[p] EXCEPT !.pc = "statuses", !.marks = marks, !.marked = groups])
  BY <1>1, SyncFacts, ReadOK, Zenon
<1>4. UNCHANGED <<attVars, course, calm, overwritten, replanned>>
  BY DEF ReadMarks
<1> QED BY <1>2, <1>3, <1>4, QuietFrame, Zenon

LEMMA ReadStatusesType ==
    ASSUME TypeInv, NEW p \in Syncs, ReadStatuses(p) PROVE TypeInv'
<1> DEFINE rows == get_presentations_for_round(db, sync[p].round)
           graded == {m.user : m \in {x \in sync[p].members :
                        \E row \in rows : row.group = x.group /\ Presented(x, row, sync[p])}}
<1>1. graded \subseteq UserIds
  BY SyncFacts DEF SyncSet
<1>2. Continues(p, [sync[p] EXCEPT !.pc = "existing", !.members = {}, !.marks = {},
                       !.marked = {}, !.graded = graded])
  BY DEF ReadStatuses
<1> HIDE DEF graded
<1>3. SyncOK([sync[p] EXCEPT !.pc = "existing", !.members = {}, !.marks = {},
                 !.marked = {}, !.graded = graded])
  BY <1>1, SyncFacts, ReadOK, Zenon
<1>4. UNCHANGED <<attVars, course, calm, overwritten, replanned>>
  BY DEF ReadStatuses
<1> QED BY <1>2, <1>3, <1>4, QuietFrame, Zenon

\* What the sorting of the graded leaves behind.
Sorted(s, keys) ==
    LET known == s.graded \cap {k.user : k \in keys}
        new   == s.graded \ known
    IN  [s EXCEPT !.pc = "write",
           !.skipped = IF s.force THEN {} ELSE known,
           !.updated = IF s.force /\ s.dry THEN known ELSE {},
           !.patches = IF s.force /\ ~s.dry THEN {k \in keys : k.user \in known} ELSE {},
           !.created = IF s.dry THEN new ELSE {},
           !.creates = IF s.dry THEN {} ELSE new]

LEMMA ReadExistingSorts ==
    ASSUME TypeInv, NEW p \in Syncs, ReadExisting(p)
    PROVE  \E keys \in ExistingChoices(course.assessments) :
              /\ keys \subseteq AssessmentKeys
              /\ \A k \in keys : Assessed(k.user)
              /\ \A u : Assessed(u) => \E k \in keys : k.user = u
              /\ Continues(p, Sorted(sync[p], keys))
<1>1. PICK keys \in ExistingChoices(course.assessments) : Continues(p, Sorted(sync[p], keys))
  BY DEF ReadExisting, Sorted
<1>2. \A a \in course.assessments : AssessmentKey(a) \in AssessmentKeys /\ AssessmentKey(a).user = a.user
  BY SyncFacts DEF CourseSet, AssessmentKeys, AssessmentKey
<1>3. keys \subseteq {AssessmentKey(a) : a \in course.assessments}
  BY DEF ExistingChoices
<1>4. keys \subseteq AssessmentKeys
  BY <1>2, <1>3
<1>5. \A k \in keys : Assessed(k.user)
  BY <1>2, <1>3 DEF Assessed, AssessmentsOf
<1>6. \A u : Assessed(u) => \E k \in keys : k.user = u
  BY DEF ExistingChoices, Assessed, AssessmentsOf
<1> QED BY <1>1, <1>4, <1>5, <1>6

LEMMA SortedOK ==
    ASSUME NEW s, SyncOK(s), NEW keys \in SUBSET AssessmentKeys
    PROVE  SyncOK(Sorted(s, keys))
<1> DEFINE known   == s.graded \cap {k.user : k \in keys}
           skipped == IF s.force THEN {} ELSE known
           updated == IF s.force /\ s.dry THEN known ELSE {}
           patches == IF s.force /\ ~s.dry THEN {k \in keys : k.user \in known} ELSE {}
           created == IF s.dry THEN s.graded \ known ELSE {}
           creates == IF s.dry THEN {} ELSE s.graded \ known
<1>1. /\ skipped \in SUBSET UserIds /\ updated \in SUBSET UserIds
      /\ patches \in SUBSET [user : UserIds, n : Nat \ {0}]
      /\ created \in SUBSET UserIds /\ creates \in SUBSET UserIds
  BY DEF AssessmentKeys, SyncOK, SyncSet
<1>2. Sorted(s, keys) =
          [s EXCEPT !.pc = "write", !.skipped = skipped, !.updated = updated,
                    !.patches = patches, !.created = created, !.creates = creates]
  BY DEF Sorted
<1>3. ASSUME NEW a \in SUBSET UserIds, NEW b \in SUBSET UserIds,
             NEW c \in SUBSET [user : UserIds, n : Nat \ {0}],
             NEW d \in SUBSET UserIds, NEW e \in SUBSET UserIds
      PROVE  SyncOK([s EXCEPT !.pc = "write", !.skipped = a, !.updated = b, !.patches = c,
                              !.created = d, !.creates = e])
  BY DEF SyncOK, SyncSet
<1> HIDE DEF skipped, updated, patches, created, creates
<1>4. SyncOK([s EXCEPT !.pc = "write", !.skipped = skipped, !.updated = updated,
                       !.patches = patches, !.created = created, !.creates = creates])
  BY <1>1, <1>3, Zenon
<1> QED BY <1>2, <1>4, Zenon

LEMMA ReadExistingType ==
    ASSUME TypeInv, NEW p \in Syncs, ReadExisting(p) PROVE TypeInv'
<1>1. PICK keys \in SUBSET AssessmentKeys : Continues(p, Sorted(sync[p], keys))
  BY ReadExistingSorts
<1>2. SyncOK(Sorted(sync[p], keys))
  BY SortedOK, SyncFacts
<1>3. UNCHANGED <<attVars, course, calm, overwritten, replanned>>
  BY DEF ReadExisting
<1> QED BY <1>1, <1>2, <1>3, QuietFrame, Zenon

\* A process that begins a request.
LEMMA RequestedOK ==
    ASSUME NEW s, SyncOK(s), NEW w \in Writes
    PROVE  /\ SyncOK([s EXCEPT !.pc = "request", !.creates = {}, !.request = NewRequest(w)])
           /\ \A key : SyncOK([s EXCEPT !.pc = "request", !.patches = @ \ {key},
                                       !.request = NewRequest(w)])
<1>1. /\ s \in SyncSet /\ NewRequest(w) \in RequestSet /\ NewRequest(w).state = "open"
  BY NewRequestOK DEF SyncOK
<1>2. ASSUME NEW q \in RequestSet, q.state = "open"
      PROVE  SyncOK([s EXCEPT !.pc = "request", !.creates = {}, !.request = q])
  BY <1>1, <1>2 DEF SyncOK, SyncSet
<1>3. ASSUME NEW q \in RequestSet, q.state = "open", NEW k \in SUBSET [user : UserIds, n : Nat \ {0}]
      PROVE  SyncOK([s EXCEPT !.pc = "request", !.patches = k, !.request = q])
  BY <1>1, <1>3 DEF SyncOK, SyncSet
<1>4. \A key : SyncOK([s EXCEPT !.pc = "request", !.patches = s.patches \ {key},
                              !.request = NewRequest(w)])
  <2>1. \A key : s.patches \ {key} \in SUBSET [user : UserIds, n : Nat \ {0}]
    BY <1>1 DEF SyncSet
  <2> QED BY <1>1, <1>3, <2>1, Zenon
<1>5. SyncOK([s EXCEPT !.pc = "request", !.creates = {}, !.request = NewRequest(w)])
  BY <1>1, <1>2, Zenon
<1> QED BY <1>4, <1>5, Zenon

LEMMA BeginType ==
    ASSUME TypeInv, NEW p \in Syncs,
           BeginBulk(p) \/ \E key \in sync[p].patches : BeginPatch(p, key)
    PROVE  TypeInv'
<1>1. CASE BeginBulk(p)
  <2> DEFINE w == [create |-> sync[p].creates, patch |-> {}]
  <2>1. w \in Writes
    BY SyncFacts DEF SyncSet, Writes
  <2> HIDE DEF w
  <2>2. SyncOK([sync[p] EXCEPT !.pc = "request", !.creates = {}, !.request = NewRequest(w)])
    BY <2>1, SyncFacts, RequestedOK
  <2> QED BY <1>1, <2>2, SyncFacts, SyncFrame DEF BeginBulk, w
<1>2. ASSUME NEW key \in sync[p].patches, BeginPatch(p, key) PROVE TypeInv'
  <2> DEFINE w == [create |-> {}, patch |-> {key}]
             over == IF sync[p].force THEN overwritten \cup {key.user} ELSE overwritten
  <2>1. w \in Writes /\ key.user \in UserIds
    BY SyncFacts DEF SyncSet, Writes
  <2>2. over \in SUBSET UserIds
    BY <2>1, SyncFacts
  <2> HIDE DEF w, over
  <2>3. SyncOK([sync[p] EXCEPT !.pc = "request", !.patches = @ \ {key},
                               !.request = NewRequest(w)])
    BY <2>1, SyncFacts, RequestedOK
  <2> QED BY <1>2, <2>2, <2>3, SyncFacts, SyncFrame DEF BeginPatch, w, over
<1> QED BY <1>1, <1>2

\* What an attempt does to the process: it goes on trying, or is through with
\* the request.
Outcome(s, t, answer) ==
    /\ SyncOK(t)
    /\ t.force = s.force /\ t.dry = s.dry
    /\ t.patches = s.patches /\ t.creates = s.creates /\ t.skipped = s.skipped
    /\ \/ /\ t.pc = "request" /\ t.request.write = s.request.write /\ answer # "done"
          /\ t.created = s.created /\ t.updated = s.updated
       \/ /\ t.pc = "write" /\ answer = "done"
          /\ t.created = s.created \cup s.request.write.create
          /\ t.updated = s.updated \cup {k.user : k \in s.request.write.patch}
       \/ /\ t.pc = "write"
          /\ t.created = s.created /\ t.updated = s.updated

LEMMA SettledOK ==
    ASSUME NEW s, SyncOK(s), s.pc = "request", NEW answer
    PROVE  Outcome(s, Settled(s, AfterAnswer(s.request, answer)), answer)
<1> DEFINE req == AfterAnswer(s.request, answer)
           patched == {k.user : k \in s.request.write.patch}
           create == s.request.write.create
           t == Settled(s, req)
<1>1. /\ s \in SyncSet /\ s.request \in RequestSet /\ s.request.state = "open"
      /\ patched \in SUBSET UserIds /\ create \in SUBSET UserIds
  BY DEF SyncOK, SyncSet, RequestSet, Writes
<1>2. /\ req.write = s.request.write
      /\ \/ req.state = "open" /\ req \in RequestSet /\ answer # "done"
         \/ req.state = "ok" /\ answer = "done"
         \/ req.state = "raised"
  BY <1>1, AfterAnswerOK
<1> HIDE DEF req
<1>3. t = CASE req.state = "open" -> [s EXCEPT !.request = req]
            [] req.state = "ok" ->
                  [s EXCEPT !.pc = "write", !.request = NoRequest,
                            !.updated = @ \cup patched, !.created = @ \cup create]
            [] req.state = "raised" ->
                  [s EXCEPT !.pc = "write", !.request = NoRequest,
                            !.failed = @ \cup patched \cup create]
  BY <1>2 DEF Settled
<1> SUFFICES Outcome(s, t, answer)
  BY DEF req
<1> HIDE DEF t
<1>4. CASE req.state = "open" /\ req \in RequestSet /\ answer # "done"
  <2>1. t = [s EXCEPT !.request = req]
    BY <1>3, <1>4
  <2>2. SyncOK(t)
    BY <1>1, <1>4, <2>1 DEF SyncOK, SyncSet
  <2>3. /\ t.pc = "request" /\ t.request = req /\ t.force = s.force /\ t.dry = s.dry /\ t.patches = s.patches
        /\ t.creates = s.creates /\ t.skipped = s.skipped /\ t.created = s.created
        /\ t.updated = s.updated
    BY <1>1, <2>1 DEF SyncSet
  <2> QED BY <1>2, <1>4, <2>2, <2>3 DEF Outcome
<1>5. CASE req.state = "ok" /\ answer = "done"
  <2> HIDE DEF patched, create
  <2>1. t = [s EXCEPT !.pc = "write", !.request = NoRequest,
                      !.updated = s.updated \cup patched, !.created = s.created \cup create]
    BY <1>3, <1>5
  <2>2. \A q \in RequestSet, c \in SUBSET UserIds, d \in SUBSET UserIds :
           SyncOK([s EXCEPT !.pc = "write", !.request = q, !.updated = c, !.created = d])
    BY <1>1 DEF SyncOK, SyncSet
  <2>3. s.updated \cup patched \in SUBSET UserIds /\ s.created \cup create \in SUBSET UserIds
    BY <1>1 DEF SyncSet
  <2>4. SyncOK(t)
    BY <2>1, <2>2, <2>3, NoRequestOK
  <2>5. /\ t.pc = "write" /\ t.force = s.force /\ t.dry = s.dry /\ t.patches = s.patches
        /\ t.creates = s.creates /\ t.skipped = s.skipped
        /\ t.created = s.created \cup create /\ t.updated = s.updated \cup patched
    BY <1>1, <2>1 DEF SyncSet
  <2> QED BY <1>5, <2>4, <2>5 DEF Outcome, patched, create
<1>6. CASE req.state = "raised"
  <2> HIDE DEF patched, create
  <2>1. t = [s EXCEPT !.pc = "write", !.request = NoRequest,
                      !.failed = s.failed \cup patched \cup create]
    BY <1>3, <1>6
  <2>2. \A q \in RequestSet, c \in SUBSET UserIds :
           SyncOK([s EXCEPT !.pc = "write", !.request = q, !.failed = c])
    BY <1>1 DEF SyncOK, SyncSet
  <2>3. s.failed \cup patched \cup create \in SUBSET UserIds
    BY <1>1 DEF SyncSet
  <2>4. SyncOK(t)
    BY <2>1, <2>2, <2>3, NoRequestOK
  <2>5. /\ t.pc = "write" /\ t.force = s.force /\ t.dry = s.dry /\ t.patches = s.patches
        /\ t.creates = s.creates /\ t.skipped = s.skipped
        /\ t.created = s.created /\ t.updated = s.updated
    BY <1>1, <2>1 DEF SyncSet
  <2> QED BY <2>4, <2>5 DEF Outcome
<1> QED BY <1>2, <1>4, <1>5, <1>6

\* Writing to the course and the frame around it.
LEMMA AttemptFacts ==
    ASSUME TypeInv, NEW p \in Syncs, NEW answer \in Answers, NEW effect \in Effects(answer),
           Attempt(p, answer, effect)
    PROVE  /\ sync[p].request.write \in Writes
           /\ course' \in CourseSet /\ IsFiniteSet(course'.assessments)
           /\ \A u : Assessed(u)' <=> \/ Assessed(u)
                                      \/ effect = "now" /\ u \in sync[p].request.write.create
           /\ answer = "done" => effect = "now"
           /\ calm' = (calm /\ (effect # "never" => answer = "done"))
           /\ effect = "never" => course' = course
           /\ effect = "now" => course' = Write(course, sync[p].request.write)
<1> DEFINE w == sync[p].request.write
<1>1. w \in Writes /\ course \in CourseSet /\ IsFiniteSet(course.assessments)
  BY SyncFacts DEF SyncSet, RequestSet, TypeInv
<1>2. effect \in {"now", "late", "never"} /\ (answer = "done" => effect = "now")
  BY DEF Effects
<1> HIDE DEF w
<1>3. course' = CASE effect = "now"   -> Write(course, w)
                  [] effect = "late"  -> [course EXCEPT !.late = Append(@, w)]
                  [] effect = "never" -> course
  BY DEF Attempt, w
<1>4. CASE effect = "now"
  BY <1>1, <1>2, <1>3, <1>4, WriteType DEF Assessed, w, Attempt
<1>5. CASE effect = "late"
  <2>1. course' = [course EXCEPT !.late = Append(@, w)]
    BY <1>3, <1>5
  <2>2. course'.assessments = course.assessments
    BY <1>1, <2>1 DEF CourseSet
  <2> QED BY <1>1, <1>2, <1>5, <2>1, <2>2, AppendType
          DEF Assessed, AssessmentsOf, w, Attempt
<1>6. CASE effect = "never"
  <2>1. course' = course
    BY <1>3, <1>6
  <2> QED BY <1>1, <1>2, <1>6, <2>1 DEF Assessed, AssessmentsOf, w, Attempt
<1> QED BY <1>2, <1>4, <1>5, <1>6

LEMMA AttKept == ASSUME AttTypeOK, UNCHANGED attVars PROVE AttTypeOK'
  BY DEF AttTypeOK, attVars, solveVars, SolveTypeOK, ProcOK

LEMMA AttemptType ==
    ASSUME TypeInv, NEW p \in Syncs, NEW answer \in Answers, NEW effect \in Effects(answer),
           Attempt(p, answer, effect)
    PROVE  TypeInv'
<1>1. SyncOK(Settled(sync[p], AfterAnswer(sync[p].request, answer)))
  BY SettledOK, SyncFacts DEF Attempt, Syncing, Outcome
<1>2. sync' \in [Syncs -> SyncSet]
      /\ \A q \in Syncs : sync'[q].pc = "request" => sync'[q].request.state = "open"
  BY <1>1 DEF Attempt, Continues, SyncOK, TypeInv, SyncTypeOK, Syncing
<1>3. SyncTypeOK'
  BY <1>2, AttemptFacts, SyncFacts DEF SyncTypeOK, Syncing, Attempt
<1> QED BY <1>3, AttemptFacts, AttKept DEF Attempt, TypeInv

LEMMA SyncEndsType ==
    ASSUME TypeInv, NEW p \in Syncs, Report(p) \/ SyncCrash(p)
    PROVE  TypeInv'
  BY NoSyncOK, SyncFacts, SyncFrame DEF Report, SyncCrash

LEMMA SyncStepType ==
    ASSUME TypeInv, NEW p \in Syncs, SyncStep(p) \/ SyncCrash(p)
    PROVE  TypeInv'
  BY ReadMembersType, ReadMarksType, ReadStatusesType, ReadExistingType, BeginType,
     AttemptType, SyncEndsType DEF SyncStep

\* It is enough to look at what changes of the course.
LEMMA CourseFrame ==
    ASSUME TypeInv, course' \in CourseSet, IsFiniteSet(course'.assessments),
           UNCHANGED <<attVars, sync, calm, overwritten, replanned>>
    PROVE  TypeInv'
<1>1. SyncTypeOK'
  BY DEF TypeInv, SyncTypeOK, Syncing
<1> QED BY <1>1, AttKept DEF TypeInv

\* What is applied late is a write like any other.
LEMMA LandFacts ==
    ASSUME TypeInv, NEW i \in DOMAIN course.late, Land(i)
    PROVE  /\ course.late[i] \in Writes
           /\ course' \in CourseSet /\ IsFiniteSet(course'.assessments)
           /\ course'.assessments = Write(course, course.late[i]).assessments
<1> DEFINE w == course.late[i]
           c == Write(course, w)
<1>1. /\ course \in CourseSet /\ IsFiniteSet(course.assessments)
      /\ course.late \in Seq(Writes)
  BY SyncFacts DEF TypeInv, SyncTypeOK, CourseSet
<1>2. w \in Writes /\ RemoveAt(course.late, i) \in Seq(Writes)
  BY <1>1, RemoveType
<1>3. c \in CourseSet /\ IsFiniteSet(c.assessments) /\ c.late = course.late
  BY <1>1, <1>2, WriteType
<1>4. course' = [c EXCEPT !.late = RemoveAt(@, i)]
  BY DEF Land
<1> HIDE DEF c
<1>5. course' = [c EXCEPT !.late = RemoveAt(course.late, i)]
  BY <1>3, <1>4
<1>6. course' \in CourseSet /\ course'.assessments = c.assessments
  BY <1>2, <1>3, <1>5 DEF CourseSet
<1> QED BY <1>2, <1>3, <1>6 DEF c

\* A draft that is released is still that assessment.
LEMMA ReleaseFacts ==
    ASSUME TypeInv, NEW a, Release(a)
    PROVE  /\ course' \in CourseSet /\ IsFiniteSet(course'.assessments)
           /\ course'.late = course.late
           /\ \A u : AssessmentsOf(course', u) # {} <=> AssessmentsOf(course, u) # {}
           /\ OnceEach(course) => OnceEach(course')
<1> DEFINE b == [a EXCEPT !.draft = FALSE]
           new == (course.assessments \ {a}) \cup {b}
<1>1. course \in CourseSet /\ IsFiniteSet(course.assessments)
  BY DEF TypeInv, SyncTypeOK
<1>2. a \in course.assessments /\ a \in Assessment
  BY <1>1 DEF Release, CourseSet, Assessment
<1>3. b \in Assessment /\ b.user = a.user
  BY <1>2 DEF Assessment
<1>4. course' = [course EXCEPT !.assessments = new]
  BY DEF Release
<1> HIDE DEF b
<1>5. IsFiniteSet(new)
  BY <1>1, FS_Difference, FS_Singleton, FS_Union
<1>6. course'.assessments = new /\ course'.late = course.late /\ course' \in CourseSet
  <2>1. new \subseteq Assessment
    BY <1>1, <1>3 DEF CourseSet, Assessment
  <2> HIDE DEF new
  <2> QED BY <1>1, <1>4, <2>1 DEF CourseSet, Assessment
<1>7. \A u : AssessmentsOf(course', u) # {} <=> AssessmentsOf(course, u) # {}
  BY <1>2, <1>3, <1>6 DEF AssessmentsOf
<1>8. OnceEach(course) => OnceEach(course')
  BY <1>2, <1>3, <1>6 DEF OnceEach
<1> QED BY <1>5, <1>6, <1>7, <1>8

\* What lecturers do otherwise.
LEMMA LecturerFacts ==
    ASSUME TypeInv,
           \/ \E u \in UserIds, points \in Points : EnterResult(u, points)
           \/ \E u \in UserIds, g \in GroupIds \cup {NoTeam} : MoveStudent(u, g)
    PROVE  /\ course' \in CourseSet /\ course'.assessments = course.assessments
           /\ course'.late = course.late
<1>1. course \in CourseSet
  BY DEF TypeInv, SyncTypeOK
<1>2. ASSUME NEW u \in UserIds, NEW points \in Points, EnterResult(u, points)
      PROVE  /\ course' \in CourseSet /\ course'.assessments = course.assessments
             /\ course'.late = course.late
  BY <1>1, <1>2, ImportAssumption DEF EnterResult, CourseSet
<1>3. ASSUME NEW u \in UserIds, NEW g \in GroupIds \cup {NoTeam}, MoveStudent(u, g)
      PROVE  /\ course' \in CourseSet /\ course'.assessments = course.assessments
             /\ course'.late = course.late
  BY <1>1, <1>3 DEF MoveStudent, CourseSet
<1> QED BY <1>2, <1>3

LEMMA TutorsType == ASSUME TypeInv, Tutors PROVE TypeInv'
<1>1. AttTypeOK'
  BY TutorFormType, TutorSubmitType, PostStepType DEF TypeInv, Tutors
<1>2. SyncTypeOK'
  BY DEF TypeInv, SyncTypeOK, Syncing, Tutors
<1> QED BY <1>1, <1>2 DEF TypeInv, Tutors

\* A solve or an edit.
LEMMA PlanningType ==
    ASSUME AttTypeOK,
           \/ \E p \in Procs : \E r \in db.rounds : StartSolve(p, r)
           \/ Solving
           \/ (\E p \in Procs : Crash(p)) /\ UNCHANGED <<pages, post>>
           \/ AttEdit
    PROVE  AttTypeOK'
  BY AttStepType DEF AttNext, Crashes

LEMMA PlannersType == ASSUME TypeInv, Planners PROVE TypeInv'
<1>1. AttTypeOK'
  BY PlanningType DEF TypeInv, Planners, Planner
<1>2. SyncTypeOK'
  BY DEF TypeInv, SyncTypeOK, Syncing, Planners, Planner
<1> QED BY <1>1, <1>2 DEF TypeInv, Planners, Planner

LEMMA SyncNextType == ASSUME TypeInv, SyncNext PROVE TypeInv'
<1>1. ASSUME NEW p \in Syncs, NEW r \in RoundIds, NEW f \in BOOLEAN, NEW d \in BOOLEAN,
             StartSync(p, r, f, d)
      PROVE  TypeInv'
  BY <1>1, StartSyncType
<1>2. ASSUME NEW p \in Syncs, SyncStep(p) \/ SyncCrash(p) PROVE TypeInv'
  BY <1>2, SyncStepType
<1>3. ASSUME NEW i \in DOMAIN course.late, Land(i) PROVE TypeInv'
  BY <1>3, LandFacts, CourseFrame DEF Land
<1>4. ASSUME NEW a, Release(a) PROVE TypeInv'
  BY <1>4, ReleaseFacts, CourseFrame DEF Release
<1> QED BY <1>1, <1>2, <1>3, <1>4, TutorsType, PlannersType DEF SyncNext

LEMMA LecturerType ==
    ASSUME TypeInv,
           \/ \E u \in UserIds, points \in Points : EnterResult(u, points)
           \/ \E u \in UserIds, g \in GroupIds \cup {NoTeam} : MoveStudent(u, g)
    PROVE  TypeInv'
<1>1. UNCHANGED <<attVars, sync, calm, overwritten, replanned>>
  BY DEF EnterResult, MoveStudent
<1>2. course' \in CourseSet /\ course'.assessments = course.assessments
  BY LecturerFacts
<1>3. IsFiniteSet(course'.assessments)
  BY <1>2 DEF TypeInv
<1> QED BY <1>1, <1>2, <1>3, CourseFrame
-----------------------------------------------------------------------------
(* Types of the import.                                                    *)

\* A participant as far as the import has read it.
Participant ==
    [user_id : UserIds, group : GroupIds \cup {NoTeam}, prev : BOOLEAN, assessed : BOOLEAN,
     results : SUBSET Nat]

ImportSet ==
    [pc : {"idle", "groups", "assessments", "students", "rows", "report"},
     excel : BOOLEAN, steady : BOOLEAN, people : SUBSET Participant]

ImportInv == TypeInv /\ import \in ImportSet

LEMMA ImportTypes == ImportInv => CourseTypeOK
  BY DEF ImportInv, TypeInv, CourseTypeOK, ImportSet, Participant

LEMMA NoImportOK == NoImport \in ImportSet
  BY DEF NoImport, ImportSet

\* The rows an import commits have a group, the student's own one if need be.
LEMMA StudentsType ==
    ASSUME NEW d \in DB, NEW people \in SUBSET Participant
    PROVE  /\ \A p \in people : resolve_group_id(p) \in GroupIds
           /\ upsert_students(d, people) \in DB
           /\ upsert_students(d, people) = [d EXCEPT !.students = upsert_students(d, people).students]
<1>1. \A p \in people : resolve_group_id(p) \in GroupIds
  BY ImportAssumption DEF resolve_group_id, Participant
<1> DEFINE points(p) == IF p.results = {} THEN 0 ELSE CHOOSE x \in p.results : TRUE
           row(p) == [user_id |-> p.user_id, group |-> resolve_group_id(p), prev |-> p.prev,
                      assessed |-> p.assessed, points |-> points(p)]
           new == {s \in d.students : s.user_id \notin {p.user_id : p \in people}} \cup
                  {row(p) : p \in people}
           Row == [user_id : UserIds, group : GroupIds, prev : BOOLEAN, assessed : BOOLEAN,
                   points : Nat]
<1>2. \A p \in people : points(p) \in Nat
  <2> SUFFICES ASSUME NEW p \in people, p.results # {} PROVE (CHOOSE x \in p.results : TRUE) \in Nat
    OBVIOUS
  <2>1. (CHOOSE x \in p.results : TRUE) \in p.results
    OBVIOUS
  <2> QED BY <2>1 DEF Participant
<1>3. \A p \in people : row(p) \in Row
  <2> HIDE DEF points
  <2> QED BY <1>1, <1>2 DEF Participant
<1>4. d.students \subseteq Row
  BY DEF DB, Database
<1>5. upsert_students(d, people) = [d EXCEPT !.students = new]
  BY DEF upsert_students
<1> HIDE DEF row
<1>6. new \subseteq Row
  BY <1>3, <1>4
<1> HIDE DEF new
<1>7. upsert_students(d, people).students = new /\ upsert_students(d, people) \in DB
  BY <1>5, <1>6 DEF DB, Database
<1> QED BY <1>1, <1>5, <1>7

LEMMA GroupsType ==
    ASSUME NEW d \in DB, NEW groups \in SUBSET GroupIds
    PROVE  upsert_groups(d, groups) \in DB /\ upsert_groups(d, groups).groups = d.groups \cup groups
           /\ upsert_groups(d, groups).students = d.students
  BY DEF DB, Database, upsert_groups

\* A step that changes nothing but the tables.
LEMMA TablesFrame ==
    ASSUME TypeInv, db' \in DB, UNCHANGED <<solver, pages, post, course, sync, calm, overwritten, replanned>>
    PROVE  TypeInv'
<1>1. AttTypeOK'
  BY DEF TypeInv, AttTypeOK, SolveTypeOK, ProcOK
<1>2. SyncTypeOK'
  BY DEF TypeInv, SyncTypeOK, Syncing
<1> QED BY <1>1, <1>2 DEF TypeInv

LEMMA SameTypes == ASSUME TypeInv, UNCHANGED syncVars PROVE TypeInv'
<1>1. SyncTypeOK'
  BY DEF TypeInv, SyncTypeOK, Syncing, syncVars
<1> QED BY <1>1, AttKept DEF TypeInv, syncVars

\* What the import asks the course fills its record with participants.
LEMMA ReadingType ==
    ASSUME ImportInv, StartImport \/ StartExcel \/ ReadTeams \/ ReadAssessments
    PROVE  ImportInv'
<1>0. /\ course \in CourseSet /\ import \in ImportSet /\ TypeInv
      /\ \A u \in UserIds : course.results[u] \in SUBSET Nat /\ course.group[u] \in GroupIds \cup {NoTeam}
  BY DEF ImportInv, TypeInv, SyncTypeOK, CourseSet
<1>1. ASSUME NEW people \in SUBSET Participant, NEW pc \in {"groups", "assessments", "students"},
             NEW excel \in BOOLEAN
      PROVE  /\ [NoImport EXCEPT !.pc = pc, !.people = people] \in ImportSet
             /\ [NoImport EXCEPT !.pc = pc, !.excel = excel, !.people = people] \in ImportSet
             /\ [import EXCEPT !.pc = pc, !.people = people] \in ImportSet
  BY <1>0, NoImportOK DEF ImportSet
<1>6. \A u \in UserIds, g \in GroupIds \cup {NoTeam}, prev, examined \in BOOLEAN, r \in SUBSET Nat :
         [user_id |-> u, group |-> g, prev |-> prev, assessed |-> examined, results |-> r]
         \in Participant
  BY DEF Participant
<1>7. \A u, S : (u \in S) \in BOOLEAN
  BY SMT
<1>8. FALSE \in BOOLEAN /\ NoTeam \in GroupIds \cup {NoTeam}
  OBVIOUS
<1>2. CASE StartImport
  <2> DEFINE people == {[user_id |-> u, group |-> NoTeam, prev |-> u \in course.prev,
                         assessed |-> FALSE, results |-> course.results[u]] : u \in UserIds}
  <2>1. people \in SUBSET Participant
    <3>1. ASSUME NEW u \in UserIds
          PROVE  [user_id |-> u, group |-> NoTeam, prev |-> u \in course.prev,
                  assessed |-> FALSE, results |-> course.results[u]] \in Participant
      BY <1>0, <1>6, <1>7, <1>8
    <3> QED BY <3>1, Zenon
  <2> HIDE DEF people
  <2>2. import' \in ImportSet
    BY <1>1, <1>2, <2>1 DEF StartImport, people
  <2> QED BY <1>0, <1>2, <2>2, SameTypes DEF ImportInv, StartImport
<1>3. CASE StartExcel
  <2> DEFINE people == {[user_id |-> u, group |-> course.group[u], prev |-> u \in course.prev,
                         assessed |-> FALSE, results |-> course.results[u]] : u \in UserIds}
  <2>1. people \in SUBSET Participant
    <3>1. ASSUME NEW u \in UserIds
          PROVE  [user_id |-> u, group |-> course.group[u], prev |-> u \in course.prev,
                  assessed |-> FALSE, results |-> course.results[u]] \in Participant
      <4>1. course.results[u] \in SUBSET Nat /\ course.group[u] \in GroupIds \cup {NoTeam}
        BY <1>0
      <4> QED BY <1>6, <1>7, <1>8, <4>1, Zenon
    <3> QED BY <3>1, Zenon
  <2> HIDE DEF people
  <2>2. import' \in ImportSet
    BY <1>1, <1>3, <2>1 DEF StartExcel, people
  <2> QED BY <1>0, <1>3, <2>2, SameTypes DEF ImportInv, StartExcel
<1>4. CASE ReadTeams
  <2> DEFINE people == {[p EXCEPT !.group = course.group[p.user_id]] : p \in import.people}
  <2>1. people \in SUBSET Participant
    BY <1>0 DEF Participant, ImportSet
  <2> HIDE DEF people
  <2>2. import' \in ImportSet
    BY <1>0, <1>1, <1>4, <2>1 DEF ReadTeams, people
  <2> QED BY <1>0, <1>4, <2>2, SameTypes DEF ImportInv, ReadTeams
<1>5. CASE ReadAssessments
  <2> DEFINE people == {[p EXCEPT !.assessed = p.user_id \in
                                passed_assessment_user_ids(course.assessments)] : p \in import.people}
  <2>1. people \in SUBSET Participant
    <3>1. \A p \in Participant, e \in BOOLEAN : [p EXCEPT !.assessed = e] \in Participant
      BY DEF Participant
    <3>2. \A p \in import.people : p \in Participant
      BY <1>0 DEF ImportSet
    <3>3. ASSUME NEW p \in import.people
          PROVE  [p EXCEPT !.assessed = p.user_id \in
                      passed_assessment_user_ids(course.assessments)] \in Participant
      BY <1>7, <3>1, <3>2
    <3> QED BY <3>3, Zenon
  <2> HIDE DEF people
  <2>2. import' \in ImportSet
    BY <1>0, <1>1, <1>5, <2>1 DEF ReadAssessments, people
  <2> QED BY <1>0, <1>5, <2>2, SameTypes DEF ImportInv, ReadAssessments
<1> QED BY <1>2, <1>3, <1>4, <1>5

LEMMA CommitType == ASSUME ImportInv, CommitStudents \/ CommitGroups PROVE ImportInv'
<1>0. db \in DB /\ import \in ImportSet /\ TypeInv /\ import.people \in SUBSET Participant
  BY DEF ImportInv, TypeInv, AttTypeOK, SolveTypeOK, ImportSet
<1>1. build_groups(import.people) \in SUBSET GroupIds
  BY <1>0, StudentsType DEF build_groups
<1>2. db' \in DB
  BY <1>0, <1>1, StudentsType, GroupsType DEF CommitStudents, CommitGroups
<1>3. import' \in ImportSet
  BY <1>0 DEF CommitStudents, CommitGroups, ImportSet
<1> QED BY <1>0, <1>2, <1>3, TablesFrame DEF ImportInv, CommitStudents, CommitGroups

LEMMA BesideType ==
    ASSUME ImportInv, TypeInv',
           import' = [import EXCEPT !.steady = @ /\ (Importing("idle") \/ course' = course)]
    PROVE  ImportInv'
  BY DEF ImportInv, ImportSet

LEMMA ImportNextType == ASSUME ImportInv, [ImportNext]_importVars PROVE ImportInv'
<1>0. TypeInv
  BY DEF ImportInv
<1>1. CASE UNCHANGED importVars
  BY <1>0, <1>1, SameTypes DEF importVars, ImportInv
<1>2. CASE ImportEnds
  BY <1>0, <1>2, NoImportOK, SameTypes DEF ImportEnds, ImportInv
<1>3. CASE StartImport \/ StartExcel \/ ImportStep
  BY <1>2, <1>3, ReadingType, CommitType DEF ImportStep
<1>4. CASE Beside(SyncNext)
  BY <1>0, <1>4, SyncNextType, BesideType DEF Beside
<1>5. CASE Beside(\E u \in UserIds, points \in Points : EnterResult(u, points))
  BY <1>0, <1>5, LecturerType, BesideType DEF Beside
<1>6. CASE Beside(\E u \in UserIds, g \in GroupIds \cup {NoTeam} : MoveStudent(u, g))
  BY <1>0, <1>6, LecturerType, BesideType DEF Beside
<1> QED BY <1>1, <1>3, <1>4, <1>5, <1>6 DEF ImportNext

LEMMA ImportInitType == ImportInit => ImportInv
<1> SUFFICES ASSUME ImportInit PROVE ImportInv
  OBVIOUS
<1>1. AttTypeOK
  BY IdleOK, IdsAssumption, NoPostOK, AttTypes
     DEF ImportInit, SyncInit, AttInit, SolveInit, SolveTypeOK
<1>2. SyncTypeOK
  BY CoursesAssumption, NoSyncOK DEF ImportInit, SyncInit, SyncTypeOK, SyncOK, Syncing
<1>3. IsFiniteSet(course.assessments) /\ import \in ImportSet
  BY CoursesAssumption, NoImportOK DEF ImportInit, SyncInit
<1> QED BY <1>1, <1>2, <1>3 DEF ImportInv, TypeInv

LEMMA ImportInvariant == ImportSpec => []ImportInv
  BY ImportInitType, ImportNextType, PTL DEF ImportSpec

\* The tables, the course and everybody who works on them keep their shape:
\* every row an import commits names a group, every request a transfer makes is
\* of users and assessments there are.
THEOREM CourseTypeCorrect == ImportSpec => []CourseTypeOK
  BY ImportInvariant, ImportTypes, PTL
-----------------------------------------------------------------------------
(* The report and the course.                                              *)

AssessedUsers == {a.user : a \in course.assessments}

\* Whoever a transfer reports, and whose assessment it is about to patch, is
\* among S.
Backed(s, S) ==
    ~s.dry =>
        /\ s.created \subseteq S /\ s.updated \subseteq S /\ s.skipped \subseteq S
        /\ \A k \in s.patches : k.user \in S
        /\ s.pc = "request" => \A k \in s.request.write.patch : k.user \in S

\* Whom a transfer is about to assess is not among S, and it posts once.
Fresh(s, S) ==
    /\ s.pc = "write" => s.creates \cap S = {}
    /\ s.pc = "request" =>
          /\ s.creates \cap S = {} /\ s.request.write.create \cap S = {}
          /\ s.creates = {} \/ s.request.write.create = {}

Alone == \A p, q \in Syncs : Syncing(p, "idle") \/ Syncing(q, "idle") \/ p = q

CalmInv ==
    calm => /\ course.late = << >> /\ OnceEach(course)
            /\ Alone
            /\ \A p \in Syncs : Fresh(sync[p], AssessedUsers)

TransferInv ==
    /\ \A p \in Syncs : Backed(sync[p], AssessedUsers)
    /\ CalmInv

LEMMA TransferMeans == TransferInv => ReportedIsStored /\ NothingTwice
  BY DEF TransferInv, CalmInv, Backed, AssessedUsers, ReportedIsStored, NothingTwice, AssessmentsOf

LEMMA MoreBacked == ASSUME NEW s, NEW S, NEW T, S \subseteq T, Backed(s, S) PROVE Backed(s, T)
  BY DEF Backed

\* A step of one transfer that leaves the course alone.
LEMMA OwnStep ==
    ASSUME TypeInv, TransferInv, NEW p \in Syncs, NEW t, Continues(p, t), UNCHANGED <<course, calm>>,
           Backed(t, AssessedUsers), calm => Fresh(t, AssessedUsers),
           t.pc = "idle" \/ ~Syncing(p, "idle")
    PROVE  TransferInv'
<1>1. sync' = [sync EXCEPT ![p] = t] /\ sync \in [Syncs -> SyncSet]
  BY DEF Continues, TypeInv, SyncTypeOK
<1>2. AssessedUsers' = AssessedUsers
  BY DEF AssessedUsers
<1>3. \A q \in Syncs : sync'[q] = IF q = p THEN t ELSE sync[q]
  BY <1>1
<1>4. \A q \in Syncs : Backed(sync'[q], AssessedUsers)
  BY <1>3 DEF TransferInv
<1>5. calm => \A q \in Syncs : Fresh(sync'[q], AssessedUsers)
  BY <1>3 DEF TransferInv, CalmInv
<1>6. Alone => Alone'
  BY <1>3 DEF Alone, Syncing
<1> QED BY <1>2, <1>4, <1>5, <1>6 DEF TransferInv, CalmInv

LEMMA IdleIsSafe == \A S : Backed(NoSync, S) /\ Fresh(NoSync, S)
  BY DEF Backed, Fresh, NoSync

LEMMA StartsSafely ==
    ASSUME TypeInv, TransferInv, NEW p \in Syncs, NEW r, NEW f, NEW d, StartSync(p, r, f, d)
    PROVE  TransferInv'
<1> DEFINE t == [NoSync EXCEPT !.pc = "students", !.round = r, !.force = f, !.dry = d]
<1>1. sync' = [sync EXCEPT ![p] = t] /\ sync \in [Syncs -> SyncSet] /\ UNCHANGED course
  BY DEF Continues, TypeInv, SyncTypeOK, StartSync
<1>2. AssessedUsers' = AssessedUsers
  BY <1>1 DEF AssessedUsers
<1>3. \A S : Backed(t, S) /\ Fresh(t, S)
  BY DEF Backed, Fresh, NoSync
<1> HIDE DEF t
<1>4. \A q \in Syncs : sync'[q] = IF q = p THEN t ELSE sync[q]
  BY <1>1
<1>5. \A q \in Syncs : Backed(sync'[q], AssessedUsers)
  BY <1>3, <1>4 DEF TransferInv
<1>6. calm' => calm /\ \A q \in Syncs : Syncing(q, "idle")
  BY DEF StartSync
<1>7. calm' => Alone' /\ \A q \in Syncs : Fresh(sync'[q], AssessedUsers)
  BY <1>3, <1>4, <1>6 DEF TransferInv, CalmInv, Alone, Syncing
<1> QED BY <1>1, <1>2, <1>5, <1>6, <1>7 DEF TransferInv, CalmInv

LEMMA ReadsSafely ==
    ASSUME TypeInv, TransferInv, NEW p \in Syncs, ReadMembers(p) \/ ReadMarks(p) \/ ReadStatuses(p)
    PROVE  TransferInv'
<1>1. sync[p] \in SyncSet /\ Backed(sync[p], AssessedUsers) /\ sync[p].pc # "idle"
      /\ UNCHANGED <<course, calm>>
  BY SyncFacts DEF TransferInv, ReadMembers, ReadMarks, ReadStatuses, Syncing
<1>2. ASSUME NEW t, Continues(p, t), t.pc \notin {"write", "request"}, t.dry = sync[p].dry,
             t.created = sync[p].created, t.updated = sync[p].updated,
             t.skipped = sync[p].skipped, t.patches = sync[p].patches
      PROVE  TransferInv'
  <2>1. Backed(t, AssessedUsers) /\ Fresh(t, AssessedUsers)
    BY <1>1, <1>2 DEF Backed, Fresh
  <2> QED BY <1>1, <1>2, <2>1, OwnStep DEF Syncing
<1>3. CASE ReadMembers(p)
  <2>1. PICK m : Continues(p, [sync[p] EXCEPT !.pc = "marks", !.members = m])
    BY <1>3 DEF ReadMembers
  <2> QED BY <1>1, <1>2, <2>1 DEF SyncSet
<1>4. CASE ReadMarks(p)
  <2>1. PICK m, g : Continues(p, [sync[p] EXCEPT !.pc = "statuses", !.marks = m, !.marked = g])
    BY <1>4 DEF ReadMarks
  <2> QED BY <1>1, <1>2, <2>1 DEF SyncSet
<1>5. CASE ReadStatuses(p)
  <2>1. PICK g : Continues(p, [sync[p] EXCEPT !.pc = "existing", !.members = {}, !.marks = {},
                                              !.marked = {}, !.graded = g])
    BY <1>5 DEF ReadStatuses
  <2> QED BY <1>1, <1>2, <2>1 DEF SyncSet
<1> QED BY <1>3, <1>4, <1>5

\* Nobody is collected who has an assessment, nobody skipped or patched who has none.
LEMMA SortsSafely ==
    ASSUME TypeInv, TransferInv, NEW p \in Syncs, ReadExisting(p) PROVE TransferInv'
<1> DEFINE s == sync[p]
<1>1. PICK keys \in SUBSET AssessmentKeys :
         /\ \A k \in keys : Assessed(k.user)
         /\ \A u : Assessed(u) => \E k \in keys : k.user = u
         /\ Continues(p, Sorted(s, keys))
  BY ReadExistingSorts
<1>2. \A u : u \in {k.user : k \in keys} <=> u \in AssessedUsers
  BY <1>1 DEF Assessed, AssessedUsers, AssessmentsOf
<1>3. /\ s \in SyncSet /\ Backed(s, AssessedUsers) /\ s.pc = "existing"
      /\ UNCHANGED <<course, calm>>
  BY SyncFacts DEF TransferInv, ReadExisting, Syncing
<1> DEFINE known   == s.graded \cap {k.user : k \in keys}
           t == Sorted(s, keys)
<1>4. /\ t.pc = "write" /\ t.dry = s.dry
      /\ t.skipped = IF s.force THEN {} ELSE known
      /\ ~s.dry => t.updated = {} /\ t.created = {}
      /\ t.patches = IF s.force /\ ~s.dry THEN {k \in keys : k.user \in known} ELSE {}
      /\ t.creates = IF s.dry THEN {} ELSE s.graded \ known
  BY <1>3 DEF Sorted, SyncSet
<1>5. known = s.graded \cap AssessedUsers
  BY <1>2
<1> HIDE DEF t, known
<1>6. Backed(t, AssessedUsers) /\ Fresh(t, AssessedUsers)
  BY <1>4, <1>5 DEF Backed, Fresh
<1> QED BY <1>1, <1>3, <1>6, OwnStep DEF Syncing, t

LEMMA BeginsSafely ==
    ASSUME TypeInv, TransferInv, NEW p \in Syncs,
           BeginBulk(p) \/ \E key \in sync[p].patches : BeginPatch(p, key)
    PROVE  TransferInv'
<1> DEFINE s == sync[p]
<1>1. /\ s \in SyncSet /\ Backed(s, AssessedUsers) /\ s.pc = "write"
      /\ calm => Fresh(s, AssessedUsers)
      /\ UNCHANGED <<course, calm>>
  BY SyncFacts DEF TransferInv, CalmInv, BeginBulk, BeginPatch, Syncing
<1>2. ASSUME NEW w, NEW t, Continues(p, t), t.pc = "request", t.dry = s.dry,
             t.created = s.created, t.updated = s.updated, t.skipped = s.skipped,
             t.request.write = w, t.patches \subseteq s.patches,
             \/ w.create = s.creates /\ w.patch = {} /\ t.creates = {}
             \/ \E key \in s.patches : w.create = {} /\ w.patch = {key} /\ t.creates = s.creates
      PROVE  TransferInv'
  <2>1. Backed(t, AssessedUsers)
    BY <1>1, <1>2 DEF Backed
  <2>2. calm => Fresh(t, AssessedUsers)
    BY <1>1, <1>2 DEF Fresh
  <2> QED BY <1>1, <1>2, <2>1, <2>2, OwnStep DEF Syncing
<1>3. CASE BeginBulk(p)
  <2> DEFINE w == [create |-> s.creates, patch |-> {}]
  <2>1. w \in Writes
    BY <1>1 DEF SyncSet, Writes
  <2>2. NewRequest(w).write = w /\ w.create = s.creates /\ w.patch = {}
    BY <2>1, NewRequestOK
  <2> HIDE DEF w
  <2>3. Continues(p, [s EXCEPT !.pc = "request", !.creates = {}, !.request = NewRequest(w)])
    BY <1>3 DEF BeginBulk, w
  <2> DEFINE t == [s EXCEPT !.pc = "request", !.creates = {}, !.request = NewRequest(w)]
  <2>4. /\ t.pc = "request" /\ t.dry = s.dry /\ t.created = s.created
        /\ t.updated = s.updated /\ t.skipped = s.skipped /\ t.request.write = w
        /\ t.patches \subseteq s.patches /\ t.creates = {}
    BY <1>1, <2>2 DEF SyncSet
  <2> HIDE DEF t
  <2> QED BY <1>2, <2>2, <2>3, <2>4 DEF t
<1>4. ASSUME NEW key \in sync[p].patches, BeginPatch(p, key) PROVE TransferInv'
  <2> DEFINE w == [create |-> {}, patch |-> {key}]
  <2>1. w \in Writes
    BY <1>1 DEF SyncSet, Writes
  <2>2. NewRequest(w).write = w /\ w.create = {} /\ w.patch = {key}
    BY <2>1, NewRequestOK
  <2> HIDE DEF w
  <2>3. Continues(p, [s EXCEPT !.pc = "request", !.patches = @ \ {key}, !.request = NewRequest(w)])
    BY <1>4 DEF BeginPatch, w
  <2> QED BY <1>1, <1>2, <2>2, <2>3 DEF SyncSet
<1> QED BY <1>3, <1>4

LEMMA AttemptsSafely ==
    ASSUME TypeInv, TransferInv, NEW p \in Syncs, NEW answer \in Answers,
           NEW effect \in Effects(answer), Attempt(p, answer, effect)
    PROVE  TransferInv'
<1> DEFINE s == sync[p]
           w == s.request.write
           t == Settled(s, AfterAnswer(s.request, answer))
<1>1. /\ s \in SyncSet /\ SyncOK(s) /\ Backed(s, AssessedUsers) /\ s.pc = "request"
      /\ calm => Fresh(s, AssessedUsers)
      /\ sync' = [sync EXCEPT ![p] = t] /\ sync \in [Syncs -> SyncSet]
  BY SyncFacts DEF TransferInv, CalmInv, Attempt, Syncing, Continues, TypeInv, SyncTypeOK
<1>2. Outcome(s, t, answer)
  BY <1>1, SettledOK
<1> HIDE DEF t
<1>3. \A u : u \in AssessedUsers' <=> u \in AssessedUsers \/ (effect = "now" /\ u \in w.create)
  BY AttemptFacts DEF Assessed, AssessedUsers, AssessmentsOf
<1>4. \A q \in Syncs : sync'[q] = IF q = p THEN t ELSE sync[q]
  BY <1>1
<1>5. Backed(t, AssessedUsers')
  <2>1. answer = "done" => effect = "now"
    BY AttemptFacts
  <2> QED BY <1>1, <1>2, <1>3, <2>1 DEF Backed, Outcome
<1>6. \A q \in Syncs : Backed(sync'[q], AssessedUsers')
  BY <1>3, <1>4, <1>5, MoreBacked DEF TransferInv
<1>7. ASSUME calm' PROVE course'.late = << >> /\ OnceEach(course')
  <2>1. calm /\ (effect # "never" => answer = "done" /\ effect = "now")
    BY <1>7, AttemptFacts
  <2>2. CASE effect = "never"
    BY <2>1, <2>2, AttemptFacts DEF TransferInv, CalmInv
  <2>3. CASE effect = "now"
    <3>1. \A u \in w.create : AssessmentsOf(course, u) = {}
      BY <1>1, <2>1 DEF Fresh, AssessedUsers, AssessmentsOf
    <3>2. course' = Write(course, w) /\ w \in Writes
      BY <2>3, AttemptFacts
    <3>3. course \in CourseSet /\ IsFiniteSet(course.assessments)
      BY SyncFacts DEF TypeInv
    <3> QED BY <2>1, <3>1, <3>2, <3>3, WriteType DEF TransferInv, CalmInv
  <2> QED BY <2>1, <2>2, <2>3
<1>8. ASSUME calm' PROVE Alone' /\ \A q \in Syncs : Fresh(sync'[q], AssessedUsers')
  <2>1. calm /\ (effect # "never" => answer = "done")
    BY <1>8, AttemptFacts
  <2>2. \A q \in Syncs : q # p => sync[q].pc = "idle"
    BY <1>1, <2>1 DEF TransferInv, CalmInv, Alone, Syncing
  <2>3. Alone'
    BY <1>4, <2>2 DEF Alone, Syncing
  <2>4. Fresh(t, AssessedUsers')
    BY <1>1, <1>2, <1>3, <2>1 DEF Fresh, Outcome
  <2>5. \A q \in Syncs : q # p => Fresh(sync[q], AssessedUsers')
    BY <2>2 DEF Fresh
  <2> QED BY <1>4, <2>3, <2>4, <2>5
<1> QED BY <1>6, <1>7, <1>8 DEF TransferInv, CalmInv

LEMMA EndsSafely ==
    ASSUME TypeInv, TransferInv, NEW p \in Syncs, Report(p) \/ SyncCrash(p) PROVE TransferInv'
<1>1. Continues(p, NoSync) /\ UNCHANGED <<course, calm>> /\ NoSync.pc = "idle"
  BY DEF Report, SyncCrash, NoSync
<1> QED BY <1>1, IdleIsSafe, OwnStep

\* A step of nobody's transfer that adds no assessment while it is calm.
LEMMA OthersStep ==
    ASSUME TransferInv, UNCHANGED <<sync, calm>>, AssessedUsers \subseteq AssessedUsers',
           calm => /\ AssessedUsers' = AssessedUsers
                   /\ course'.late = << >> /\ OnceEach(course')
    PROVE  TransferInv'
<1>1. \A p \in Syncs : Backed(sync[p], AssessedUsers')
  BY MoreBacked DEF TransferInv
<1>2. calm => Alone' /\ \A p \in Syncs : Fresh(sync[p], AssessedUsers')
  BY DEF TransferInv, CalmInv, Alone, Syncing
<1> QED BY <1>1, <1>2 DEF TransferInv, CalmInv

LEMMA SameCourse == ASSUME TransferInv, UNCHANGED <<course, sync, calm>> PROVE TransferInv'
<1>1. AssessedUsers' = AssessedUsers
  BY DEF AssessedUsers
<1> QED BY <1>1, OthersStep DEF TransferInv, CalmInv

LEMMA OthersSafely ==
    ASSUME TypeInv, TransferInv,
           \/ \E i \in DOMAIN course.late : Land(i)
           \/ \E a \in course.assessments : Release(a)
           \/ \E u \in UserIds, points \in Points : EnterResult(u, points)
           \/ \E u \in UserIds, g \in GroupIds \cup {NoTeam} : MoveStudent(u, g)
    PROVE  TransferInv'
<1>1. ASSUME NEW i \in DOMAIN course.late, Land(i) PROVE TransferInv'
  <2>1. ~calm
    <3>1. calm => course.late = << >>
      BY DEF TransferInv, CalmInv
    <3>2. DOMAIN << >> = {}
      OBVIOUS
    <3> QED BY <3>1, <3>2
  <2>2. course \in CourseSet /\ IsFiniteSet(course.assessments)
    BY DEF TypeInv, SyncTypeOK
  <2>3. \A u : AssessmentsOf(course, u) # {} => AssessmentsOf(course', u) # {}
    <3> DEFINE w == course.late[i]
    <3>1. w \in Writes /\ course'.assessments = Write(course, w).assessments
      BY <1>1, LandFacts
    <3> HIDE DEF w
    <3>2. \A u : AssessmentsOf(course, u) # {} => AssessmentsOf(Write(course, w), u) # {}
      BY <2>2, <3>1, WriteType
    <3> QED BY <3>1, <3>2 DEF AssessmentsOf
  <2>4. AssessedUsers \subseteq AssessedUsers'
    BY <2>3 DEF AssessedUsers, AssessmentsOf
  <2> QED BY <1>1, <2>1, <2>4, OthersStep DEF Land
<1>2. ASSUME NEW a, Release(a) PROVE TransferInv'
  <2>1. AssessedUsers' = AssessedUsers
    BY <1>2, ReleaseFacts DEF AssessedUsers, AssessmentsOf
  <2> QED BY <1>2, <2>1, ReleaseFacts, OthersStep DEF Release, TransferInv, CalmInv
<1>3. CASE \/ \E u \in UserIds, points \in Points : EnterResult(u, points)
           \/ \E u \in UserIds, g \in GroupIds \cup {NoTeam} : MoveStudent(u, g)
  <2>1. course'.assessments = course.assessments /\ course'.late = course.late
    BY <1>3, LecturerFacts
  <2>2. AssessedUsers' = AssessedUsers /\ (OnceEach(course) <=> OnceEach(course'))
    BY <2>1 DEF AssessedUsers, OnceEach
  <2>3. UNCHANGED <<sync, calm>>
    BY <1>3 DEF EnterResult, MoveStudent
  <2> QED BY <2>1, <2>2, <2>3, OthersStep DEF TransferInv, CalmInv
<1> QED BY <1>1, <1>2, <1>3

LEMMA TransferStep ==
    ASSUME TypeInv, TransferInv, [ImportNext]_importVars PROVE TransferInv'
<1>1. CASE UNCHANGED <<course, sync, calm>>
  BY <1>1, SameCourse
<1>2. ASSUME NEW p \in Syncs, SyncStep(p) \/ SyncCrash(p) PROVE TransferInv'
  BY <1>2, ReadsSafely, SortsSafely, BeginsSafely, AttemptsSafely, EndsSafely DEF SyncStep
<1>3. ASSUME SyncNext PROVE TransferInv'
  BY <1>1, <1>2, <1>3, StartsSafely, OthersSafely DEF SyncNext, Tutors, Planners, Planner
<1>4. CASE StartImport \/ StartExcel \/ ImportStep \/ UNCHANGED importVars
  BY <1>1, <1>4 DEF StartImport, StartExcel, ImportStep, ReadTeams, ReadAssessments,
     CommitStudents, CommitGroups, ImportEnds, syncVars, importVars
<1> QED BY <1>3, <1>4, OthersSafely DEF ImportNext, Beside

LEMMA TransferInvariant == ImportSpec => []TransferInv
<1>1. ImportInit => TransferInv
  <2> SUFFICES ASSUME ImportInit PROVE TransferInv
    OBVIOUS
  <2>1. \A p \in Syncs : sync[p] = NoSync /\ Syncing(p, "idle")
    BY DEF ImportInit, SyncInit, NoSync, Syncing
  <2> QED BY <2>1, IdleIsSafe, CoursesAssumption
          DEF ImportInit, SyncInit, TransferInv, CalmInv, Alone
<1>2. ImportInv => TypeInv
  BY DEF ImportInv
<1> QED BY <1>1, <1>2, TransferStep, ImportInvariant, PTL DEF ImportSpec

\* The report of a transfer is never ahead of the course, for any number of
\* transfers, imports and tutors, and however the course system answers.
THEOREM ReportsAreStored == ImportSpec => []ReportedIsStored
  BY TransferInvariant, TransferMeans, PTL

\* "Idempotent per user", as long as transfers follow one another and no write
\* is applied unknown to the client.
THEOREM AssessedOnce == ImportSpec => []NothingTwice
  BY TransferInvariant, TransferMeans, PTL
-----------------------------------------------------------------------------
(* What an import leaves in the tables.                                    *)

PassedNow == passed_assessment_user_ids(course.assessments)

\* The row of a participant.
StudentRow(p) ==
    [user_id |-> p.user_id, group |-> resolve_group_id(p), prev |-> p.prev,
     assessed |-> p.assessed,
     points |-> IF p.results = {} THEN 0 ELSE CHOOSE x \in p.results : TRUE]

\* How far the import is: everybody is read, what is read is what the course
\* says if it stands still, what is read is stored.
EverybodyRead ==
    import.pc # "idle" => \A u \in UserIds : \E p \in import.people : p.user_id = u

ReadAsIs ==
    ~import.excel /\ import.steady /\ import.pc # "idle" =>
        /\ \A p \in import.people :
              /\ p.prev <=> p.user_id \in course.prev
              /\ p.results = course.results[p.user_id]
        /\ import.pc \in {"students", "rows", "report"} =>
              \A p \in import.people : p.assessed <=> p.user_id \in PassedNow

Stored ==
    /\ import.pc \in {"rows", "report"} =>
          /\ \A s \in db.students : \E p \in import.people : s = StudentRow(p)
          /\ \A p \in import.people : StudentRow(p) \in db.students
    /\ import.pc = "report" => build_groups(import.people) \subseteq db.groups

StoredInv == EverybodyRead /\ ReadAsIs /\ Stored /\ OneResult(course)

LEMMA StoredMeans == ASSUME ImportInv, StoredInv PROVE ImportIsCurrent /\ ImportedAreGrouped
<1>0. /\ course \in CourseSet /\ import.people \in SUBSET Participant /\ db \in DB
  BY DEF ImportInv, TypeInv, SyncTypeOK, AttTypeOK, SolveTypeOK, ImportSet
<1>1. ImportedAreGrouped
  <2> SUFFICES ASSUME Importing("report"), NEW p \in import.people
               PROVE  \E s \in db.students : s.user_id = p.user_id /\ s.group \in db.groups
    BY DEF ImportedAreGrouped
  <2>1. StudentRow(p) \in db.students /\ resolve_group_id(p) \in db.groups
    BY DEF StoredInv, Stored, Importing, build_groups
  <2> QED BY <2>1 DEF StudentRow
<1>2. ImportIsCurrent
  <2> SUFFICES ASSUME Current, NEW u \in UserIds, course.results[u] # {}
               PROVE  StoredDue(u) <=> TrulyDue(u)
    BY DEF ImportIsCurrent
  <2>1. PICK x \in course.results[u] : course.results[u] = {x}
    BY DEF StoredInv, OneResult
  <2>2. TrulyDue(u) <=> u \notin course.prev /\ u \notin PassedNow /\ x < Threshold
    <3>1. Examined(u) <=> u \in PassedNow
      BY DEF Examined, AssessmentsOf, PassedNow, passed_assessment_user_ids
    <3> QED BY <2>1, <3>1 DEF TrulyDue, is_due
  <2>3. \A p \in import.people : p.user_id = u =>
           (student_is_due(StudentRow(p), Threshold) <=>
               u \notin course.prev /\ u \notin PassedNow /\ x < Threshold)
    <3> SUFFICES ASSUME NEW p \in import.people, p.user_id = u
                 PROVE  student_is_due(StudentRow(p), Threshold) <=>
                            u \notin course.prev /\ u \notin PassedNow /\ x < Threshold
      OBVIOUS
    <3>1. /\ p.prev <=> u \in course.prev
          /\ p.assessed <=> u \in PassedNow
          /\ p.results = {x}
      BY <2>1 DEF Current, Importing, StoredInv, ReadAsIs
    <3>2. StudentRow(p).points = x
      BY <3>1 DEF StudentRow
    <3>3. student_is_due(StudentRow(p), Threshold) <=>
             ~p.prev /\ ~p.assessed /\ StudentRow(p).points < Threshold
      BY DEF student_is_due, is_due, student_to_participant, StudentRow
    <3> QED BY <3>1, <3>2, <3>3
  <2>4. \A p : StudentRow(p).user_id = p.user_id
    BY DEF StudentRow
  <2>5. /\ \E p \in import.people : p.user_id = u
        /\ \A s \in db.students : \E p \in import.people : s = StudentRow(p)
        /\ \A p \in import.people : StudentRow(p) \in db.students
    BY DEF Current, Importing, StoredInv, EverybodyRead, Stored
  <2> QED BY <2>2, <2>3, <2>4, <2>5 DEF StoredDue
<1> QED BY <1>1, <1>2

\* Only an import writes students and groups.
LEMMA OthersKeep ==
    ASSUME TypeInv, \/ SyncNext
                    \/ \E u \in UserIds, points \in Points : EnterResult(u, points)
                    \/ \E u \in UserIds, g \in GroupIds \cup {NoTeam} : MoveStudent(u, g)
    PROVE  db'.students = db.students /\ db'.groups = db.groups
<1>0. db \in DB
  BY DEF TypeInv, AttTypeOK, SolveTypeOK
<1>1. ASSUME NEW u, MarkMember(u) PROVE db'.students = db.students /\ db'.groups = db.groups
  BY <1>0, <1>1 DEF MarkMember, upsert_member_attendance, DB, Database
<1>2. CASE RollUp
  BY <1>0, <1>2 DEF RollUp, update_presentation_status, DB, Database
<1>3. CASE UNCHANGED db
  BY <1>3
<1>4. CASE Tutors
  BY <1>1, <1>2, <1>3, <1>4
     DEF Tutors, TutorForm, TutorSubmit, PostStep, PostCrash, BeginGroup, LogMark, Answered200
<1>5. CASE Planners
  <2>1. CASE AttEdit
    BY <1>0, <2>1, EditKeeps DEF AttEdit, Edit
  <2>2. CASE \E p \in Procs : SolveStep(p) \/ Crash(p) \/ \E r \in db.rounds : Start(p, r)
    BY <1>0, <2>2, SolveSameParents DEF SameParents
  <2> QED BY <1>5, <2>1, <2>2 DEF Planners, Planner, Solving, StartSolve
<1>6. ASSUME NEW p \in Syncs, SyncStep(p) \/ SyncCrash(p) PROVE UNCHANGED db
  BY <1>6 DEF SyncStep, SyncCrash, ReadMembers, ReadMarks, ReadStatuses, ReadExisting, BeginPatch,
     BeginBulk, Attempt, Report, attVars, solveVars
<1>7. ASSUME \/ \E p \in Syncs : \E r, f, d : StartSync(p, r, f, d)
             \/ \E i : Land(i)
             \/ \E a : Release(a)
             \/ \E u, points : EnterResult(u, points)
             \/ \E u, g : MoveStudent(u, g)
      PROVE  UNCHANGED db
  BY <1>7 DEF StartSync, Land, Release, EnterResult, MoveStudent, attVars, solveVars
<1> QED BY <1>3, <1>4, <1>5, <1>6, <1>7 DEF SyncNext

LEMMA OneResultKept ==
    ASSUME TypeInv, OneResult(course),
           \/ SyncNext
           \/ \E u \in UserIds, points \in Points : EnterResult(u, points)
           \/ \E u \in UserIds, g \in GroupIds \cup {NoTeam} : MoveStudent(u, g)
    PROVE  OneResult(course')
<1>0. course \in CourseSet
  BY DEF TypeInv, SyncTypeOK
<1>1. CASE course'.results = course.results
  BY <1>1 DEF OneResult
<1>2. ASSUME NEW u \in UserIds, NEW points, EnterResult(u, points) PROVE OneResult(course')
  BY <1>0, <1>2 DEF EnterResult, OneResult, CourseSet
<1>3. \A w : Write(course, w).results = course.results
  BY <1>0 DEF Write, CourseSet
<1>4. ASSUME NEW p \in Syncs, NEW answer, NEW effect, Attempt(p, answer, effect),
             effect \in {"now", "late", "never"}
      PROVE  course'.results = course.results
  BY <1>0, <1>3, <1>4 DEF Attempt, CourseSet
<1>5. ASSUME NEW i, Land(i) PROVE course'.results = course.results
  <2>1. Write(course, course.late[i]).results = course.results
    BY <1>3
  <2>2. course' = [Write(course, course.late[i]) EXCEPT
                      !.late = RemoveAt(Write(course, course.late[i]).late, i)]
    BY <1>5 DEF Land
  <2>3. Write(course, course.late[i]) = [course EXCEPT !.assessments =
                                            Write(course, course.late[i]).assessments]
    BY <1>0 DEF Write, CourseSet
  <2> QED BY <1>0, <2>1, <2>2, <2>3 DEF CourseSet
<1>6. ASSUME NEW p \in Syncs, SyncStep(p) \/ SyncCrash(p) PROVE course'.results = course.results
  <2>1. \A answer \in Answers : Effects(answer) \subseteq {"now", "late", "never"}
    BY DEF Effects
  <2> QED BY <1>4, <1>6, <2>1 DEF SyncStep, SyncCrash, ReadMembers, ReadMarks, ReadStatuses,
             ReadExisting, BeginPatch, BeginBulk, Report
<1>7. ASSUME NEW a, Release(a) PROVE course'.results = course.results
  BY <1>0, <1>7 DEF Release, CourseSet
<1>8. ASSUME NEW u, NEW g, MoveStudent(u, g) PROVE course'.results = course.results
  BY <1>0, <1>8 DEF MoveStudent, CourseSet
<1>9. CASE Tutors \/ Planners \/ \E p \in Syncs : \E r, f, d : StartSync(p, r, f, d)
  BY <1>9 DEF Tutors, Planners, Planner, StartSync, OneResult
<1> QED BY <1>1, <1>2, <1>5, <1>6, <1>7, <1>8, <1>9 DEF SyncNext

\* Whoever works beside the import cannot make it wrong unnoticed.
LEMMA BesideStored ==
    ASSUME ImportInv, StoredInv, OneResult(course'),
           db'.students = db.students, db'.groups = db.groups,
           import' = [import EXCEPT !.steady = @ /\ (Importing("idle") \/ course' = course)]
    PROVE  StoredInv'
<1>1. import \in ImportSet
  BY DEF ImportInv
<1>2. /\ import'.pc = import.pc /\ import'.excel = import.excel /\ import'.people = import.people
      /\ import'.steady /\ import.pc # "idle" => import.steady /\ course' = course
  BY <1>1 DEF ImportSet, Importing
<1>3. EverybodyRead' /\ Stored'
  BY <1>2 DEF StoredInv, EverybodyRead, Stored
<1>4. ReadAsIs'
  BY <1>2 DEF StoredInv, ReadAsIs, PassedNow
<1> QED BY <1>3, <1>4 DEF StoredInv

LEMMA ReadingStored ==
    ASSUME ImportInv, StoredInv, StartImport \/ StartExcel \/ ReadTeams \/ ReadAssessments
    PROVE  StoredInv'
<1>0. /\ import \in ImportSet /\ import.people \in SUBSET Participant
      /\ UNCHANGED <<db, course>> /\ OneResult(course)
  BY DEF ImportInv, ImportSet, StartImport, StartExcel, ReadTeams, ReadAssessments, syncVars,
         attVars, solveVars, StoredInv
<1>1. ASSUME NEW people, import'.people = people, import'.pc \in {"groups", "assessments", "students"},
             \A u \in UserIds : \E p \in people : p.user_id = u,
             ~import'.excel /\ import'.steady =>
                 /\ \A p \in people : /\ p.prev <=> p.user_id \in course.prev
                                      /\ p.results = course.results[p.user_id]
                 /\ import'.pc = "students" =>
                       \A p \in people : p.assessed <=> p.user_id \in PassedNow
      PROVE  StoredInv'
  <2>1. EverybodyRead' /\ Stored'
    BY <1>1 DEF EverybodyRead, Stored
  <2>2. PassedNow' = PassedNow
    BY <1>0 DEF PassedNow
  <2>3. ReadAsIs'
    BY <1>0, <1>1, <2>2 DEF ReadAsIs
  <2> QED BY <1>0, <2>1, <2>3 DEF StoredInv
<1>2. CASE StartImport
  <2> DEFINE read(u) == [user_id |-> u, group |-> NoTeam, prev |-> u \in course.prev,
                         assessed |-> FALSE, results |-> course.results[u]]
             people == {read(u) : u \in UserIds}
  <2>1. import'.people = people /\ import'.pc = "groups"
    BY <1>2 DEF StartImport, NoImport
  <2>2. \A u : /\ read(u).user_id = u /\ (read(u).prev <=> u \in course.prev)
               /\ read(u).results = course.results[u]
    OBVIOUS
  <2> HIDE DEF read
  <2>3. \A u \in UserIds : \E p \in people : p.user_id = u
    BY <2>2
  <2>4. import'.steady => \A p \in people : /\ p.prev <=> p.user_id \in course.prev
                                          /\ p.results = course.results[p.user_id]
    BY <2>2
  <2> HIDE DEF people
  <2> QED BY <1>1, <2>1, <2>3, <2>4
<1>3. CASE StartExcel
  <2> DEFINE read(u) == [user_id |-> u, group |-> course.group[u], prev |-> u \in course.prev,
                         assessed |-> FALSE, results |-> course.results[u]]
             people == {read(u) : u \in UserIds}
  <2>1. import'.people = people /\ import'.pc = "students" /\ import'.excel
    BY <1>3 DEF StartExcel, NoImport
  <2>2. \A u : read(u).user_id = u
    OBVIOUS
  <2> HIDE DEF read
  <2> QED BY <1>1, <2>1, <2>2
<1>4. CASE ReadTeams
  <2> DEFINE read(p) == [p EXCEPT !.group = course.group[p.user_id]]
             people == {read(p) : p \in import.people}
  <2>1. /\ import'.people = people /\ import'.pc = "assessments"
        /\ import'.excel = import.excel /\ import'.steady = import.steady /\ import.pc = "groups"
    BY <1>0, <1>4 DEF ReadTeams, ImportSet, Importing
  <2>2. \A p \in import.people : /\ read(p).user_id = p.user_id /\ read(p).prev = p.prev
                                 /\ read(p).results = p.results
    BY <1>0 DEF Participant
  <2> HIDE DEF read
  <2>3. \A u \in UserIds : \E p \in people : p.user_id = u
    BY <2>1, <2>2 DEF StoredInv, EverybodyRead
  <2>4. import'.steady /\ ~import'.excel => \A p \in people : /\ p.prev <=> p.user_id \in course.prev
                                          /\ p.results = course.results[p.user_id]
    BY <2>1, <2>2 DEF StoredInv, ReadAsIs
  <2> HIDE DEF people
  <2> QED BY <1>1, <2>1, <2>3, <2>4
<1>5. CASE ReadAssessments
  <2> DEFINE read(p) == [p EXCEPT !.assessed = p.user_id \in PassedNow]
             people == {read(p) : p \in import.people}
  <2>1. /\ import'.people = people /\ import'.pc = "students"
        /\ import'.excel = import.excel /\ import'.steady = import.steady
        /\ import.pc = "assessments"
    BY <1>0, <1>5 DEF ReadAssessments, ImportSet, Importing, PassedNow
  <2>2. \A p \in import.people : /\ read(p).user_id = p.user_id /\ read(p).prev = p.prev
                                 /\ read(p).results = p.results
                                 /\ read(p).assessed <=> p.user_id \in PassedNow
    BY <1>0 DEF Participant
  <2> HIDE DEF read
  <2>3. \A u \in UserIds : \E p \in people : p.user_id = u
    BY <2>1, <2>2 DEF StoredInv, EverybodyRead
  <2>4. import'.steady /\ ~import'.excel => \A p \in people : /\ p.prev <=> p.user_id \in course.prev
                                          /\ p.results = course.results[p.user_id]
    BY <2>1, <2>2 DEF StoredInv, ReadAsIs
  <2>5. \A p \in people : p.assessed <=> p.user_id \in PassedNow
    BY <2>2
  <2> HIDE DEF people
  <2> QED BY <1>1, <2>1, <2>3, <2>4, <2>5
<1> QED BY <1>2, <1>3, <1>4, <1>5

LEMMA CommitStored ==
    ASSUME ImportInv, StoredInv, CommitStudents \/ CommitGroups PROVE StoredInv'
<1>0. /\ import \in ImportSet /\ import.people \in SUBSET Participant /\ db \in DB
      /\ UNCHANGED course
  BY DEF ImportInv, ImportSet, TypeInv, AttTypeOK, SolveTypeOK, CommitStudents, CommitGroups
<1>1. /\ import'.people = import.people /\ import'.excel = import.excel
      /\ import'.steady = import.steady
      /\ import.pc \in {"students", "rows"} /\ import'.pc \in {"rows", "report"}
      /\ import'.pc = "report" <=> import.pc = "rows"
  BY <1>0 DEF CommitStudents, CommitGroups, ImportSet, Importing
<1>2. EverybodyRead' /\ ReadAsIs' /\ OneResult(course')
  <2>1. PassedNow' = PassedNow
    BY <1>0 DEF PassedNow
  <2> QED BY <1>0, <1>1, <2>1 DEF StoredInv, EverybodyRead, ReadAsIs
<1>3. CASE CommitStudents
  <2>1. db'.students = {s \in db.students : s.user_id \notin {p.user_id : p \in import.people}} \cup
                       {StudentRow(p) : p \in import.people}
    BY <1>0, <1>3 DEF CommitStudents, upsert_students, StudentRow, DB, Database
  <2>2. \A s \in db.students : s.user_id \in UserIds
    BY <1>0 DEF DB, Database
  <2>3. db'.students = {StudentRow(p) : p \in import.people}
    BY <1>1, <2>1, <2>2 DEF StoredInv, EverybodyRead
  <2>4. import'.pc = "rows"
    BY <1>0, <1>3 DEF CommitStudents, ImportSet
  <2> QED BY <1>1, <1>2, <2>3, <2>4 DEF StoredInv, Stored
<1>4. CASE CommitGroups
  <2>1. build_groups(import.people) \in SUBSET GroupIds
    BY <1>0, StudentsType DEF build_groups
  <2>2. db'.students = db.students /\ db'.groups = db.groups \cup build_groups(import.people)
    BY <1>0, <1>4, <2>1, GroupsType DEF CommitGroups
  <2>3. import.pc = "rows"
    BY <1>4 DEF CommitGroups, Importing
  <2> QED BY <1>1, <1>2, <2>2, <2>3 DEF StoredInv, Stored
<1> QED BY <1>3, <1>4

LEMMA StoredStep ==
    ASSUME ImportInv, StoredInv, [ImportNext]_importVars PROVE StoredInv'
<1>0. TypeInv /\ OneResult(course)
  BY DEF ImportInv, StoredInv
<1>1. CASE UNCHANGED importVars
  <2>1. UNCHANGED <<db, course, import>>
    BY <1>1 DEF importVars, syncVars, attVars, solveVars
  <2> QED BY <2>1 DEF StoredInv, EverybodyRead, ReadAsIs, Stored, PassedNow
<1>2. CASE ImportEnds
  <2>1. import'.pc = "idle" /\ UNCHANGED course
    BY <1>2 DEF ImportEnds, NoImport, syncVars
  <2> QED BY <1>0, <2>1 DEF StoredInv, EverybodyRead, ReadAsIs, Stored
<1>3. CASE StartImport \/ StartExcel \/ ImportStep
  BY <1>2, <1>3, ReadingStored, CommitStored DEF ImportStep
<1>4. CASE Beside(SyncNext)
  BY <1>0, <1>4, OthersKeep, OneResultKept, BesideStored DEF Beside
<1>5. CASE Beside(\E u \in UserIds, points \in Points : EnterResult(u, points))
  BY <1>0, <1>5, OthersKeep, OneResultKept, BesideStored DEF Beside
<1>6. CASE Beside(\E u \in UserIds, g \in GroupIds \cup {NoTeam} : MoveStudent(u, g))
  BY <1>0, <1>6, OthersKeep, OneResultKept, BesideStored DEF Beside
<1> QED BY <1>1, <1>3, <1>4, <1>5, <1>6 DEF ImportNext

LEMMA StoredInvariant == ImportSpec => []StoredInv
<1>1. ImportInit => StoredInv
  BY CoursesAssumption
     DEF ImportInit, SyncInit, NoImport, StoredInv, EverybodyRead, ReadAsIs, Stored
<1> QED BY <1>1, StoredStep, ImportInvariant, PTL DEF ImportSpec

\* After an import from the API of a course that stood still, the planner's due
\* students are those who are due by the facts of the course.
THEOREM ImportsAreCurrent == ImportSpec => []ImportIsCurrent
<1>1. ImportInv /\ StoredInv => ImportIsCurrent
  BY StoredMeans
<1> QED BY <1>1, ImportInvariant, StoredInvariant, PTL

\* Once an import is through, everybody it has read has a group with a row.
THEOREM ImportsAreGrouped == ImportSpec => []ImportedAreGrouped
<1>1. ImportInv /\ StoredInv => ImportedAreGrouped
  BY StoredMeans
<1> QED BY <1>1, ImportInvariant, StoredInvariant, PTL
-----------------------------------------------------------------------------
(* Who has been examined.                                                  *)

\* Writes that patch assessments of users in S only.
Allowed(S) == {w \in Writes : \A k \in w.patch : k.user \in S}

\* A transfer patches by force only, and what it is patching is on record.
Forced(s, S) ==
    /\ s.patches # {} => s.force
    /\ s.pc = "request" => s.request.write \in Allowed(S)

PatchInv ==
    /\ \A p \in Syncs : Forced(sync[p], overwritten)
    /\ course.late \in Seq(Allowed(overwritten))

LEMMA MoreAllowed ==
    ASSUME NEW S, NEW T, S \subseteq T
    PROVE  /\ Allowed(S) \subseteq Allowed(T)
           /\ \A s : Forced(s, S) => Forced(s, T)
           /\ \A l \in Seq(Allowed(S)) : l \in Seq(Allowed(T))
<1>1. Allowed(S) \subseteq Allowed(T)
  BY DEF Allowed
<1>2. \A s : Forced(s, S) => Forced(s, T)
  BY <1>1 DEF Forced
<1>3. \A l \in Seq(Allowed(S)) : l \in Seq(Allowed(T))
  BY <1>1
<1> QED BY <1>1, <1>2, <1>3

\* Who has passed keeps it through a write that does not patch it.
LEMMA PassedKept ==
    ASSUME NEW c \in CourseSet, NEW S, NEW w \in Allowed(S)
    PROVE  passed_assessment_user_ids(c.assessments) \ S \subseteq
               passed_assessment_user_ids(Write(c, w).assessments)
<1> SUFFICES ASSUME NEW a \in c.assessments, a.passed, ~a.draft, a.user \notin S
             PROVE  a \in Write(c, w).assessments
  BY DEF passed_assessment_user_ids
<1> DEFINE old(x) == IF AssessmentKey(x) \in w.patch
                     THEN [x EXCEPT !.draft = TRUE, !.passed = TRUE] ELSE x
           new(u) == [user |-> u, n |-> Cardinality(AssessmentsOf(c, u)) + 1,
                      draft |-> TRUE, passed |-> TRUE]
<1>1. AssessmentKey(a).user = a.user
  BY DEF AssessmentKey
<1>2. old(a) = a
  BY <1>1 DEF Allowed
<1>3. Write(c, w).assessments = {old(x) : x \in c.assessments} \cup {new(u) : u \in w.create}
  BY DEF Write, CourseSet
<1> HIDE DEF old, new
<1> QED BY <1>2, <1>3

\* What a step of the transfers and of the course may do to those who passed.
PassedStay ==
    /\ overwritten \subseteq overwritten'
    /\ PassedNow \ overwritten' \subseteq PassedNow'

LEMMA OwnPatch ==
    ASSUME TypeInv, PatchInv, NEW p \in Syncs, NEW t, Continues(p, t), UNCHANGED course,
           overwritten \subseteq overwritten', Forced(t, overwritten')
    PROVE  PatchInv' /\ PassedStay
<1>1. \A q \in Syncs : sync'[q] = IF q = p THEN t ELSE sync[q]
  BY DEF Continues, TypeInv, SyncTypeOK
<1>2. \A q \in Syncs : Forced(sync'[q], overwritten')
  BY <1>1, MoreAllowed DEF PatchInv
<1>3. course'.late \in Seq(Allowed(overwritten'))
  BY MoreAllowed DEF PatchInv
<1> QED BY <1>2, <1>3 DEF PatchInv, PassedStay, PassedNow

LEMMA OwnPatches ==
    ASSUME TypeInv, PatchInv, NEW p \in Syncs,
           \/ \E r \in RoundIds, f, d \in BOOLEAN : StartSync(p, r, f, d)
           \/ ReadMembers(p) \/ ReadMarks(p) \/ ReadStatuses(p) \/ ReadExisting(p)
           \/ \E key \in sync[p].patches : BeginPatch(p, key)
           \/ BeginBulk(p) \/ Report(p) \/ SyncCrash(p)
    PROVE  PatchInv' /\ PassedStay
<1> DEFINE s == sync[p]
<1>0. s \in SyncSet /\ Forced(s, overwritten)
  BY SyncFacts DEF PatchInv
<1>1. ASSUME NEW t, Continues(p, t), UNCHANGED <<course, overwritten>>, t.pc # "request",
             t.patches # {} => t.force
      PROVE  PatchInv' /\ PassedStay
  BY <1>1, OwnPatch DEF Forced
<1>2. ASSUME NEW r, NEW f, NEW d, StartSync(p, r, f, d) PROVE PatchInv' /\ PassedStay
  BY <1>1, <1>2 DEF StartSync, NoSync
<1>3. CASE Report(p) \/ SyncCrash(p)
  BY <1>1, <1>3 DEF Report, SyncCrash, NoSync
<1>4. CASE ReadMembers(p)
  <2>1. PICK m : Continues(p, [s EXCEPT !.pc = "marks", !.members = m])
    BY <1>4 DEF ReadMembers
  <2>2. UNCHANGED <<course, overwritten>>
    BY <1>4 DEF ReadMembers
  <2> QED BY <1>0, <1>1, <2>1, <2>2 DEF SyncSet, Forced
<1>5. CASE ReadMarks(p)
  <2>1. PICK m, g : Continues(p, [s EXCEPT !.pc = "statuses", !.marks = m, !.marked = g])
    BY <1>5 DEF ReadMarks
  <2>2. UNCHANGED <<course, overwritten>>
    BY <1>5 DEF ReadMarks
  <2> QED BY <1>0, <1>1, <2>1, <2>2 DEF SyncSet, Forced
<1>6. CASE ReadStatuses(p)
  <2>1. PICK g : Continues(p, [s EXCEPT !.pc = "existing", !.members = {}, !.marks = {},
                                        !.marked = {}, !.graded = g])
    BY <1>6 DEF ReadStatuses
  <2>2. UNCHANGED <<course, overwritten>>
    BY <1>6 DEF ReadStatuses
  <2> QED BY <1>0, <1>1, <2>1, <2>2 DEF SyncSet, Forced
<1>7. CASE ReadExisting(p)
  <2>1. PICK keys : Continues(p, Sorted(s, keys))
    BY <1>7, ReadExistingSorts
  <2>2. Sorted(s, keys).pc = "write" /\ (Sorted(s, keys).patches # {} => Sorted(s, keys).force)
    BY <1>0 DEF Sorted, SyncSet
  <2>3. UNCHANGED <<course, overwritten>>
    BY <1>7 DEF ReadExisting
  <2> QED BY <1>1, <2>1, <2>2, <2>3
<1>8. ASSUME NEW w \in Writes, NEW t, Continues(p, t), UNCHANGED course,
             overwritten \subseteq overwritten', t.pc = "request", t.request.write = w,
             t.force = s.force, t.patches \subseteq s.patches,
             \A k \in w.patch : k.user \in overwritten'
      PROVE  PatchInv' /\ PassedStay
  <2>1. Forced(t, overwritten')
    BY <1>0, <1>8 DEF Forced, Allowed
  <2> QED BY <1>8, <2>1, OwnPatch
<1>9. CASE BeginBulk(p)
  <2> DEFINE w == [create |-> s.creates, patch |-> {}]
  <2>1. w \in Writes /\ w.patch = {}
    BY <1>0 DEF SyncSet, Writes
  <2> HIDE DEF w
  <2> DEFINE t == [s EXCEPT !.pc = "request", !.creates = {}, !.request = NewRequest(w)]
  <2>2. Continues(p, t) /\ UNCHANGED <<course, overwritten>>
    BY <1>9 DEF BeginBulk, w
  <2>3. t.pc = "request" /\ t.request.write = w /\ t.force = s.force /\ t.patches = s.patches
    BY <1>0, <2>1, NewRequestOK DEF SyncSet
  <2> HIDE DEF t
  <2> QED BY <1>8, <2>1, <2>2, <2>3
<1>10. ASSUME NEW key \in sync[p].patches, BeginPatch(p, key) PROVE PatchInv' /\ PassedStay
  <2> DEFINE w == [create |-> {}, patch |-> {key}]
  <2>1. w \in Writes /\ w.patch = {key}
    BY <1>0 DEF SyncSet, Writes
  <2> HIDE DEF w
  <2> DEFINE t == [s EXCEPT !.pc = "request", !.patches = @ \ {key}, !.request = NewRequest(w)]
  <2>2. Continues(p, t) /\ UNCHANGED course
    BY <1>10 DEF BeginPatch, w
  <2>3. /\ t.pc = "request" /\ t.request.write = w /\ t.force = s.force
        /\ t.patches \subseteq s.patches
    BY <1>0, <2>1, NewRequestOK DEF SyncSet
  <2>4. overwritten' = overwritten \cup {key.user}
    BY <1>0, <1>10 DEF BeginPatch, Forced
  <2> HIDE DEF t
  <2> QED BY <1>8, <2>1, <2>2, <2>3, <2>4
<1> QED BY <1>2, <1>3, <1>4, <1>5, <1>6, <1>7, <1>9, <1>10

LEMMA AttemptPatches ==
    ASSUME TypeInv, PatchInv, NEW p \in Syncs, NEW answer \in Answers,
           NEW effect \in Effects(answer), Attempt(p, answer, effect)
    PROVE  PatchInv' /\ PassedStay
<1> DEFINE s == sync[p]
           w == s.request.write
           t == Settled(s, AfterAnswer(s.request, answer))
<1>1. /\ s \in SyncSet /\ SyncOK(s) /\ s.pc = "request" /\ Forced(s, overwritten)
      /\ sync' = [sync EXCEPT ![p] = t] /\ sync \in [Syncs -> SyncSet]
      /\ UNCHANGED overwritten /\ course \in CourseSet
  BY SyncFacts DEF PatchInv, Attempt, Syncing, Continues, TypeInv, SyncTypeOK
<1>2. Outcome(s, t, answer)
  BY <1>1, SettledOK
<1> HIDE DEF t
<1>3. w \in Allowed(overwritten)
  BY <1>1 DEF Forced
<1>4. Forced(t, overwritten)
  BY <1>1, <1>2, <1>3 DEF Forced, Outcome
<1>5. \A q \in Syncs : Forced(sync'[q], overwritten)
  BY <1>1, <1>4 DEF PatchInv
<1> HIDE DEF w
<1>6. /\ course'.late \in Seq(Allowed(overwritten))
      /\ PassedNow \ overwritten \subseteq PassedNow'
  <2>0. /\ effect \in {"now", "late", "never"}
        /\ course' = CASE effect = "now"   -> Write(course, w)
                       [] effect = "late"  -> [course EXCEPT !.late = Append(@, w)]
                       [] effect = "never" -> course
    BY DEF Attempt, w, Effects
  <2>1. CASE effect = "now"
    <3>1. course' = Write(course, w) /\ w \in Writes
      BY <1>3, <2>0, <2>1 DEF Allowed
    <3>2. course'.late = course.late
      BY <1>1, <3>1 DEF Write, CourseSet
    <3>3. PassedNow \ overwritten \subseteq PassedNow'
      BY <1>1, <1>3, <3>1, PassedKept DEF PassedNow
    <3> QED BY <3>2, <3>3 DEF PatchInv
  <2>2. CASE effect = "late"
    <3>1. course'.late = Append(course.late, w) /\ course'.assessments = course.assessments
      BY <1>1, <2>0, <2>2 DEF CourseSet
    <3>2. Append(course.late, w) \in Seq(Allowed(overwritten))
      BY <1>3, AppendProperties DEF PatchInv
    <3> QED BY <3>1, <3>2 DEF PassedNow
  <2>3. CASE effect = "never"
    BY <2>0, <2>3 DEF PassedNow, PatchInv
  <2> QED BY <2>0, <2>1, <2>2, <2>3
<1> QED BY <1>1, <1>5, <1>6 DEF PatchInv, PassedStay

LEMMA OthersPatches ==
    ASSUME TypeInv, PatchInv,
           \/ UNCHANGED <<course, sync, overwritten>>
           \/ \E i \in DOMAIN course.late : Land(i)
           \/ \E a \in course.assessments : Release(a)
           \/ \E u \in UserIds, points \in Points : EnterResult(u, points)
           \/ \E u \in UserIds, g \in GroupIds \cup {NoTeam} : MoveStudent(u, g)
    PROVE  PatchInv' /\ PassedStay
<1>0. course \in CourseSet /\ course.late \in Seq(Allowed(overwritten))
  BY DEF TypeInv, SyncTypeOK, PatchInv
<1>1. ASSUME UNCHANGED <<sync, overwritten>>, course'.late \in Seq(Allowed(overwritten)),
             PassedNow \ overwritten \subseteq PassedNow'
      PROVE  PatchInv' /\ PassedStay
  BY <1>1 DEF PatchInv, PassedStay
<1>2. CASE UNCHANGED <<course, sync, overwritten>>
  BY <1>0, <1>1, <1>2 DEF PassedNow
<1>3. ASSUME NEW i \in DOMAIN course.late, Land(i) PROVE PatchInv' /\ PassedStay
  <2> DEFINE w == course.late[i]
             c == Write(course, w)
  <2>1. w \in Allowed(overwritten) /\ RemoveAt(course.late, i) \in Seq(Allowed(overwritten))
    BY <1>0, RemoveType
  <2>2. c.late = course.late /\ c = [course EXCEPT !.assessments = c.assessments]
    BY <1>0 DEF Write, CourseSet
  <2>3. course' = [c EXCEPT !.late = RemoveAt(c.late, i)]
    BY <1>3 DEF Land
  <2> HIDE DEF c, w
  <2>4. course'.late = RemoveAt(course.late, i) /\ course'.assessments = c.assessments
    BY <1>0, <2>2, <2>3 DEF CourseSet
  <2>5. PassedNow \ overwritten \subseteq passed_assessment_user_ids(c.assessments)
    BY <1>0, <2>1, PassedKept DEF PassedNow, c
  <2> QED BY <1>1, <1>3, <2>1, <2>4, <2>5 DEF PassedNow, Land
<1>4. ASSUME NEW a, Release(a) PROVE PatchInv' /\ PassedStay
  <2>1. /\ course'.late = course.late
        /\ course'.assessments = (course.assessments \ {a}) \cup {[a EXCEPT !.draft = FALSE]}
        /\ a \in course.assessments /\ a.draft
    BY <1>0, <1>4 DEF Release, CourseSet
  <2>2. PassedNow \subseteq PassedNow'
    <3> SUFFICES ASSUME NEW b \in course.assessments, ~b.draft, b.passed
                 PROVE  b \in course'.assessments
      BY DEF PassedNow, passed_assessment_user_ids
    <3> QED BY <2>1
  <2> QED BY <1>0, <1>1, <1>4, <2>1, <2>2 DEF Release
<1>5. CASE \/ \E u \in UserIds, points \in Points : EnterResult(u, points)
           \/ \E u \in UserIds, g \in GroupIds \cup {NoTeam} : MoveStudent(u, g)
  <2>1. course'.assessments = course.assessments /\ course'.late = course.late
    BY <1>5, LecturerFacts
  <2>2. UNCHANGED <<sync, overwritten>>
    BY <1>5 DEF EnterResult, MoveStudent
  <2> QED BY <1>0, <1>1, <2>1, <2>2 DEF PassedNow
<1> QED BY <1>2, <1>3, <1>4, <1>5

LEMMA PatchStep ==
    ASSUME TypeInv, PatchInv, [ImportNext]_importVars PROVE PatchInv' /\ PassedStay
<1>1. CASE UNCHANGED <<course, sync, overwritten>>
  BY <1>1, OthersPatches
<1>2. ASSUME NEW p \in Syncs,
             SyncStep(p) \/ SyncCrash(p) \/ \E r \in RoundIds, f, d \in BOOLEAN : StartSync(p, r, f, d)
      PROVE  PatchInv' /\ PassedStay
  BY <1>2, OwnPatches, AttemptPatches DEF SyncStep
<1>3. ASSUME SyncNext PROVE PatchInv' /\ PassedStay
  BY <1>1, <1>2, <1>3, OthersPatches DEF SyncNext, Tutors, Planners, Planner
<1>4. CASE StartImport \/ StartExcel \/ ImportStep \/ UNCHANGED importVars
  BY <1>1, <1>4 DEF StartImport, StartExcel, ImportStep, ReadTeams, ReadAssessments,
     CommitStudents, CommitGroups, ImportEnds, syncVars, importVars
<1> QED BY <1>3, <1>4, OthersPatches DEF ImportNext, Beside

\* Who is stored or read as examined has passed, unless overwritten; and an
\* import that has read the assessments knows of everybody who is stored so.
Known(u) == u \in overwritten \/ u \in PassedNow

ExamInv ==
    /\ PatchInv
    /\ \A s \in db.students : s.assessed => Known(s.user_id)
    /\ \A p \in import.people : p.assessed => Known(p.user_id)
    /\ import.pc = "students" /\ ~import.excel =>
          \A s \in db.students : s.assessed /\ s.user_id \notin overwritten =>
              \E p \in import.people : p.user_id = s.user_id /\ p.assessed

\* What ExaminedStay says of a step.
Stay ==
    \A s \in db.students :
        s.assessed /\ s.user_id \notin overwritten =>
            \/ \E t \in db'.students : t.user_id = s.user_id /\ t.assessed
            \/ import.excel

LEMMA StayKnown == ASSUME PassedStay PROVE \A u : Known(u) => Known(u)'
  BY DEF PassedStay, Known

\* A step that leaves students and participants as they are.
LEMMA KeepingExam ==
    ASSUME ExamInv, PatchInv', PassedStay, db'.students = db.students,
           import'.people = import.people, import'.excel = import.excel,
           import'.pc = "students" => import.pc = "students"
    PROVE  ExamInv' /\ Stay
<1>1. \A s \in db'.students : s.assessed => Known(s.user_id)'
  BY StayKnown DEF ExamInv
<1>2. \A p \in import'.people : p.assessed => Known(p.user_id)'
  BY StayKnown DEF ExamInv
<1>3. import'.pc = "students" /\ ~import'.excel =>
          \A s \in db'.students : s.assessed /\ s.user_id \notin overwritten' =>
              \E p \in import'.people : p.user_id = s.user_id /\ p.assessed
  BY DEF ExamInv, PassedStay
<1>4. Stay
  BY DEF Stay
<1> QED BY <1>1, <1>2, <1>3, <1>4 DEF ExamInv

LEMMA ReadingExam ==
    ASSUME ImportInv, StoredInv, ExamInv, PatchInv',
           StartImport \/ StartExcel \/ ReadTeams \/ ReadAssessments
    PROVE  ExamInv' /\ Stay
<1>0. /\ import \in ImportSet /\ import.people \in SUBSET Participant /\ db \in DB
      /\ UNCHANGED <<db, course, overwritten>>
  BY DEF ImportInv, ImportSet, TypeInv, AttTypeOK, SolveTypeOK, StartImport, StartExcel,
         ReadTeams, ReadAssessments, syncVars, attVars, solveVars
<1>1. Stay /\ \A u : Known(u) <=> Known(u)'
  BY <1>0 DEF Stay, Known, PassedNow
<1>2. ASSUME \A p \in import'.people : p.assessed => Known(p.user_id),
             import'.pc = "students" /\ ~import'.excel =>
                 \A s \in db.students : s.assessed /\ s.user_id \notin overwritten =>
                     \E p \in import'.people : p.user_id = s.user_id /\ p.assessed
      PROVE  ExamInv' /\ Stay
  BY <1>0, <1>1, <1>2 DEF ExamInv
<1>3. CASE StartImport
  <2>1. import'.pc = "groups" /\ \A p \in import'.people : ~p.assessed
    BY <1>3 DEF StartImport, NoImport
  <2> QED BY <1>2, <2>1
<1>4. CASE StartExcel
  <2>1. import'.excel /\ \A p \in import'.people : ~p.assessed
    BY <1>4 DEF StartExcel, NoImport
  <2> QED BY <1>2, <2>1
<1>5. CASE ReadTeams
  <2> DEFINE read(p) == [p EXCEPT !.group = course.group[p.user_id]]
  <2>1. import'.people = {read(p) : p \in import.people} /\ import'.pc = "assessments"
    BY <1>0, <1>5 DEF ReadTeams, ImportSet
  <2>2. \A p \in import.people : read(p).user_id = p.user_id /\ read(p).assessed = p.assessed
    BY <1>0 DEF Participant
  <2> HIDE DEF read
  <2> QED BY <1>2, <2>1, <2>2 DEF ExamInv
<1>6. CASE ReadAssessments
  <2> DEFINE read(p) == [p EXCEPT !.assessed = p.user_id \in PassedNow]
             people == {read(p) : p \in import.people}
  <2>1. import'.people = people /\ import.pc = "assessments"
    BY <1>0, <1>6 DEF ReadAssessments, ImportSet, PassedNow, Importing
  <2>2. \A p \in import.people : /\ read(p).user_id = p.user_id
                                 /\ read(p).assessed <=> p.user_id \in PassedNow
    BY <1>0 DEF Participant
  <2> HIDE DEF read
  <2>3. \A p \in people : p.assessed => Known(p.user_id)
    BY <2>2 DEF Known
  <2>4. ASSUME NEW s \in db.students, s.assessed, s.user_id \notin overwritten
        PROVE  \E p \in people : p.user_id = s.user_id /\ p.assessed
    <3>1. s.user_id \in PassedNow /\ s.user_id \in UserIds
      BY <1>0, <2>4 DEF ExamInv, Known, DB, Database
    <3>2. PICK p \in import.people : p.user_id = s.user_id
      BY <2>1, <3>1 DEF StoredInv, EverybodyRead
    <3> QED BY <2>2, <3>1, <3>2
  <2> HIDE DEF people
  <2> QED BY <1>2, <2>1, <2>3, <2>4
<1> QED BY <1>3, <1>4, <1>5, <1>6

LEMMA CommitExam ==
    ASSUME ImportInv, ExamInv, PatchInv', PassedStay, CommitStudents
    PROVE  ExamInv' /\ Stay
<1>0. /\ import \in ImportSet /\ db \in DB /\ import.pc = "students"
      /\ import'.people = import.people /\ import'.pc = "rows" /\ UNCHANGED overwritten
  BY DEF ImportInv, ImportSet, TypeInv, AttTypeOK, SolveTypeOK, CommitStudents, Importing
<1>1. db'.students = {s \in db.students : s.user_id \notin {p.user_id : p \in import.people}} \cup
                     {StudentRow(p) : p \in import.people}
  BY <1>0 DEF CommitStudents, upsert_students, StudentRow, DB, Database
<1>2. \A p : StudentRow(p).user_id = p.user_id /\ StudentRow(p).assessed = p.assessed
  BY DEF StudentRow
<1>3. \A s \in db'.students : s.assessed => Known(s.user_id)'
  BY <1>1, <1>2, StayKnown DEF ExamInv
<1>4. \A p \in import'.people : p.assessed => Known(p.user_id)'
  BY <1>0, StayKnown DEF ExamInv
<1>5. Stay
  <2> SUFFICES ASSUME ~import.excel, NEW s \in db.students, s.assessed, s.user_id \notin overwritten
               PROVE  \E t \in db'.students : t.user_id = s.user_id /\ t.assessed
    BY DEF Stay
  <2>1. PICK p \in import.people : p.user_id = s.user_id /\ p.assessed
    BY <1>0 DEF ExamInv
  <2> QED BY <1>1, <1>2, <2>1
<1> QED BY <1>0, <1>3, <1>4, <1>5 DEF ExamInv

LEMMA ExamStep ==
    ASSUME ImportInv, StoredInv, ExamInv, [ImportNext]_importVars
    PROVE  ExamInv' /\ Stay
<1>0. /\ TypeInv /\ import \in ImportSet /\ db \in DB /\ PatchInv' /\ PassedStay
  BY PatchStep DEF ImportInv, ExamInv, TypeInv, AttTypeOK, SolveTypeOK
<1>1. CASE UNCHANGED importVars
  BY <1>0, <1>1, KeepingExam DEF importVars, syncVars, attVars, solveVars
<1>2. CASE ImportEnds
  <2>1. db' = db /\ import'.people = {} /\ import'.pc = "idle"
    BY <1>2 DEF ImportEnds, NoImport, syncVars, attVars, solveVars
  <2>2. \A s \in db'.students : s.assessed => Known(s.user_id)'
    BY <1>0, <2>1, StayKnown DEF ExamInv
  <2> QED BY <1>0, <2>1, <2>2 DEF ExamInv, Stay
<1>3. CASE StartImport \/ StartExcel \/ ReadTeams \/ ReadAssessments
  BY <1>0, <1>3, ReadingExam
<1>4. CASE CommitStudents
  BY <1>0, <1>4, CommitExam
<1>5. CASE CommitGroups
  <2>1. build_groups(import.people) \in SUBSET GroupIds
    BY <1>0, StudentsType DEF build_groups, ImportSet
  <2>2. db'.students = db.students
    BY <1>0, <1>5, <2>1, GroupsType DEF CommitGroups
  <2>3. import'.people = import.people /\ import'.excel = import.excel /\ import'.pc = "report"
    BY <1>0, <1>5 DEF CommitGroups, ImportSet
  <2> QED BY <1>0, <2>2, <2>3, KeepingExam DEF ExamInv
<1>6. ASSUME db'.students = db.students,
             import' = [import EXCEPT !.steady = @ /\ (Importing("idle") \/ course' = course)]
      PROVE  ExamInv' /\ Stay
  <2>1. import'.people = import.people /\ import'.excel = import.excel /\ import'.pc = import.pc
    BY <1>0, <1>6 DEF ImportSet
  <2> QED BY <1>0, <1>6, <2>1, KeepingExam
<1>7. CASE Beside(SyncNext)
  BY <1>0, <1>6, <1>7, OthersKeep DEF Beside
<1>8. CASE Beside(\E u \in UserIds, points \in Points : EnterResult(u, points))
  BY <1>0, <1>6, <1>8, OthersKeep DEF Beside
<1>9. CASE Beside(\E u \in UserIds, g \in GroupIds \cup {NoTeam} : MoveStudent(u, g))
  BY <1>0, <1>6, <1>9, OthersKeep DEF Beside
<1> QED BY <1>1, <1>2, <1>3, <1>4, <1>5, <1>7, <1>8, <1>9 DEF ImportNext, ImportStep

\* Who is stored as examined when it all begins has passed.
WellStored == \A s \in db.students : s.assessed => Examined(s.user_id)

\* A student found to be examined stays so, whatever transfers, imports from the
\* API and lecturers do, unless a forced transfer has overwritten the assessment.
THEOREM ExaminedForGood == ImportSpec /\ WellStored => ExaminedStay
<1>1. ImportInit /\ WellStored => ExamInv
  <2> SUFFICES ASSUME ImportInit, WellStored PROVE ExamInv
    OBVIOUS
  <2>1. course.late = << >> /\ overwritten = {} /\ import = NoImport
        /\ \A p \in Syncs : sync[p] = NoSync
    BY CoursesAssumption DEF ImportInit, SyncInit
  <2>2. PatchInv
    BY <2>1 DEF PatchInv, Forced, NoSync
  <2>3. \A u : Examined(u) => Known(u)
    BY DEF Examined, AssessmentsOf, Known, PassedNow, passed_assessment_user_ids
  <2> QED BY <2>1, <2>2, <2>3 DEF ExamInv, WellStored, NoImport
<1>2. ImportInv /\ StoredInv /\ ExamInv /\ [ImportNext]_importVars => ExamInv' /\ [Stay]_importVars
  BY ExamStep
<1> QED BY <1>1, <1>2, ImportInvariant, StoredInvariant, PTL DEF ImportSpec, ExaminedStay, Stay

-----------------------------------------------------------------------------
(* Whom the button grades.                                                 *)

InGroup(u, g) == \E s \in db.students : s.user_id = u /\ s.group = g

OfSlot(s, r) == \E x \in db.slots : x.id = s /\ x.round = r

\* Somebody of the group is marked at the slot.
MarkedGroup(g, s, r) == \E a \in db.att : a.group = g /\ a.slot = s /\ a.round = r

\* Marks are of students of the group they name and of the round of their slot,
\* and no group is PRESENTED without a mark.
WellMarked ==
    /\ \A a \in db.att : InGroup(a.student, a.group) /\ OfSlot(a.slot, a.round)
    /\ \A x \in db.pres : x.status = PRESENTED => MarkedGroup(x.group, x.slot, x.round)

OneGroup == \A s, t \in db.students : s.user_id = t.user_id => s.group = t.group

OneSlot == \A x, y \in db.slots : x.id = y.id => x = y

ReadOnce == \A p, q \in import.people : p.user_id = q.user_id => p = q

\* A submission that has something to do is for a slot and its round, works on
\* members of its groups, and has committed a mark of the group it has collected
\* PRESENTED for.
WellSent ==
    /\ post.pc # "idle" =>
          /\ post.presentations # {} \/ post.pc = "members" => OfSlot(post.slot, post.round)
          /\ \A g \in post.presentations : \A u \in post.members[g] : InGroup(u, g)
    /\ post.pc = "members" =>
          /\ \A u \in post.left : InGroup(u, post.group)
          /\ PRESENTED \in post.statuses => MarkedGroup(post.group, post.slot, post.round)

MarksIn(r) == {a \in db.att : a.round = r}

\* What a transfer has read is what the tables say: students and marks stand
\* still for the button, and the schedule too as long as nobody plans `again`.
WellRead(s, again) ==
    /\ s.pc \in {"marks", "statuses"} =>
          \A a \in db.att : \E m \in s.members : m.user = a.student /\ m.group = a.group
    /\ s.pc = "statuses" =>
          /\ s.marked = {a.group : a \in MarksIn(s.round)}
          /\ \A m \in s.marks : \E a \in MarksIn(s.round) :
                m.user = a.student /\ m.status = a.status
          /\ \A a \in MarksIn(s.round) : \E m \in s.marks : m.user = a.student
    /\ s.pc \in {"existing", "write", "request"} =>
          /\ \A u \in s.graded : \E a \in MarksIn(s.round) :
                a.student = u /\ a.status = PRESENTED
          /\ ~again => \A a \in MarksIn(s.round) :
                (/\ a.status = PRESENTED
                 /\ \A b \in MarksIn(s.round) : b.student = a.student => b = a
                 /\ \E x \in db.pres : x.group = a.group /\ x.round = s.round)
                => a.student \in s.graded

GradingInv ==
    /\ OneGroup /\ OneSlot /\ ReadOnce /\ WellMarked /\ WellSent
    /\ Web \in Syncs => WellRead(sync[Web], Web \in replanned)

\* No import moves a stored student to another group.
Unmoved == \A s \in db.students, t \in db'.students : s.user_id = t.user_id => s.group = t.group

LEMMA GradingMeans == ASSUME TypeInv, GradingInv PROVE OnlyPresentersGraded
<1> SUFFICES ASSUME Web \in Syncs, sync[Web].pc \in Decided
             PROVE  LET s       == sync[Web]
                        marksOf == [u \in UserIds |-> {a \in db.att : a.student = u /\ a.round = s.round}]
                    IN  /\ \A u \in s.graded : \E a \in marksOf[u] : a.status = PRESENTED
                        /\ Web \notin replanned => \A u \in UserIds : \A a \in marksOf[u] :
                              (/\ marksOf[u] = {a} /\ a.status = PRESENTED
                               /\ \E t \in db.students : t.user_id = u /\ t.group = a.group
                               /\ \E row \in db.pres : row.group = a.group /\ row.round = s.round)
                              => u \in s.graded
  BY DEF OnlyPresentersGraded
<1> DEFINE s == sync[Web]
           marksOf == [u \in UserIds |-> {a \in db.att : a.student = u /\ a.round = s.round}]
<1>1. s.graded \subseteq UserIds
  BY SyncFacts DEF SyncSet
<1>2. /\ \A u \in s.graded : \E a \in MarksIn(s.round) : a.student = u /\ a.status = PRESENTED
      /\ Web \notin replanned => \A a \in MarksIn(s.round) :
            (/\ a.status = PRESENTED
             /\ \A b \in MarksIn(s.round) : b.student = a.student => b = a
             /\ \E x \in db.pres : x.group = a.group /\ x.round = s.round)
            => a.student \in s.graded
  BY DEF GradingInv, WellRead, Decided
<1>3. \A u \in UserIds : marksOf[u] = {a \in MarksIn(s.round) : a.student = u}
  BY DEF MarksIn
<1> HIDE DEF marksOf, s
<1>4. \A u \in s.graded : \E a \in marksOf[u] : a.status = PRESENTED
  BY <1>1, <1>2, <1>3
<1>5. ASSUME Web \notin replanned,
             NEW u \in UserIds, NEW a \in marksOf[u], marksOf[u] = {a}, a.status = PRESENTED,
             \E row \in db.pres : row.group = a.group /\ row.round = s.round
      PROVE  u \in s.graded
  <2>1. a \in MarksIn(s.round) /\ a.student = u
    BY <1>3, <1>5
  <2>2. \A b \in MarksIn(s.round) : b.student = a.student => b = a
    BY <1>3, <1>5, <2>1
  <2> QED BY <1>2, <1>5, <2>1, <2>2
<1> QED BY <1>4, <1>5 DEF s, marksOf

\* The tables, pages and submissions stand still: what is read stays read.
LEMMA StandingStill ==
    ASSUME GradingInv, UNCHANGED <<db, post>>, ReadOnce',
           Web \in Syncs => WellRead(sync'[Web], Web \in replanned')
    PROVE  GradingInv'
<1>1. OneGroup' /\ OneSlot'
  BY DEF GradingInv, OneGroup, OneSlot
<1>2. /\ \A u, g : InGroup(u, g)' <=> InGroup(u, g)
      /\ \A s, r : OfSlot(s, r)' <=> OfSlot(s, r)
      /\ \A g, s, r : MarkedGroup(g, s, r)' <=> MarkedGroup(g, s, r)
  BY DEF InGroup, OfSlot, MarkedGroup
<1>3. WellMarked' /\ WellSent'
  BY <1>2 DEF GradingInv, WellMarked, WellSent
<1>4. Web \in Syncs => WellRead(sync[Web], Web \in replanned)'
  BY DEF WellRead, MarksIn
<1> QED BY <1>1, <1>3, <1>4 DEF GradingInv

LEMMA OwnRead ==
    ASSUME TypeInv, GradingInv, NEW p \in Syncs, NEW s, Continues(p, s),
           UNCHANGED attVars, import'.people = import.people,
           p = Web => WellRead(s, Web \in replanned'),
           p # Web => (Web \in replanned' <=> Web \in replanned)
    PROVE  GradingInv'
<1>1. sync'[p] = s /\ \A q \in Syncs \ {p} : sync'[q] = sync[q]
  BY DEF Continues, TypeInv, SyncTypeOK
<1>2. Web \in Syncs => WellRead(sync'[Web], Web \in replanned')
  BY <1>1 DEF GradingInv
<1>3. ReadOnce' /\ UNCHANGED <<db, post>>
  BY DEF GradingInv, ReadOnce, attVars, solveVars
<1> QED BY <1>2, <1>3, StandingStill

\* What a transfer does once it knows whom to grade does not change that.
LEMMA StillGraded ==
    ASSUME NEW s, NEW t, NEW again, WellRead(s, again), s.pc \in {"existing", "write", "request"},
           t.pc \in {"existing", "write", "request"}, t.graded = s.graded, t.round = s.round
    PROVE  WellRead(t, again)
  BY DEF WellRead

LEMMA ReadsMembers ==
    ASSUME TypeInv, GradingInv, NEW p \in Syncs, ReadMembers(p), import'.people = import.people
    PROVE  GradingInv'
<1> DEFINE read == {[user |-> s.user_id, group |-> s.group] : s \in db.students}
           n == [sync[p] EXCEPT !.pc = "marks", !.members = read]
<1>1. n.pc = "marks" /\ n.members = read
  BY SyncFacts DEF SyncSet
<1>2. ASSUME NEW a \in db.att PROVE \E m \in read : m.user = a.student /\ m.group = a.group
  <2>1. PICK t \in db.students : t.user_id = a.student /\ t.group = a.group
    BY DEF GradingInv, WellMarked, InGroup
  <2>2. [user |-> t.user_id, group |-> t.group] \in read
    OBVIOUS
  <2> HIDE DEF read
  <2> QED BY <2>1, <2>2
<1>3. Continues(p, n) /\ UNCHANGED <<attVars, replanned>>
  BY DEF ReadMembers
<1> HIDE DEF read, n
<1>4. \A again : WellRead(n, again)
  BY <1>1, <1>2 DEF WellRead
<1> QED BY <1>3, <1>4, OwnRead

LEMMA ReadsMarks ==
    ASSUME TypeInv, GradingInv, NEW p \in Syncs, ReadMarks(p), import'.people = import.people
    PROVE  GradingInv'
<1> DEFINE rows == MarksIn(sync[p].round)
           read == {[user |-> a.student, status |-> a.status] : a \in rows}
<1>1. PICK marks \in SUBSET read :
         /\ \A m \in read : \E k \in marks : k.user = m.user
         /\ Continues(p, [sync[p] EXCEPT !.pc = "statuses", !.marks = marks,
                                       !.marked = {a.group : a \in rows}])
  BY DEF ReadMarks, MarksIn
<1> DEFINE n == [sync[p] EXCEPT !.pc = "statuses", !.marks = marks,
                               !.marked = {a.group : a \in rows}]
<1>2. /\ n.pc = "statuses" /\ n.members = sync[p].members /\ n.marks = marks
      /\ n.marked = {a.group : a \in rows} /\ n.round = sync[p].round
  BY SyncFacts DEF SyncSet
<1>3. \A m \in marks : \E a \in rows : m.user = a.student /\ m.status = a.status
  OBVIOUS
<1>4. \A a \in rows : \E m \in marks : m.user = a.student
  <2>1. \A a \in rows : [user |-> a.student, status |-> a.status] \in read
    OBVIOUS
  <2> HIDE DEF read, rows
  <2> QED BY <1>1, <2>1
<1>5. p = Web => \A a \in db.att : \E m \in sync[p].members : m.user = a.student /\ m.group = a.group
  BY DEF GradingInv, WellRead, ReadMarks, Syncing
<1>6. Continues(p, n) /\ UNCHANGED <<attVars, replanned>>
  BY <1>1 DEF ReadMarks
<1> HIDE DEF n
<1>7. p = Web => \A again : WellRead(n, again)
  BY <1>2, <1>3, <1>4, <1>5 DEF WellRead
<1> QED BY <1>6, <1>7, OwnRead

\* Whoever is graded has been marked: a group without marks has no status that
\* would grade it, and a mark that is the only one of a student was read.
LEMMA ReadsStatuses ==
    ASSUME TypeInv, GradingInv, NEW p \in Syncs, ReadStatuses(p), import'.people = import.people
    PROVE  GradingInv'
<1> DEFINE s == sync[p]
           rows == get_presentations_for_round(db, s.round)
           graded == {m.user : m \in {x \in s.members :
                        \E row \in rows : row.group = x.group /\ Presented(x, row, s)}}
           n == [s EXCEPT !.pc = "existing", !.members = {}, !.marks = {}, !.marked = {},
                          !.graded = graded]
<1>1. n.pc = "existing" /\ n.graded = graded /\ n.round = s.round
  BY SyncFacts DEF SyncSet
<1>2. Continues(p, n) /\ UNCHANGED <<attVars, replanned>> /\ s.pc = "statuses"
  BY DEF ReadStatuses, Syncing
<1>3. ASSUME p = Web PROVE \A again : WellRead(n, again)
  <2>1. /\ \A a \in db.att : \E m \in s.members : m.user = a.student /\ m.group = a.group
        /\ s.marked = {a.group : a \in MarksIn(s.round)}
        /\ \A m \in s.marks : \E a \in MarksIn(s.round) : m.user = a.student /\ m.status = a.status
        /\ \A a \in MarksIn(s.round) : \E m \in s.marks : m.user = a.student
        /\ WellMarked
    BY <1>2, <1>3 DEF GradingInv, WellRead
  <2>2. s.marks \subseteq [user : UserIds, status : Statuses]
    BY SyncFacts DEF SyncSet
  <2>3. ASSUME NEW u \in graded
        PROVE  \E a \in MarksIn(s.round) : a.student = u /\ a.status = PRESENTED
    <3>1. PICK x \in s.members, row \in rows :
             x.user = u /\ row.group = x.group /\ Presented(x, row, s)
      OBVIOUS
    <3>2. row \in db.pres /\ row.round = s.round
      BY DEF get_presentations_for_round
    <3>3. row.status = PRESENTED => row.group \in s.marked
      BY <2>1, <3>2 DEF WellMarked, MarkedGroup, MarksIn
    <3>4. [user |-> u, status |-> PRESENTED] \in s.marks
      BY <3>1, <3>3 DEF Presented
    <3> QED BY <2>1, <3>4
  <2>4. ASSUME NEW a \in MarksIn(s.round), a.status = PRESENTED,
               \A b \in MarksIn(s.round) : b.student = a.student => b = a,
               NEW x \in db.pres, x.group = a.group, x.round = s.round
        PROVE  a.student \in graded
    <3>1. PICK m \in s.members : m.user = a.student /\ m.group = a.group
      BY <2>1 DEF MarksIn
    <3>2. PICK k \in s.marks : k.user = a.student
      BY <2>1
    <3>3. k.status = PRESENTED
      BY <2>1, <2>4, <3>2
    <3>4. [user |-> m.user, status |-> PRESENTED] \in s.marks
      BY <2>2, <3>1, <3>2, <3>3
    <3>5. x \in rows /\ x.group \in s.marked
      BY <2>1, <2>4 DEF get_presentations_for_round
    <3> QED BY <2>4, <3>1, <3>4, <3>5 DEF Presented
  <2> HIDE DEF graded, n, rows, s
  <2> QED BY <1>1, <2>3, <2>4 DEF WellRead
<1> HIDE DEF n
<1> QED BY <1>2, <1>3, OwnRead

LEMMA SettledSame ==
    ASSUME NEW s \in SyncSet, NEW req
    PROVE  req.state \in {"open", "ok", "raised"} =>
              Settled(s, req).graded = s.graded /\ Settled(s, req).round = s.round
  BY DEF Settled, SyncSet

LEMMA WritesSame ==
    ASSUME TypeInv, GradingInv, NEW p \in Syncs, import'.people = import.people,
           \/ ReadExisting(p)
           \/ \E key : BeginPatch(p, key)
           \/ BeginBulk(p)
           \/ \E answer \in Answers : \E effect \in Effects(answer) : Attempt(p, answer, effect)
    PROVE  GradingInv'
<1> DEFINE s == sync[p]
<1>0. s \in SyncSet /\ SyncOK(s)
  BY SyncFacts
<1>1. CASE ReadExisting(p)
  <2>1. PICK keys : Continues(p, Sorted(s, keys))
    BY <1>1, ReadExistingSorts
  <2> DEFINE n == Sorted(s, keys)
  <2>2. n.pc = "write" /\ n.graded = s.graded /\ n.round = s.round
    BY <1>0 DEF Sorted, SyncSet
  <2>3. s.pc = "existing" /\ UNCHANGED <<attVars, replanned>>
    BY <1>1 DEF ReadExisting, Syncing
  <2> HIDE DEF n, s
  <2>4. p = Web => WellRead(n, Web \in replanned)
    BY <2>2, <2>3, StillGraded DEF GradingInv, s
  <2> QED BY <2>1, <2>3, <2>4, OwnRead DEF n, s
<1>2. ASSUME NEW key, BeginPatch(p, key) PROVE GradingInv'
  <2> DEFINE n == [s EXCEPT !.pc = "request", !.patches = @ \ {key},
                      !.request = NewRequest([create |-> {}, patch |-> {key}])]
  <2>1. n.pc = "request" /\ n.graded = s.graded /\ n.round = s.round
    BY <1>0 DEF SyncSet
  <2>2. s.pc = "write" /\ UNCHANGED <<attVars, replanned>> /\ Continues(p, n)
    BY <1>2 DEF BeginPatch, Syncing
  <2> HIDE DEF n
  <2>3. p = Web => WellRead(n, Web \in replanned)
    BY <2>1, <2>2, StillGraded DEF GradingInv
  <2> QED BY <2>2, <2>3, OwnRead
<1>3. CASE BeginBulk(p)
  <2> DEFINE n == [s EXCEPT !.pc = "request", !.creates = {},
                      !.request = NewRequest([create |-> s.creates, patch |-> {}])]
  <2>1. n.pc = "request" /\ n.graded = s.graded /\ n.round = s.round
    BY <1>0 DEF SyncSet
  <2>2. s.pc = "write" /\ UNCHANGED <<attVars, replanned>> /\ Continues(p, n)
    BY <1>3 DEF BeginBulk, Syncing
  <2> HIDE DEF n
  <2>3. p = Web => WellRead(n, Web \in replanned)
    BY <2>1, <2>2, StillGraded DEF GradingInv
  <2> QED BY <2>2, <2>3, OwnRead
<1>4. ASSUME NEW answer \in Answers, NEW effect \in Effects(answer), Attempt(p, answer, effect)
      PROVE  GradingInv'
  <2> DEFINE req == AfterAnswer(s.request, answer)
             n == Settled(s, req)
  <2>1. s.pc = "request" /\ UNCHANGED <<attVars, replanned>> /\ Continues(p, n)
    BY <1>4 DEF Attempt, Syncing
  <2>2. n.pc \in {"request", "write"}
    BY <1>0, <2>1, SettledOK DEF Outcome
  <2>3. s.request.state = "open" /\ s.request \in RequestSet
    BY <1>0, <2>1 DEF SyncOK, SyncSet
  <2>4. req.state \in {"open", "ok", "raised"}
    BY <2>3 DEF AfterAnswer, RequestSet
  <2> HIDE DEF req
  <2>5. n.graded = s.graded /\ n.round = s.round
    BY <1>0, <2>4, SettledSame
  <2> HIDE DEF n
  <2>6. p = Web => WellRead(n, Web \in replanned)
    BY <2>1, <2>2, <2>5, StillGraded DEF GradingInv
  <2> QED BY <2>1, <2>6, OwnRead
<1> QED BY <1>1, <1>2, <1>3, <1>4

LEMMA BoundsOfTransfer ==
    ASSUME TypeInv, GradingInv, NEW p \in Syncs, import'.people = import.people,
           Report(p) \/ SyncCrash(p) \/ \E r, f, d : StartSync(p, r, f, d)
    PROVE  GradingInv'
<1>1. \A s, again : s.pc \in {"idle", "students"} => WellRead(s, again)
  BY DEF WellRead
<1>2. \A again : WellRead(NoSync, again)
  BY <1>1 DEF NoSync
<1>3. CASE Report(p) \/ SyncCrash(p)
  <2>1. Continues(p, NoSync) /\ UNCHANGED attVars /\ replanned' = replanned \ {p}
    BY <1>3 DEF Report, SyncCrash
  <2> QED BY <1>2, <2>1, OwnRead
<1>4. ASSUME NEW r, NEW f, NEW d, StartSync(p, r, f, d) PROVE GradingInv'
  <2> DEFINE n == [NoSync EXCEPT !.pc = "students", !.round = r, !.force = f, !.dry = d]
  <2>1. Continues(p, n) /\ UNCHANGED <<attVars, replanned>>
    BY <1>4 DEF StartSync
  <2>2. n.pc = "students"
    BY DEF NoSync
  <2> HIDE DEF n
  <2> QED BY <1>1, <2>1, <2>2, OwnRead
<1> QED BY <1>3, <1>4

\* A step of a tutor; the button is not transferring.
LEMMA TutorGrading ==
    ASSUME TypeInv, GradingInv, NoWebSync, UNCHANGED sync, import'.people = import.people,
           db'.students = db.students, db'.slots = db.slots,
           WellMarked', WellSent'
    PROVE  GradingInv'
<1>1. OneGroup' /\ OneSlot' /\ ReadOnce'
  BY DEF GradingInv, OneGroup, OneSlot, ReadOnce
<1>2. Web \in Syncs => WellRead(sync[Web], Web \in replanned)'
  BY DEF NoWebSync, Syncing, WellRead
<1> QED BY <1>1, <1>2 DEF GradingInv

LEMMA StepsOfPost ==
    ASSUME TypeInv, GradingInv, SlotOfSameRound, NoWebSync, UNCHANGED sync,
           import'.people = import.people, PostStep \/ PostCrash
    PROVE  GradingInv'
<1>0. /\ post \in PostSet /\ PostOK(post) /\ db \in DB
      /\ WellMarked /\ WellSent /\ OneGroup /\ OneSlot
  BY AttTypes DEF TypeInv, AttTypeOK, SolveTypeOK, PostOK, GradingInv
<1>1. ASSUME UNCHANGED db PROVE /\ \A u, g : InGroup(u, g)' <=> InGroup(u, g)
                                /\ \A s, r : OfSlot(s, r)' <=> OfSlot(s, r)
                                /\ \A g, s, r : MarkedGroup(g, s, r)' <=> MarkedGroup(g, s, r)
                                /\ WellMarked'
  <2>1. /\ \A u, g : InGroup(u, g)' <=> InGroup(u, g)
        /\ \A s, r : OfSlot(s, r)' <=> OfSlot(s, r)
        /\ \A g, s, r : MarkedGroup(g, s, r)' <=> MarkedGroup(g, s, r)
    BY <1>1 DEF InGroup, OfSlot, MarkedGroup
  <2> QED BY <1>0, <1>1, <2>1 DEF WellMarked
<1>2. CASE UNCHANGED db /\ post' = NoPost
  <2>1. WellSent'
    BY <1>0, <1>1, <1>2 DEF WellSent, NoPost
  <2> QED BY <1>1, <1>2, <2>1, TutorGrading
<1>3. ASSUME NEW g \in post.presentations, BeginGroup(g), post' # NoPost PROVE GradingInv'
  <2>1. /\ post'.pc = "members" /\ post'.group = g /\ post'.left = post.members[g]
        /\ post'.presentations \subseteq post.presentations /\ post'.statuses = {}
        /\ post'.members = post.members /\ post'.slot = post.slot /\ post'.round = post.round
        /\ post.pc = "next" /\ UNCHANGED db
    BY <1>0, <1>3 DEF BeginGroup, PostSet
  <2>2. WellSent'
    BY <1>0, <1>1, <2>1 DEF WellSent
  <2> QED BY <1>1, <2>1, <2>2, TutorGrading
<1>4. ASSUME NEW u \in post.left, MarkMember(u) PROVE GradingInv'
  <2>1. CASE UNCHANGED db /\ post' = [post EXCEPT !.left = @ \ {u}, !.statuses = @ \cup {SCHEDULED}]
    <3>1. /\ post'.pc = post.pc /\ post'.group = post.group /\ post'.left \subseteq post.left
          /\ post'.presentations = post.presentations
          /\ post'.statuses = post.statuses \cup {SCHEDULED}
          /\ post'.members = post.members /\ post'.slot = post.slot /\ post'.round = post.round
      BY <1>0, <2>1 DEF PostSet
    <3>2. WellSent'
      BY <1>0, <1>1, <2>1, <3>1 DEF WellSent, PRESENTED, SCHEDULED
    <3> QED BY <1>1, <2>1, <3>2, TutorGrading
  <2>2. CASE /\ db' = upsert_member_attendance(db, u, post.slot, post.group, post.round, Sent(u))
             /\ post' = [post EXCEPT !.left = @ \ {u}, !.statuses = @ \cup {Sent(u)},
                                     !.expired = @ \cup {post.group} \cup post.presentations]
    <3> DEFINE row == [student |-> u, slot |-> post.slot, group |-> post.group,
                       round |-> post.round, status |-> Sent(u)]
    <3>1. /\ db'.students = db.students /\ db'.pres = db.pres /\ db'.slots = db.slots
          /\ db'.att = {a \in db.att : ~(a.student = u /\ a.slot = post.slot)} \cup {row}
      BY <1>0, <2>2 DEF upsert_member_attendance, DB, Database
    <3>2. /\ post'.pc = post.pc /\ post'.group = post.group /\ post'.left \subseteq post.left
          /\ post'.presentations = post.presentations
          /\ post'.members = post.members /\ post'.slot = post.slot /\ post'.round = post.round
          /\ post.pc = "members"
      BY <1>0, <1>4, <2>2 DEF PostSet, MarkMember
    <3>3. /\ \A w, g : InGroup(w, g)' <=> InGroup(w, g)
          /\ \A s, r : OfSlot(s, r)' <=> OfSlot(s, r)
      BY <3>1 DEF InGroup, OfSlot
    <3>4. InGroup(u, post.group) /\ OfSlot(post.slot, post.round)
      BY <1>0, <3>2 DEF WellSent
    <3>5. /\ row \in db'.att /\ row.student = u /\ row.slot = post.slot /\ row.group = post.group
          /\ row.round = post.round
          /\ \A a \in db.att : a \in db'.att \/ (a.student = u /\ a.slot = post.slot)
          /\ \A a \in db'.att : a \in db.att \/ a = row
      BY <3>1
    <3> HIDE DEF row
    <3>6. \A a \in db.att : a.student = u /\ a.slot = post.slot =>
             a.group = post.group /\ a.round = post.round
      BY <1>0, <3>4 DEF WellMarked, InGroup, OfSlot, OneGroup, OneSlot
    <3>7. /\ \A g, s, r : MarkedGroup(g, s, r) => MarkedGroup(g, s, r)'
          /\ MarkedGroup(post.group, post.slot, post.round)'
      BY <3>2, <3>5, <3>6 DEF MarkedGroup
    <3>8. WellMarked'
      BY <1>0, <3>1, <3>3, <3>4, <3>5, <3>7 DEF WellMarked
    <3>9. WellSent'
      BY <1>0, <3>2, <3>3, <3>7 DEF WellSent
    <3> QED BY <3>1, <3>8, <3>9, TutorGrading
  <2> QED BY <1>2, <1>4, <2>1, <2>2 DEF MarkMember
<1>5. CASE LogMark
  <2>1. UNCHANGED db /\ (post' = NoPost \/ (/\ post'.pc = "members" /\ post'.group = post.group
            /\ post'.left = post.left /\ post'.slot = post.slot /\ post'.round = post.round
            /\ post'.presentations = post.presentations /\ post'.statuses = post.statuses
            /\ post'.members = post.members)) /\ post.pc = "members"
    BY <1>5, LogMarkFrame DEF TypeInv
  <2>2. CASE post' # NoPost
    <3>1. WellSent'
      BY <1>0, <1>1, <2>1, <2>2 DEF WellSent
    <3> QED BY <1>1, <2>1, <3>1, TutorGrading
  <2> QED BY <1>2, <2>1, <2>2
<1>6. CASE RollUp
  <2> DEFINE rolled == rollup_status(post.statuses)
             done   == [post EXCEPT !.pc = "next", !.group = NoGroup,
                                    !.handled = @ \cup {post.group}]
  <2>0. /\ post.pc = "members" /\ post \in PostSet
        /\ \A e : /\ [done EXCEPT !.expired = e].pc = "next"
                  /\ [done EXCEPT !.expired = e].slot = post.slot
                  /\ [done EXCEPT !.expired = e].round = post.round
                  /\ [done EXCEPT !.expired = e].presentations = post.presentations
                  /\ [done EXCEPT !.expired = e].members = post.members
        /\ done.pc = "next" /\ done.slot = post.slot /\ done.round = post.round
        /\ done.presentations = post.presentations /\ done.members = post.members
    BY <1>0, <1>6 DEF PostSet, RollUp
  <2>1. ASSUME db'.students = db.students, db'.slots = db.slots,
               post'.pc = "next", post'.slot = post.slot, post'.round = post.round,
               post'.presentations = post.presentations, post'.members = post.members
        PROVE  WellSent'
    <3>1. /\ \A w, g : InGroup(w, g)' <=> InGroup(w, g)
          /\ \A s, r : OfSlot(s, r)' <=> OfSlot(s, r)
      BY <2>1 DEF InGroup, OfSlot
    <3> QED BY <1>0, <2>0, <2>1, <3>1 DEF WellSent
  <2>2. CASE post' = done /\ UNCHANGED db
    <3>1. WellSent'
      BY <2>0, <2>1, <2>2
    <3> QED BY <1>1, <2>2, <3>1, TutorGrading
  <2>3. CASE /\ db' = update_presentation_status(db, post.group, post.slot, rolled)
             /\ post' = [done EXCEPT !.expired = @ \cup post.presentations]
    <3>1. /\ db'.students = db.students /\ db'.att = db.att /\ db'.slots = db.slots
          /\ db'.pres = {IF x.group = post.group /\ x.slot = post.slot
                         THEN [x EXCEPT !.status = rolled] ELSE x : x \in db.pres}
      BY <1>0, <2>3 DEF update_presentation_status, DB, Database
    <3>2. WellSent'
      BY <2>0, <2>1, <2>3, <3>1
    <3>3. rolled = PRESENTED => MarkedGroup(post.group, post.slot, post.round)
      <4>1. rolled = PRESENTED => PRESENTED \in post.statuses
        BY DEF rollup_status, PRESENTED, NO_SHOW, SCHEDULED
      <4> QED BY <1>0, <2>0, <4>1 DEF WellSent
    <3>4. /\ \A w, g : InGroup(w, g)' <=> InGroup(w, g)
          /\ \A s, r : OfSlot(s, r)' <=> OfSlot(s, r)
          /\ \A g, s, r : MarkedGroup(g, s, r)' <=> MarkedGroup(g, s, r)
      BY <3>1 DEF InGroup, OfSlot, MarkedGroup
    <3>5. ASSUME NEW y \in db'.pres
          PROVE  \E x \in db.pres : /\ y.group = x.group /\ y.slot = x.slot /\ y.round = x.round
                                    /\ \/ y.status = x.status
                                       \/ x.group = post.group /\ x.slot = post.slot /\ y.status = rolled
      <4>1. PICK x \in db.pres : y = IF x.group = post.group /\ x.slot = post.slot
                                     THEN [x EXCEPT !.status = rolled] ELSE x
        BY <3>1
      <4>2. x \in [group : GroupIds, slot : SlotIds, round : RoundIds, status : Statuses]
        BY <1>0 DEF DB, Database
      <4> HIDE DEF rolled
      <4> QED BY <4>1, <4>2
    <3> HIDE DEF rolled
    <3>6. ASSUME NEW y \in db'.pres
          PROVE  y.status = PRESENTED => MarkedGroup(y.group, y.slot, y.round)
      <4>1. PICK x \in db.pres : /\ y.group = x.group /\ y.slot = x.slot /\ y.round = x.round
                                 /\ \/ y.status = x.status
                                    \/ x.group = post.group /\ x.slot = post.slot /\ y.status = rolled
        BY <3>5, <3>6
      <4>2. OfSlot(x.slot, x.round) /\ OfSlot(post.slot, post.round)
        BY <1>0, <2>0 DEF SlotOfSameRound, OfSlot, WellSent
      <4>3. x.slot = post.slot => x.round = post.round
        BY <1>0, <4>2 DEF OfSlot, OneSlot
      <4>4. x.status = PRESENTED => MarkedGroup(x.group, x.slot, x.round)
        BY <1>0 DEF WellMarked
      <4> QED BY <3>3, <4>1, <4>2, <4>3, <4>4
    <3>7. WellMarked'
      BY <1>0, <3>1, <3>4, <3>6 DEF WellMarked
    <3> QED BY <3>1, <3>2, <3>7, TutorGrading
  <2> QED BY <1>2, <1>6, <2>2, <2>3 DEF RollUp
<1> QED BY <1>2, <1>3, <1>4, <1>5, <1>6 DEF PostStep, PostCrash, BeginGroup, Answered200

\* A submission is made of the rows of a slot and of due members.
LEMMA PagesGrading ==
    ASSUME TypeInv, GradingInv, SlotOfSameRound, NoWebSync, UNCHANGED sync, import'.people = import.people,
           \/ \E s \in db.slots : TutorForm(s)
           \/ \E page \in pages : \E form : TutorSubmit(page, form)
    PROVE  GradingInv'
<1>0. WellMarked /\ WellSent /\ UNCHANGED db
  BY DEF GradingInv, TutorForm, TutorSubmit
<1>1. /\ \A u, g : InGroup(u, g)' <=> InGroup(u, g)
      /\ \A s, r : OfSlot(s, r)' <=> OfSlot(s, r)
      /\ \A g, s, r : MarkedGroup(g, s, r)' <=> MarkedGroup(g, s, r)
  BY <1>0 DEF InGroup, OfSlot, MarkedGroup
<1>2. WellMarked'
  BY <1>0, <1>1 DEF WellMarked
<1>3. ASSUME NEW s \in db.slots, TutorForm(s) PROVE WellSent'
  BY <1>0, <1>1, <1>3 DEF TutorForm, WellSent
<1>4. ASSUME NEW page \in pages, NEW form, TutorSubmit(page, form) PROVE WellSent'
  <2> DEFINE groups == {x.group : x \in get_presentations_for_slot(db, page.round, page.slot)}
  <2>1. /\ post'.pc = "next" /\ post'.slot = page.slot /\ post'.round = page.round
        /\ post'.presentations = groups /\ post'.members = [g \in groups |-> DueStudents(g)]
    BY <1>4 DEF TutorSubmit, NoPost
  <2>2. \A g : \A u \in DueStudents(g) : InGroup(u, g)
    BY DEF DueStudents, InGroup
  <2>3. groups # {} => OfSlot(page.slot, page.round)
    BY DEF get_presentations_for_slot, SlotOfSameRound, OfSlot
  <2> HIDE DEF groups
  <2> QED BY <1>0, <1>1, <2>1, <2>2, <2>3 DEF WellSent
<1> QED BY <1>0, <1>2, <1>3, <1>4, TutorGrading


\* What an import reads names each student once.
LEMMA ReadingOnce ==
    ASSUME ImportInv, ReadOnce, StartImport \/ StartExcel \/ ReadTeams \/ ReadAssessments
    PROVE  ReadOnce'
<1>0. import \in ImportSet /\ import.people \in SUBSET Participant
  BY DEF ImportInv, ImportSet
<1>1. CASE StartImport \/ StartExcel
  <2> DEFINE alone(u) == [user_id |-> u, group |-> NoTeam, prev |-> u \in course.prev,
                          assessed |-> FALSE, results |-> course.results[u]]
             inTeam(u) == [user_id |-> u, group |-> course.group[u], prev |-> u \in course.prev,
                           assessed |-> FALSE, results |-> course.results[u]]
  <2>1. \/ import'.people = {alone(u) : u \in UserIds}
        \/ import'.people = {inTeam(u) : u \in UserIds}
    BY <1>1 DEF StartImport, StartExcel, NoImport
  <2>2. \A u : alone(u).user_id = u /\ inTeam(u).user_id = u
    OBVIOUS
  <2> HIDE DEF alone, inTeam
  <2> QED BY <2>1, <2>2 DEF ReadOnce
<1>2. CASE ReadTeams \/ ReadAssessments
  <2> DEFINE teamed(p) == [p EXCEPT !.group = course.group[p.user_id]]
             examined(p) == [p EXCEPT !.assessed = p.user_id \in
                                passed_assessment_user_ids(course.assessments)]
  <2>1. \/ import'.people = {teamed(p) : p \in import.people}
        \/ import'.people = {examined(p) : p \in import.people}
    BY <1>0, <1>2 DEF ReadTeams, ReadAssessments, ImportSet
  <2>2. \A p \in import.people : teamed(p).user_id = p.user_id /\ examined(p).user_id = p.user_id
    BY <1>0 DEF Participant
  <2> HIDE DEF teamed, examined
  <2> QED BY <2>1, <2>2 DEF ReadOnce
<1> QED BY <1>1, <1>2

LEMMA CommitGrading ==
    ASSUME ImportInv, GradingInv, Unmoved, CommitStudents \/ CommitGroups
    PROVE  GradingInv'
<1>0. /\ import \in ImportSet /\ import.people \in SUBSET Participant /\ db \in DB
      /\ UNCHANGED <<post, sync, replanned>>
  BY DEF ImportInv, ImportSet, TypeInv, AttTypeOK, SolveTypeOK, CommitStudents, CommitGroups
<1>1. ReadOnce'
  BY <1>0 DEF GradingInv, ReadOnce, CommitStudents, CommitGroups, ImportSet
<1>2. db'.slots = db.slots /\ db'.att = db.att /\ db'.pres = db.pres
  BY <1>0 DEF CommitStudents, CommitGroups, upsert_students, upsert_groups, DB, Database
<1>3. \/ db'.students = db.students
      \/ db'.students = {s \in db.students : s.user_id \notin {p.user_id : p \in import.people}} \cup
                        {StudentRow(p) : p \in import.people}
  BY <1>0 DEF CommitStudents, CommitGroups, upsert_students, upsert_groups, StudentRow, DB, Database
<1>4. \A p : StudentRow(p).user_id = p.user_id
  BY DEF StudentRow
<1>5. OneGroup'
  BY <1>3, <1>4 DEF GradingInv, OneGroup, ReadOnce
<1>6. ASSUME NEW u, NEW g, InGroup(u, g) PROVE InGroup(u, g)'
  <2>1. PICK s \in db.students : s.user_id = u /\ s.group = g
    BY <1>6 DEF InGroup
  <2>2. \E t \in db'.students : t.user_id = u
    BY <1>3, <1>4, <2>1
  <2> QED BY <2>1, <2>2 DEF InGroup, Unmoved
<1>7. /\ \A s, r : OfSlot(s, r)' <=> OfSlot(s, r)
      /\ \A g, s, r : MarkedGroup(g, s, r)' <=> MarkedGroup(g, s, r)
  BY <1>2 DEF OfSlot, MarkedGroup
<1>8. WellMarked' /\ WellSent' /\ OneSlot'
  BY <1>0, <1>2, <1>6, <1>7 DEF GradingInv, WellMarked, WellSent, OneSlot
<1>9. Web \in Syncs => WellRead(sync[Web], Web \in replanned)'
  BY <1>0, <1>2 DEF GradingInv, WellRead, MarksIn
<1> QED BY <1>1, <1>5, <1>8, <1>9 DEF GradingInv

\* An edit gives no slot an id that is in use.
LEMMA EditOneSlot ==
    ASSUME db \in DB, OneSlot, AdminRequest PROVE OneSlot'
<1>1. CASE db'.slots \subseteq db.slots
  BY <1>1 DEF OneSlot
<1>2. ASSUME NEW r, NEW c, AddSlot(r, c) PROVE OneSlot'
  <2>1. db'.slots = db.slots \cup {[id |-> NewId(db.slots), round |-> r, capacity |-> c]}
    BY <1>2 DEF AddSlot, create_slot, DB, Database
  <2>2. MaxSlot \in Nat /\ Ids(db.slots) \subseteq 1..MaxSlot
    BY IdsAssumption DEF DB, Database, Ids, SlotIds
  <2>3. \A x \in db.slots : x.id < NewId(db.slots) /\ x.id \in Int
    BY <2>2, NewIdIsFree DEF Ids
  <2>4. \A x \in db.slots : x.id # NewId(db.slots)
    BY <1>2, <2>3 DEF AddSlot, SlotIds
  <2> QED BY <2>1, <2>4 DEF OneSlot
<1>3. CASE CreateNewRound
  BY <1>1, <1>3 DEF CreateNewRound, create_round, DB, Database
<1>4. ASSUME NEW x \in db.slots, DeleteSlot(x) PROVE OneSlot'
  BY <1>1, <1>4 DEF DeleteSlot, remove_slot, DB, Database
<1>5. ASSUME NEW r, NEW g, NEW inc, NEW ovr, NEW pin, CurateGroup(g, r, inc, pin, ovr)
      PROVE  OneSlot'
  BY <1>1, <1>5 DEF CurateGroup, upsert_curation, DB, Database
<1>6. ASSUME NEW r, NEW inc, NEW gs, CurateAll(r, inc) \/ CurateSelected(r, gs, inc)
      PROVE  OneSlot'
  BY <1>1, <1>6 DEF CurateAll, CurateSelected, set_all_curations_included, DB, Database
<1>7. ASSUME NEW r, NEW x, SetMode(r, x) \/ SetQuorum(r, x) PROVE OneSlot'
  BY <1>1, <1>7 DEF SetMode, SetQuorum, set_round_mode, set_round_quorum, DB, Database
<1> QED BY <1>2, <1>3, <1>4, <1>5, <1>6, <1>7 DEF AdminRequest

\* Students and marks stay, and so does what a mark or a submission names; a row
\* that was not there says nothing.
LEMMA PlanningKeeps ==
    ASSUME TypeInv, GradingInv, Planners
    PROVE  /\ Keeps /\ UNCHANGED <<post, sync>> /\ OneSlot'
           /\ \A x \in db'.pres : x \in db.pres \/ x.status = SCHEDULED
           /\ \A a \in db.att : OfSlot(a.slot, a.round) => OfSlot(a.slot, a.round)'
           /\ db'.slots = db.slots \/ post.pc = "idle"
<1>0. db \in DB /\ OneSlot /\ UNCHANGED sync
  BY DEF TypeInv, AttTypeOK, SolveTypeOK, GradingInv, Planners, Planner
<1>1. CASE AttEdit
  <2>1. AdminRequest /\ UNCHANGED post /\ post.pc = "idle"
    BY <1>1 DEF AttEdit, Edit
  <2>2. Keeps /\ db'.pres = db.pres
    BY <1>0, <2>1, EditType, EditKeeps DEF Keeps
  <2>3. \A a \in db.att : OfSlot(a.slot, a.round) => OfSlot(a.slot, a.round)'
    BY <1>0, <2>1, EditSlots DEF SlotReferenced, OfSlot
  <2> QED BY <1>0, <2>1, <2>2, <2>3, EditOneSlot
<1>2. CASE /\ \E p \in Procs : SolveStep(p) \/ Crash(p) \/ \E r \in db.rounds : Start(p, r)
           /\ UNCHANGED post
  <2>1. Keeps /\ \A x \in db'.pres : x \in db.pres \/ x.status = SCHEDULED
    BY <1>0, <1>2, SolveKeeps
  <2>2. db'.slots = db.slots
    BY <1>0, <1>2, SolveSameParents DEF SameParents
  <2> QED BY <1>0, <1>2, <2>1, <2>2 DEF OneSlot, OfSlot
<1> QED BY <1>1, <1>2 DEF Planners, Planner, Solving, StartSolve

LEMMA PlannersGrading ==
    ASSUME TypeInv, GradingInv, Planners, import'.people = import.people PROVE GradingInv'
<1>0. /\ Keeps /\ UNCHANGED <<post, sync>> /\ OneSlot'
      /\ \A x \in db'.pres : x \in db.pres \/ x.status = SCHEDULED
      /\ \A a \in db.att : OfSlot(a.slot, a.round) => OfSlot(a.slot, a.round)'
      /\ db'.slots = db.slots \/ post.pc = "idle"
  BY PlanningKeeps
<1>1. OneGroup' /\ ReadOnce'
  BY <1>0 DEF GradingInv, OneGroup, ReadOnce, Keeps
<1>2. /\ \A u, g : InGroup(u, g)' <=> InGroup(u, g)
      /\ \A g, s, r : MarkedGroup(g, s, r)' <=> MarkedGroup(g, s, r)
      /\ db'.slots = db.slots => \A s, r : OfSlot(s, r)' <=> OfSlot(s, r)
  BY <1>0 DEF InGroup, OfSlot, MarkedGroup, Keeps
<1>3. WellMarked'
  BY <1>0, <1>2 DEF GradingInv, WellMarked, Keeps, PRESENTED, SCHEDULED
<1>4. WellSent'
  BY <1>0, <1>2 DEF GradingInv, WellSent
<1>5. ASSUME Web \in Syncs PROVE WellRead(sync[Web], Web \in replanned)'
  <2> DEFINE s == sync[Web]
  <2>1. db'.att = db.att /\ sync' = sync /\ WellRead(s, Web \in replanned)
    BY <1>0, <1>5 DEF Keeps, GradingInv
  <2>2. Web \notin replanned' =>
           /\ Web \notin replanned
           /\ s.pc \in {"existing", "write", "request"} =>
                 \A x \in db'.pres : x.round = s.round => x \in db.pres
    BY <1>5 DEF Planners, Planner, Syncing, Decided, get_presentations_for_round
  <2> QED BY <2>1, <2>2 DEF WellRead, MarksIn
<1> QED BY <1>0, <1>1, <1>3, <1>4, <1>5 DEF GradingInv

LEMMA SyncNextGrading ==
    ASSUME TypeInv, GradingInv, SlotOfSameRound, SyncNext, import'.people = import.people PROVE GradingInv'
<1>1. ASSUME NEW p \in Syncs, SyncStep(p) \/ SyncCrash(p) \/ \E r, f, d : StartSync(p, r, f, d)
      PROVE  GradingInv'
  BY <1>1, ReadsMembers, ReadsMarks, ReadsStatuses, WritesSame, BoundsOfTransfer DEF SyncStep
<1>2. CASE (\E i : Land(i)) \/ (\E a : Release(a))
  <2>1. UNCHANGED <<attVars, sync, replanned>>
    BY <1>2 DEF Land, Release
  <2>2. UNCHANGED <<db, post>> /\ ReadOnce' /\ (Web \in Syncs => WellRead(sync'[Web], Web \in replanned'))
    BY <2>1 DEF attVars, solveVars, GradingInv, ReadOnce
  <2> QED BY <2>2, StandingStill
<1>3. CASE Tutors
  <2>1. NoWebSync /\ UNCHANGED sync
    BY <1>3 DEF Tutors
  <2> QED BY <1>3, <2>1, StepsOfPost, PagesGrading DEF Tutors
<1> QED BY <1>1, <1>2, <1>3, PlannersGrading DEF SyncNext

LEMMA GradingStep ==
    ASSUME ImportInv, GradingInv, SlotOfSameRound, [ImportNext /\ Unmoved]_importVars
    PROVE  GradingInv'
<1>0. TypeInv /\ import \in ImportSet
  BY DEF ImportInv
<1>1. ASSUME UNCHANGED <<attVars, sync, replanned>>, ReadOnce' PROVE GradingInv'
  <2>1. UNCHANGED <<db, post>> /\ (Web \in Syncs => WellRead(sync'[Web], Web \in replanned'))
    BY <1>1 DEF attVars, solveVars, GradingInv
  <2> QED BY <1>1, <2>1, StandingStill
<1>2. CASE UNCHANGED importVars
  <2>1. UNCHANGED <<attVars, sync, replanned, import>>
    BY <1>2 DEF importVars, syncVars
  <2> QED BY <1>1, <2>1 DEF GradingInv, ReadOnce
<1>3. CASE ImportEnds
  <2>1. UNCHANGED <<attVars, sync, replanned>> /\ ReadOnce'
    BY <1>3 DEF ImportEnds, syncVars, ReadOnce, NoImport
  <2> QED BY <1>1, <2>1
<1>4. CASE StartImport \/ StartExcel \/ ReadTeams \/ ReadAssessments
  <2>1. UNCHANGED <<attVars, sync, replanned>>
    BY <1>4 DEF StartImport, StartExcel, ReadTeams, ReadAssessments, syncVars
  <2> QED BY <1>1, <1>4, <2>1, ReadingOnce DEF GradingInv
<1>5. CASE Unmoved /\ (CommitStudents \/ CommitGroups)
  BY <1>5, CommitGrading
<1>6. ASSUME NEW A, import' = [import EXCEPT !.steady = A] PROVE import'.people = import.people
  BY <1>0, <1>6 DEF ImportSet
<1>7. CASE Beside(SyncNext)
  BY <1>0, <1>6, <1>7, SyncNextGrading DEF Beside
<1>8. CASE \/ Beside(\E u \in UserIds, points \in Points : EnterResult(u, points))
           \/ Beside(\E u \in UserIds, g \in GroupIds \cup {NoTeam} : MoveStudent(u, g))
  <2>1. UNCHANGED <<attVars, sync, replanned>> /\ import'.people = import.people
    BY <1>6, <1>8 DEF Beside, EnterResult, MoveStudent
  <2> QED BY <1>1, <2>1 DEF GradingInv, ReadOnce
<1> QED BY <1>2, <1>3, <1>4, <1>5, <1>7, <1>8 DEF ImportNext, ImportStep

\* The button grades only those whom a tutor has marked as having presented, and
\* all of them unless the schedule changes after it was read, whatever is solved,
\* edited, imported and cut short meanwhile.  It takes that no import moves a
\* student to another group (then the marks of the others may be those of no
\* group, and the status decides), that no row is on a slot of another round (a
\* stale `plan` beside edits can make one), and that the marks of the first
\* database are of members and back the statuses.
THEOREM OnlyPresentersAreGraded ==
    ImportSpec /\ WellMarked /\ []SlotOfSameRound /\ [][Unmoved]_importVars
        => []OnlyPresentersGraded
<1>1. ImportInit /\ WellMarked => GradingInv
  <2> SUFFICES ASSUME ImportInit, WellMarked PROVE GradingInv
    OBVIOUS
  <2>1. db \in Databases /\ pages = {} /\ post.pc = "idle" /\ import.people = {}
        /\ (Web \in Syncs => sync[Web].pc = "idle")
    BY DEF ImportInit, SyncInit, AttInit, SolveInit, NoPost, NoImport, NoSync
  <2>2. OneGroup /\ OneSlot
    BY <2>1, IdsAssumption DEF Consistent, KeysUnique, OneGroup, OneSlot
  <2> QED BY <2>1, <2>2 DEF GradingInv, WellSent, WellRead, ReadOnce
<1>2. ImportInv /\ GradingInv /\ SlotOfSameRound /\ [ImportNext]_importVars /\ [Unmoved]_importVars
         => GradingInv'
  BY GradingStep
<1>3. ImportInv /\ GradingInv => OnlyPresentersGraded
  BY GradingMeans DEF ImportInv
<1> QED BY <1>1, <1>2, <1>3, ImportInvariant, PTL DEF ImportSpec
=============================================================================
