# Verification of the Tutorium-Planer

TLA+ models, TLC runs and TLAPS proofs for the planner in `src/src/planer`: a
web application and a command line that ask students for their availability,
assign groups to presentation slots, record who presented and report it.

## 1. The system

One SQLite file is the only shared state. Two kinds of processes work on it:

* the **web process** (uvicorn, one worker): admin pages, the students' form,
  the tutors' page, the solve and the sync button. Its handlers are `async def`
  functions that call the database, and the course system, synchronously. Their
  only `await` is for the form, before the first query, so **handlers exclude
  each other**, and a sync keeps everybody waiting.
* **commands of the CLI** (`plan`, `send`, `remind`, `sync`, `import`,
  `purge`): processes of their own. Nothing excludes them from each other or
  from the web process: they **interleave at every SELECT and commit**.

Every repository function that writes commits by itself, so a handler or a
command with several writes can be cut short between two of them. Outside is the
**course system** (stu-mgmt), which holds participants, groups, results and
assessments, is worked on by lecturers, and answers over HTTP.

| Part (source) | State | Operations | What makes it correct |
|---|---|---|---|
| Assignment (`domain/scheduling.py`) | remaining capacities, assignments, unplaced, of one call | pins, greedy loop | exact counters, capacity, one decision per group, justified rejections, determinism, termination |
| Predicates (`domain/filtering.py`, `availability.py`, `tracking.py`) | none | due-ness, quorum, declines, carry-over | used by the schedule properties |
| Repository (`adapters/db.py`) | the tables | upserts, deletes, queries | unique keys, no dangling rows |
| Planning (`planning.py`) | what a solve has read and must write | reads, assignment, delete, creates | the schedule is sound and complete and replaces the old one |
| Admin requests (`web/admin.py`) | rounds, slots, curations | create, edit, delete, bulk curation, solve, sync | edits never break rows others use |
| Availability form (`web/public.py`) | open pages, answers | GET, POST in two modes | what was said is what is stored |
| Tutor page (`web/tutor.py`) | open pages, marks, statuses | GET, POST | marks and statuses agree; who presented is done |
| Mailing (`mailing.py`, `adapters/mail.py`) | e-mail log | send, remind | log never ahead of the mail; no double mail; everybody tried |
| Sync (`adapters/submit_results.py`, `domain/results_submission.py`) | what a transfer has read and must write, its report | reads, PATCH, bulk POST | the report is true; nobody assessed twice; exactly the presenters graded; it ends |
| Course client (`ingest_api.py`, `sparky.py`) | the request under way | retry, renewal of the token | as above |
| Import (`ingest_excel.py`, `ingest_api.py`, `cli.py`) | students, groups | three reads, two upserts | the planner summons who is due; nobody without a group |
| Purge and reuse of ids (`db.py`, `cli.py`) | rounds | `delete_round` | nothing dangles; answers never change their meaning |
| Export (`export.py`), links, log-in (`security.py`), migration (`db.py`), shell (`web/app.py`) | – | – | not modelled, see 5 |

Hard behaviours: interleaving of the CLI with itself and with the web process;
pages that are older than the tables they are submitted against; ids that are
given out again (`INTEGER PRIMARY KEY` without `AUTOINCREMENT`); crashes between
commits; SQLAlchemy rows that expire at a commit and fail when loaded again; an
SMTP server that reports a failure for a mail it took, or falls silent; a course
system that applies a write it answers with an error, or applies it later. `PROJECT.json`
lists each hazard at its line with the properties that cover it.

## 2. Modules

```
Domain ─┬─ Scheduler ── MCScheduler                        Placement (abstract)
        └─ Repository ─┬─ AdminWeb ─┬─ AvailabilityForm ── RoundPurge ── MCRoundPurge
                       ├─ Planning ─┴─ SolveRound ─┬─ MCSolveRound
                       │                           ├─ Mailing ── MCMailing
                       │                           └─ Attendance ─┬─ MCAttendance
                       └─ CourseClient ───────────────────────────┴─ ResultSync
                                                                       │
                                                             MCImport ─ Import
```

Each `X_proofs` extends X; beside that the proofs use each other's lemmas:

```
Assign_proofs ─┬─ Scheduler_proofs
(of Domain)    └──────────────┬─ SolveRound_proofs ─┬─ Attendance_proofs ── Import_proofs
Repository_proofs ─┬──────────┘                     └─ Mailing_proofs
                   └─ RoundPurge_proofs
```

* **Domain**: the pure functions. A group id is a number that stands for the
  rank of the text id. A slot id is the number the database gave it; the code
  turns it into a text before it sorts, and the constant `SlotRank` is the order
  of these texts. `assign` is the whole call as a function: `after[S]` is what
  the loop has when it is through with the groups of S, which it visits in the
  order `Earlier`, so the last of S is the one it has put down last (`LastOf`,
  `PlaceNext`).
* **SlotTexts**: that order for the instances TLC checks: `"10"` comes before
  `"9"`. All MC modules extend it.
* **Scheduler**: one call of `assign` as a state machine; one action per loop
  body and outcome (`PlacePinned`, `PinFails`, `PlaceFree`, `LeaveUnplaced`).
  `call` are the arguments, the other variables have the names of the code.
* **Placement**: what the assignment promises, with neither counters nor order.
* **Repository**: a database is a record of tables, a writing function an
  operator from a database to the one after its commit, `delete_round` with
  the foreign keys that can refuse it (`PurgeRefused`).
* **AdminWeb**: one action per handler with one commit. Requests the database
  or the handler refuses change nothing and are left out.
* **Planning**: the computation of `solve_round` between reads and writes.
* **SolveRound**: `solve_round` as its SELECTs and commits, by any set of
  processes. `Web` is the process whose handlers are serialised: `Edit` waits
  for its solve, CLI solves wait for nobody.
* **Attendance**: the tutor's GET and POST on top of SolveRound; `expired` are
  the ORM rows that must be loaded again, which may fail: the one of the group in
  hand by the log line after each mark (`LogMark`), the others when their turn
  comes (`BeginGroup`).
* **AvailabilityForm**: the student's GET and POST on top of AdminWeb.
* **RoundPurge**: `planer purge` beside AvailabilityForm: the list of slots is
  read first (`StartPurge`), the deletes are one transaction (`Delete` or
  `Refuse`).
* **Mailing**: the three mail commands on top of SolveRound, with purges.
  `inbox` is what the SMTP server (external) has delivered; whether it ever
  answers is left open (`Deliver`). `calm` is a history variable, which the code
  has no counterpart of.
* **CourseClient**: the course system as far as the code uses it (external: a
  write and when it is applied), and `StuMgmtClient._request`, one attempt at a
  time (`AfterAnswer`).
* **ResultSync**: `submit_results` on top of Attendance, by the web process and
  by any set of commands; one action per SELECT, GET, request and attempt.
  Beside it are tutors (`Tutors`), and solves and edits (`Planners`): what the web
  process does waits for the button, a `plan` of the CLI does not. `calm`,
  `overwritten` and `replanned` are history variables; the last has the transfers
  for which the schedule has changed after they read it.
* **Import**: `planer import` on top of ResultSync, so also beside solves and
  edits, with lecturers at work in the course; `steady` is a history variable.
* **MC…**: values and bounds for TLC. Definitions named `…_mutant` are
  plausible mistakes in the definition that follows them; with one of them put
  in its place the property named in `PROJECT.json` fails.

## 3. Runs

| Run | Shows |
|---|---|
| `scheduler` | every call with up to 3 groups, 2 slots, capacities 0–2 and all pins (also on a foreign slot): the loops are exact, respect capacities, decide once, are deterministic, end, and implement `Placement` |
| `solve_web` | after a solve by the web process the schedule is right in terms of the tables: nobody wrongly scheduled (`ScheduleSound`), nobody forgotten (`ScheduleComplete`); rows sit on slots of their round |
| `solve_cli` | one CLI solve after another, edits and crashes anywhere: keys and foreign keys, one row per group, complete replacement |
| `attendance` | two pages open, three submissions in any order, then the next round: statuses take effect, agree with marks, and exclude who presented |
| `attendance_cli` | `plan` between the commits of a POST, crashes, edits: no status without marks, no broken key |
| `form` | two pages, two submissions, three edits or purges between any two commits, crashes: a submission from a page that is still current is stored as sent; an answered slot keeps its row although ids are reused; a purge leaves nothing dangling |
| `mail` | sends, solves, edits and purges, any crash, loss or false report: a success in the log means the mail arrived, and no log row outlives its round. As long as all is calm (honest server, no crash, no `--force`, no purge, a round that exists): no double mail, and, if the server answers, a failing mail keeps nobody else from being tried |
| `course` | transfers and imports from both processes around a tutor's submission; attempts that fail, writes applied late or unknown to the client, crashes, lecturers: the report is true, nobody is assessed twice in calm, what an import leaves is right, the examined stay so |
| `button` | transfers by the button, also dry ones, after a submission that may have been cut short, while an import commits and a `plan` solves the round again between any two reads: nobody is graded who was not marked as having presented, and all who were are, unless the schedule changed after it was read; and whatever the course system answers, the web process serves again |

### Disagreements

These runs end with the violation of a claim that a comment or the README makes;
`PROJECT.json` quotes it under "findings".

| Run | What happens |
|---|---|
| `held_back` | a group whose pin was declined is scheduled elsewhere instead of being held back |
| `resolve` | a round is solved again after marking: the status is reset, the group is scheduled once more in the next round |
| `purge` | a round in which somebody has been marked cannot be purged: `delete_round` leaves `member_attendance`, whose foreign keys refuse it |

Behaviour of the same kind that the models have and no property states:

* two solves of one round at once leave rows of both (`planning.py:107`);
* a pinned group is scheduled even when none of its members is due
  (`planning.py:93`, against the docstring in line 38);
* a slot the page never showed, or a question never answered, is stored as an
  explicit no (`public.py:125`);
* a tutor page opened before somebody else's submission leaves a status that is
  not the rollup of all marks (`tutor.py:147`);
* in confirm mode the POST looks the pin up again, so a yes to the slot shown can
  be stored for the slot pinned since (`public.py:106`);
* a command killed between a mail and its log row, or given a round that does
  not exist, sends the same mail again when repeated (`mailing.py:134`);
* the log does not know slots, so after a second solve the members of a group
  that moved are not told (`mailing.py:259`);
* the last round's id is given out again after its purge, and an old link opens
  the new round (`db.py:598`);
* a mail server that falls silent keeps a command, and everybody after that
  recipient, waiting for ever: the connection has no time-out
  (`adapters/mail.py:60`), against "never blocks the other recipients" in
  `mailing.py:8-9`;
* a `plan` that deletes the rows of a round before the button reads them and
  creates them again afterwards makes it leave out who has presented, until
  results are transferred again (`planning.py:107`, `submit_results.py:84`);
  `OnlyPresentersGraded` excepts it (`replanned`);
* a crash after the marks of a group's members and before its status leaves
  marks ahead of the status (`tutor.py:148`); `MarksBackStatus` only speaks of
  the converse;
* a slot added between the two halves of a purge makes it fail (`db.py:577`);
* a POST that was applied although it was answered with a 5xx is made again, and
  so do two transfers at once: the course then holds two assessments of a user
  (`ingest_api.py:45`, `submit_results.py:95`);
* a 401 on the last attempt, after two 5xx, ends in the error that is commented
  "unreachable" (`ingest_api.py:52`);
* a transfer by the CLI reads marks before a submission and statuses after it,
  and then goes by the status for a group that has marks (`submit_results.py:84`);
* a student without the homework result is stored with 0 points and so is due,
  where `is_due` asks for a result (`db.py:200`, `filtering.py:38`);
  `ImportIsCurrent` excepts them;
* a forced transfer turns a released assessment into a draft again, and the next
  import makes the student due; so does an import from the file, which knows no
  assessments; `ExaminedStay` excepts both;
* who has left the course stays in the tables, and due.

### Bounds, and why they are enough

* `MaxRound`, `MaxSlot` bound ids; the databases leave one slot id free where
  the reuse of ids matters. Two groups, one of them with two members, suffice
  for competition, quorum and rollup; three groups in `scheduler` let a
  rejected group meet a pin and an earlier group on one slot.
* `MaxRequests`, `MaxEdits`, `MaxPosts`, `MaxOpened`, `MaxPages`, `MaxChanges`
  bound how often people act. Two of each allow one stale view and one change
  under it; three where a repetition must follow a crash or an earlier schedule.
  In `mail` a request less is allowed once not all is calm: the deepest
  histories serve the properties about calm.
* `MaxTroubles = 1` bounds crashes and writes applied against what the client
  believes; attempts that fail without effect need no bound, the client stops
  by itself.
* The slots of `scheduler` are 9 and 10, which as texts are the other way round,
  and slot 1 is the foreign one.
* `Options`, `Sources` and `MaxSolves`: `course` leaves dry transfers and solves
  to `button`, which leaves forced transfers, the file and lecturers to `course`.
  The solve of `button` finds the group on the same slot again, which is when
  marks and rows agree once more after it, and nothing but `replanned` tells.
* The initial databases and courses are states an earlier use could have left;
  they are chosen to differ in what the computation tells apart.
* `SolvedRounds = {2}` in `attendance`: round 1 is not solved again after
  marking, because that is the disagreement `resolve`.
* `SYMMETRY Alike` in `form`: its two students differ in nothing, and none of
  its properties is a liveness property.
* `CHECK_DEADLOCK FALSE` everywhere: a call of `assign` ends, and people may
  stop using the program.

### Fairness

* `Scheduler`: `WF(Next)`, as the loop of a running function goes on.
* `MCMailing`: weak fairness of each command's own steps (`Proceed`), as a
  command that nobody kills runs on, and none of the server's answer: the
  connection has no time-out. `EveryoneIsTried` therefore supposes of each command
  that every send it waits for returns or raises some time (`ServerAnswers`). It
  excepts a command whose presentations a solve deletes: it may end when it loads
  one again.
* `MCImport`: weak fairness of the web process's submission (`Marking`) and of
  its transfer (`Transfers(Web)`), in which each attempt ends in some answer:
  the HTTP client has a time-out. Nothing is assumed of what the answers are.

Nothing is assumed of people, of lecturers or of the other commands; no other
run needs fairness.

## 4. Proofs

For all values of the constants that satisfy the named assumptions. None of the
theorems bounds the groups, users, rounds, slots, processes or requests. Of the
order in which slot ids are sorted they take that it is one (`Ranked`: different
ids are different texts), whatever it is.

* **Assign_proofs** (no assumptions): what the function `assign` of Domain
  does, for any finite sets. Induction is over finite sets of groups
  (`SubsetInduction`, from `LeastNumber`: the least size of a counterexample);
  `OrderIsTotal` and `LastIsUnique` say that the sort order has one last group,
  `BestIsUnique` that a slot choice is never a tie, `AfterUnfolds` that the
  recursion is the loop. `AssignIsSound` is the specification of the result:
  pins kept, feasible slots only, capacity, and a reason for each group left out.
* **Scheduler_proofs** (from `DataAssumption`, `CallsAssumption`). `IInv` joins
  the types, finiteness of the schedule, that decided and undecided groups and
  pins are apart (`Apart`), that pins come first (`PinsFirst`) and the exact
  counters. `CapacityRespected` is not inductive without the counters, nor
  `DecidedOnce` without `Apart`. From it: `TypeCorrect`, `CountersAreExact`,
  `CapacityIsRespected`, `EachDecidedOnce`, `OnlyAllowedSlots`.
  `UnplacedIsJustified` adds `PlacedInOrder`, that placed free groups precede
  those still waiting. `Implements` maps each action to an action of
  `Placement` or to a stutter. `OutputsAreDetermined`: whatever order the pins
  are taken in, the machine returns what `assign` says; its invariant `LoopInv`
  says that in the second loop schedule and counters are `after[S]`, S the
  groups decided so far (`Reached`).
* **Repository_proofs** (from `IdsAssumption`): each writing function keeps the
  types and the keys and foreign keys (`Consistent`). The heart is that `NewId`,
  which gives out ids again, is nevertheless fresh, and that the refusals of
  `delete_slot` and `delete_round` are as wide as the foreign keys.
* **SolveRound_proofs** (also from `SolveAssumption`). For any processes:
  `TypeCorrect` and `ConsistencyKept`. For exactly one solving process, with
  edits and crashes: `SoleSolver` (at most one row of a group in a round, if it
  was so to begin with) and `SolveReplaces`. The strengthening `SoleInv` says for
  each point of the solve which rows of the round are in the table: after the
  delete, those of the plan that are not left to create. When that process is
  the web process: `OnSlotsOfTheRound` (if presentations are on slots of their
  round to begin with), `SchedulesAreSound` and `SchedulesAreComplete`. These
  speak of the tables, while the solve computes with what it has read. `WebInv`
  therefore adds `UpToDate`: what is read is what the tables say now, and the
  plan is what the computation makes of the tables as they are, its own rows
  aside, because handlers wait for the solve. `PlanOfTables` then says in terms
  of the tables what that plan is: the pool is `Pool` (`IncludedIsPool`), the
  feasible slots are the quorum's (`FeasibleIsQuorum`), a pin is kept unless
  `DeclinesBlock`, and the rest is `AssignIsSound`. With CLI solves all of this
  is false, as edits come between a SELECT and a row.
* **Attendance_proofs** (from the same assumptions). For any processes:
  `AttTypeCorrect`, `AttConsistencyKept`, and `StatusIsBacked`, no status
  without marks, if it was so to begin with (`MarksBackStatus`, and no mark that
  says nothing, `NoBlankMark`). `MarksBackStatus` is not inductive: `BackInv`
  adds `Backing`, what the submission under way has collected for its rollup is
  committed, and its groups have the due members it has read.
  `SubmissionTakesEffect` is for the web process alone (a `plan` between two
  commits deletes the row the rollup is for); `EffectInv` adds what the
  submission has collected for the group it is at. `ParentsStay`, that what a
  mark names is still there when it is written, is what `AttConsistencyKept`
  needs.
  `PresentedCounts` and `WhoHasPresentedIsDone` are for the web process alone,
  and suppose that nothing undoes a mark (`Orderly`): no submission is cut short
  in the middle of a group, no round is solved again once somebody has presented
  in it; and that marks and statuses agree to begin with (`WellCounted`). Each
  of these is needed: `resolve` is the counterexample to the second, and a kill
  between a mark and its rollup is one to the first. Old pages, edits, killed
  solves and any order of submissions are allowed. `CountInv`: each mark
  PRESENTED is of a due member and of a row that is there, and that row says
  PRESENTED too or is about to; the marks of the members a submission has visited
  are those it was sent, so a rollup to NO_SHOW overwrites no presenter; and
  nobody has presented in a round that is being solved. `Groundwork` collects
  the invariants it stands on, `WebInv` among them: with `ScheduleSound` it turns
  what the tables say of the statuses into what they say of the marks.
* **RoundPurge_proofs** (from `IdsAssumption`): `PurgeTypeCorrect`;
  `PurgeLeavesNoOrphans`; the action property `AnswersKeepTheirSlots`; and
  `AnswersAreStored` by `FormInv` and `Storing`: what a submission has written so
  far is in the table as sent. For a page that is not current any more
  (`fresh`) it only says that in availability mode each slot of the round has some
  answer. `KnownSenders`: pages and submissions are of
  students, whom no edit and no purge removes.
* **Mailing_proofs** (from the assumptions of SolveRound): `MailTypeCorrect`,
  `LogIsHonest` by `Arrived` (a command that is about to log a success has
  delivered), `NobodyIsMailedTwice` by its `CalmInv` (in calm one command at a
  time, without `--force`; whom it is about to mail the log does not have; and
  each mail that is in the inbox is logged or about to be, `Once`).
* **Import_proofs** (also from `CoursesAssumption`, `ImportAssumption`).
  `CourseTypeCorrect` by `ImportInv`. `TransferInv` joins `Backed` (whom a
  transfer reports or is about to patch has an assessment) and `CalmInv` (in
  calm one transfer at a time, nothing under way, and whom it is about to assess
  has none); it gives `ReportsAreStored` and `AssessedOnce`. `StoredInv` says how
  far the import is (everybody is read, as the course says it if that stands
  still, what is read is stored); it gives `ImportsAreCurrent` and
  `ImportsAreGrouped`. `ExamInv` adds that a transfer patches by force only
  (`Forced`), that patches on their way late are on record, and that whoever is
  stored or read as examined has passed; it gives the action property
  `ExaminedForGood`, if the stored ones had passed to begin with (`WellStored`).
  `OnlyPresentersAreGraded` by `GradingInv`, beside solves by any processes, edits,
  crashes and imports, under three hypotheses: to begin with marks are of members
  and back the statuses (`WellMarked`), no import moves a student to another group
  (`Unmoved`), and presentations are on slots of their round (`SlotOfSameRound`).
  Without the second it is false: the marks of a student who has changed groups
  stay with the old group, `due_members` does not see them, and the transfer goes
  by the status of the new group. The third is a theorem where the web process
  alone solves (`OnSlotsOfTheRound`); a `plan` whose slot is deleted and given out
  again in another round breaks it. The heart of `GradingInv` is `WellRead(s, again)`: what a transfer
  has read so far is what the tables say, where `again` says that the schedule has
  changed since, and then only the half about who must not be graded is left.

Only model-checked: liveness (`EventuallyDone`, `EveryoneIsTried`,
`WebGetsFree`), which is beyond the prover. Every invariant and every action
property of a passing run is a theorem, under the hypotheses named above.

## 5. Not modelled

* Texts, times, rooms and labels: no decision reads them.
* Signatures of links, log-in, CSRF and rate limits: computations on secrets
  that no state depends on. Links are taken as valid, also old ones.
* The export: it only reads, and its choice between a member's mark and the
  group's status is `Presented` of ResultSync.
* The migration: `ALTER TABLE` before anything else; of two first starts on an
  old file one may fail, and be started again.
* Start-up, configuration and logging.
* The shapes of the JSON and of the Excel sheet, the look-up of the assignment
  by name, the age of the token: a failure there ends the command or the attempt.
* Locking: a write to a locked database raises and ends the handler or command
  where it is; the actions `Crash`, `PostCrash`, `FormCrash`, `MailCrash`,
  `SyncCrash`, `PurgeEnds` and `ImportEnds` cover it.
* Deadline: the mails mention one, the code has none.
* An import without a configured assignment, which leaves out the read of the
  assessments (`ingest_api.py:83`).
* Compositions: an import under a running mail command, and a CLI solve that
  reads between the commits of a student's submission. What they read then is a
  mix of two states that nobody claims to be one.

## 6. Plan

1. The composition of Import with Mailing.
2. Proofs of what the compositions keep: `AnswersKeepTheirSlots` beside a CLI
   solve, and `SlotOfSameRound` beside imports when the web process alone solves.
