# Verification of the HR backend

TLA+ modules, TLC configurations and TLAPS proofs kept beside the HR backend
(Node.js, Express, PostgreSQL): a multi-company service for employees' attendance,
leave requests, schedules, crews, documents, contracts, payroll and sessions.

Contents: how the program runs; inventory; modules; runs; what they found; bounds;
fairness; proofs; what is not modelled; plan.

## How the program runs, and how the modules see it

The service is a set of stateless instances. An HTTP handler, or a cron job of
`jobs/index.js`, is an `async` function that awaits one SQL query after the other.
`query` (config/database.js) takes a connection from the pool and each call is a
transaction of its own; only code inside `withTransaction` shares one, at PostgreSQL's
READ COMMITTED level. Between two queries any other handler of any instance may run. All
durable state is in the tables and in the storage bucket, which takes part in no
transaction; besides them an instance keeps only caches.

The modules follow that: a table is a variable, a handler in progress is a record of what
it has read and is about to do (`op[h]`, with a `pc`), and one step of a model is the code
from one awaited query to the next. A transaction is one step when nothing in it can be
overtaken. A query that fails, or an instance that stops, ends the handler where it is:
what it wrote stays written. Tables nobody writes in a module are constants of it.

Much of the code only reads: the same tables are joined anew by the attendance handlers,
the company analytics, the worker's own screens, the reports and the payroll. Those readers
are operators over the tables, and what is asked of them is that they agree.

## Inventory

| Component | State | Operations | Hard behaviour | What makes it correct |
|---|---|---|---|---|
| Employee requests (`request-service`) | `employee_requests`: worker, type, dates, days, status | create, review (approve, reject, observe), cancel, resubmit, update | status and overlap read in one query and written in another; notifications after the write | the status machine of its messages; no day booked twice; days equal to the dates; the worker hears the verdict |
| Vacation balance | none of its own: sums over the requests | accrue, balance, assess | read before the insert that uses it | an overdraft is flagged for the manager |
| Request documents, templates | rows, a mirror among the worker's documents, files | generate, upload, sign, review, replace, delete | file and row are written one after the other | a document on file has its file |
| Request reports | none | list, report, charts, summary, export | each query filters and pages anew | pages, charts and exports of the same filter agree |
| Attendance day (`attendance-service`) | `attendance_records`, one row per worker and date | check-in, check-out, manual correction, recalculation | the jobs and the handlers write the same row by id; night shifts belong to the day before | what is closed is not reopened; a blocked day has no absence |
| Absence and closing jobs (`jobs/index.js`, `absence.service`) | `attendance_records`, `attendance_weekly_summaries`, `job_runs` | generate absences, auto check-out, close incomplete, recalculate | several instances run the same cron at once; snapshot read, then written | an absence only on a working day without record or approved request |
| Labor schedules and shifts (`schedule-service`) | `company_labor_policies`, `shifts`, `worker_shift_assignments`, `workers.shift_id`, rest days | policy, shifts, assignments, rest days, resolution | overlap check before the insert; ended rows go on answering for the past; rest days stored twice | one shift a day; a change keeps the days before it; a rest day is scheduled by nobody; an edit changes what it names |
| Holidays | `holidays` | create, edit, cancel | one declared after the day's absence | readers treat it as the code of each says |
| Analytics, day cards, dashboard, reports | none (an audit row) | figures, charts, tables, pages, exports | four readers decide anew what a day was | they agree, and the counts add up |
| Payroll | periods, slips | create, generate, approve, close | a generation is many queries and no transaction | a generation that ends has a slip for everyone; a settled period keeps them |
| Crews and places (`modules/workCrews`, `workLocations`, assignments) | crews, members, supervisors, permanent and temporary places | create, add, move, remove, reassign, end, close a place | assignment, membership and the worker's own place are closed and opened in sequence, checks come before the transaction | a member can mark somewhere; only who may moves a worker; screens show the same place |
| Login, tokens, second factor | `users`, `refresh_tokens`, temp tokens, `two_factor_auth`, a cache | login, refresh, logout, password, 2FA | rotation commits before the session row; the cache is not cleared by all writers | a disabled account is out in the end; logout closes |
| Sessions and trusted devices | `user_sessions`, `trusted_devices` | create, reuse, rotate, revoke, trust, list | session and token rows are written by different queries | a closed session is not revived; trust is earned; the list shows what there is |
| Registered devices | `user_devices`, `device_change_logs` | register, change, revoke, block | counted before, logged after the change | the monthly limit of changes |
| Worker documents | rows, stored files | upload, review, replace, delete, generate | the file and the row are not atomic | no document without its file |
| Onboarding, users and workers | `users`, `workers`, `worker_contracts` and the links between them | create, complete, link, disable, delete | either row may come first, both name the other | the links agree; forms show what was asked |
| Profiles | columns of both rows | update, photo | the same field in several columns | screens show what was last asked |
| Contracts | `worker_contracts`, sequence of codes, PDFs | code, PDF, download, sign | sequence and storage outlive a rolled-back transaction | a PDF shows its contract's code |
| Roles | `roles`, `role_permissions` | create, edit, delete | the screen shows levels, the table permissions | saving what is shown changes nothing |
| Catalogues | departments, areas, positions, cached lists | create, edit, deactivate, place | a list may be stored after it was cleared | a list settles |
| Company settings, birthdays, identity look-up, HTTP application, job endpoint | one row, or none | read, write | none | single queries and routing |

How they interact: an approved request blocks the days of its period for the attendance
service (`attendance-day-status.service`); the schedule tells which days are working days
and at what time they end, for check-in and for the jobs; the crew and the assignments tell
where attendance may be marked; the jobs' absences feed the analytics, the weekly summaries
and the payroll; onboarding makes the worker, the user, the contract, the crew membership
and the place; login creates a session and a token that every request checks.

## Modules

A definition marked "faulty variant" is not part of a model: it is a plausible mistake in
the code, used to see that a property notices it. Each property of a passing run has one
(PROJECT.json, "mutants").

| Module | What it is | State and steps |
|---|---|---|
| `RequestLifecycle` | abstract: the status machine that the request service's messages describe | |
| `Requests` | the request service, one step per awaited query, with its notifications | `requests`, `op` |
| `RequestReports` | lists, report, charts, summary and exports of the requests | `filed`, workers' names and areas |
| `AttendanceDay` | one worker's attendance rows, written by the handlers and the jobs | `records`, `op`, the clock |
| `ShiftAssignments` | the shifts and one worker's dated assignments to them | `shiftStatus`, `assignments`, `shiftOf` |
| `ShiftHours` | the labor policy, and the hours and minutes of a shift edited by several at once | `policy`, `shift`, `editing` |
| `RestDays` | plans of rest days, dates by hand, holidays, and the three queries that answer from them | `plan`, `restRows`, `holidays` |
| `DayViews` | what the four readers say of the same day | records, schedule, leaves, holidays |
| `DayCards` (on `DayViews`) | what a worker is offered on a day, and what the server then takes | weekdays of the shift |
| `DayTotals` (on `DayCards`) | what weeks, summaries, reports and the payroll add up | none |
| `Analytics`, `AnalyticsReports` | rows of a period, charts, rankings, tables, pages, files | days of each worker, crews |
| `Boards` | the dashboard's lists with totals and pages, alerts and figures | rows of the day |
| `Payroll` | a period, generations step by step, slips | `period`, `slips`, `generation` |
| `Accounts` | sign-in, second factor, passwords and the cache in front of them | `account`, `second`, cache, `writer` |
| `Sessions`, `SessionScreens` | sessions, refresh tokens, devices; the list the user closes them from | `sessions`, `tokens`, `devices`, `op` |
| `Devices` | registered devices and the monthly limit | `userDevices`, `request`, changes |
| `WorkPlacement`, `Transfers` | crews, places, assignments, who may move whom; what screens and reports show of it | `crews`, `memberOf`, `direct`, `permanent`, `temporary`, `move` |
| `Workforce`, `Profiles`, `OnboardingForms` | the rows of workers and users and their links; the fields of a person; the forms | `workers`, `users`, `ofUser`, `ofWorker` |
| `Contracts` | codes, PDFs, row locks, failures | `contracts`, `sequence`, `lockedBy`, `files` |
| `StoredFiles` | documents and templates with the storage bucket | rows, mirror, stored paths, `doing` |
| `Roles` | roles and grants, and the levels that stand for them | `roles`, `grants` |
| `Catalogues` | departments, areas, positions, placed workers and the cached lists | `items`, `placed`, `lists`, `reading` |
| `MCRequests`, `MCAttendanceDay`, `MCShiftAssignments`, `MCSessions` | values for TLC | |
| `MCWorkforce`, `MCRecords` | several components side by side, values for TLC | `part` |
| `RequestsProofs`, `AttendanceDayProofs`, `ShiftAssignmentsProofs`, `SessionsProofs` | proofs about the module of that name | |
| `PlacementProofs`, `WorkforceProofs` | proofs about `WorkPlacement` and `Transfers`; about `Workforce`, `Profiles`, `OnboardingForms` and `Roles` | |
| `StaffProofs` | proofs about `Devices`, `Contracts`, `StoredFiles`, and `MCWorkforce` as a whole | |
| `RecordsProofs` | proofs about `RestDays`, `ShiftHours`, `Payroll`, `DayViews`, `DayCards`, `Analytics`, `AnalyticsReports`, `Boards`, `RequestReports`, and `MCRecords` as a whole | |

`MCWorkforce` and `MCRecords` put components side by side whose handlers write different
tables: `part` says which one a behaviour is about, the others stay as they begin. Where
components do meet, one module extends the other (`DayCards`, `DayTotals`, `Transfers`,
`Profiles`, `OnboardingForms`, `SessionScreens`), and `MCRecords` checks besides that what
`DayViews` makes of a day is among the kinds `Analytics` counts.

### Requests

| Code (`request.service.js` unless said otherwise) | Model |
|---|---|
| table `employee_requests` | `requests`, a row or `NoRow` for each id |
| a handler between two queries | `op[h]`, what it has read and `pc`, the query it makes next |
| `createRequest` | `CreateStart`, `CreateAssess` (balance, `vacation.service.js`), `CreateOverlap`, `CreateInsert`, `NotifyStaff` |
| `approveRequest`, `rejectRequest`, `observeRequest` | `ReviewRead`, `ReviewWrite`, `NotifyWorker` |
| `cancelRequest` | `CancelRead`, `CancelWrite`, with the notice |
| `resubmitRequest` | `ResubmitRead`, `ResubmitWrite`, with the notice |
| `updateRequest` | `UpdateRead`, `UpdateOverlap`, `UpdateWrite` |
| notifications | the last notice in the inbox of the worker and of the staff |
| a query that fails, an instance that stops | `Fail`: the handler ends where it is |

`OVERLAPS` is PostgreSQL's: half-open, with single days as instants. `VacationRows` sums
`days_requested` as the balance query does; the days generated by the worker's service are a
constant. Types, hire dates and schema columns are read from tables nobody writes here.

`LifecycleSpec` says that `Requests` implements `RequestLifecycle`: a pending request is
approved, rejected, observed or cancelled, an observed one is resubmitted or decided, and a
final status stays. It holds with one handler at a time and is violated with two.

`RequestReports` takes requests as they are once filed and compares what reads them: the
list, the worker's own list, the report and its pages, the Excel and PDF exports, the
charts and the summary, under the same filter and role.

### AttendanceDay

| Code (`attendance-service`) | Model |
|---|---|
| table `attendance_records` of a worker | `records`, a row or `NoRecord` for each date |
| check-in (controller and `attendance.service.js`) | `CheckInStart` (logical date), `CheckInExisting`, `CheckInBlocked` (approved request), `CheckInInsert` |
| check-out | `CheckOutStart`, `CheckOutExisting`, `CheckOutWrite` |
| manual correction | `Correct` |
| request approved by the request service | `ApproveLeave` |
| `processAutoCheckouts` | `AutoRead` (snapshot), `AutoWrite` (a row at a time), `AutoDone`, then the recalculation |
| `recalculateDailyAttendance` | `RecalculateStart`, `RecalculateRead`, `RecalculateWrite` |
| `closeIncompleteAttendances` | `CloseRead`, `CloseWrite` |
| `generateDailyAbsences` | `AbsenceRead`, `AbsenceBlocked`, `AbsenceInsert` |
| the clock, the cron | `Tick`, `Schedule` |

`Metrics` is `calculateAttendanceMetrics`, `Effective` and `Elapsed` its minutes,
`ScheduledOut` the end `buildShiftMoments` computes, `LogicalDate` the choice between the
date of the call and the day before. `DateShift` is the day a `DATE` loses when a server in
UTC reads it in the time zone of the shift; it is 0 in every run but `attendance_utc`.

Two different things decide about a day. A mark is taken by the weekdays of the shift
alone (`ShiftDays`); absences, and the card of the day, go by the resolved schedule with
its rest days and holidays (`WorkingDays`). `DayCards` says where the two promise different
things and checks that an absence still comes only where the worker was asked to come.

### Schedules

| Code (`laborSchedule.service.js`) | Model |
|---|---|
| `shifts` | `shiftStatus` in `ShiftAssignments`, `shift` in `ShiftHours` |
| `worker_shift_assignments` of a worker | `assignments`, a sequence in order of creation |
| `workers.shift_id` | `shiftOf` |
| `createShift`, `updateShift`, `deleteShift` | `CreateShift`, `UpdateShift`, `DeleteShiftRead`, `DeleteShiftWrite`; hours: `CreateShift`, `EditRead`, `EditWrite` of `ShiftHours` |
| `assignShift` | `AssignRead`, `CheckOverlap`, `AssignWrite` |
| `updateAssignment` | `UpdateRead`, `CheckOverlap`, `UpdateWrite` |
| unique index of the open row, check on the dates | `Consistent`: the commit fails without them |
| `resolveWorkerSchedule` | the shift: `ShiftOn`; the day: `IsWorkingDay` of `RestDays` |
| `updatePolicy`, `buildShiftPayload`, `calculateEffectiveMinutes` | `UpdatePolicy`, `NewShift`, `Merged`, `EffectiveMinutes` of `ShiftHours` |
| `setRestDay`, `removeRestDay`, `getWorkerRestDays` | `SetFixed`, `SetRotating`, `SetManual`, `RemoveRestDay`, `CalendarRestDays` of `RestDays` |

Assignments are made in transactions. Writes of two transactions to the same row, or to the
same key of the unique index, wait for each other, so the writes of one are one step; the
overlap check before them reads what others have committed and is a step of its own.
`worker_shifts`, the third source of the resolution, counts only for a worker without any
assignment, and is written only together with one. A shift is edited without a transaction
or a lock: the row is read, the request laid over it, and all of it written back.

### What a day was, and what it adds up to

The same tables are read by the company analytics (`buildDatasetQuery`), the schedules'
summary, the worker's history and month, and the payroll. `DayViews` gives each its own
operators, in the source's order of cases and with the source's lists of request types; its
writers store any row and any leave that `AttendanceDay` and `Requests` can leave.
`AbsenceSeenAlike` is stated for days whose row is ordinary (an absence if and only if
nobody checked in) and whose requests are of types all readers know; what they disagree on
outside of that is listed below. `DayCards` adds the cards of the worker's screens and what
the server does; `DayTotals` the summary of a week, the records of the summary, the
attendance and monthly reports and the payroll, for every contract that covers part of the
period.

`Analytics` begins where `DayViews` ends: each worker's day is of one of `PossibleKinds`, and
filters, groups, trends, rankings, the table, the pages and the exported rows are computed
from the rows of the period as `analytics.service.js` does.

### Crews, places and people

A transaction of `modules/workCrews` or of the assignment services is one step; the checks
it relies on (`assertWorkerCanAssignToTarget`, `resolveTarget`, the supervisor's limit) are
made before it, in a step of their own, with what may change in between. `WorkplaceOf` is
`getActiveWorkLocationForWorker`, by which attendance is marked; `PlaceNow` is the snapshot
the guard decides by, which looks in another order. `Transfers` adds the crew's screen, the
figures of a place, the report of movements and the history.

`Workforce` holds the two rows that name each other (`workers.user_id`, `users.worker_id`)
with every handler that makes, links or deletes one; `Profiles` the columns a name, a photo
and a phone are kept in; `OnboardingForms` the forms that read both. `Sessions` has one step
per query of a sign-in, a rotation or a logout; `Rotate`, a transaction that locks its row, is
one. `StoredFiles` and `Contracts` have the storage as a variable of its own, so that a
rolled-back transaction leaves its files.

## What the runs show

Runs that pass:

| Run | Instance | Shows |
|---|---|---|
| `requests_serial` | one handler, 2 requests of a worker, 3 days, 2 types, edits, 1 failure | the service implements its status machine; no two live requests overlap; an overdraft is flagged exactly when the days exceed the balance; the last notice tells the verdict |
| `requests_concurrent` | two handlers, 1 request, 3 days, edits, 1 failure, fairness | days equal the dates whatever edits race; a settled request never changes; the staff hear of every creation |
| `attendance_serial` | one process at a time, day or night shift, 2 dates, leave, corrections | minutes and lateness are those of the marks, whoever wrote the row last; an absence is justified; no day is closed before its shift is over |
| `attendance_concurrent` | a request and a job, 1 date, rejected marks, 1 failure, fairness | jobs do not touch a day closed by hand; a check-in survives the absences; an open day is closed in the end |
| `assignments_serial` | one transaction at a time, 2 shifts, 3 assignments, 3 days | active assignments never share a day; an assignment leaves the days before it as they were; an open assignment has a shift that exists; what passes the checks is not refused by a constraint |
| `sessions` | one handler, 2 devices, 2 sessions, failures between the queries | a closed session stays closed; trust comes when it is due; logout and closing the others do what they say, also of tokens no row names any more; the list shows each device once, with its trust, and the session the next sign-in continues |
| `workforce` | each component of the staff in its own part | see below |
| `records` | each component of the records in its own part, fairness | see below |

The properties of `workforce`, by part:

| Property | Part | Says |
|---|---|---|
| `ReassignedWorksThere` | placement | a reassignment that is not refused is what attendance is marked by from then on |
| `MovedByAuthority` | placement | a worker leaves an active crew for another only by HR or by the supervisor of the crew that is left, with crews that change between check and transaction |
| `MembersPlaced` | placement | a member of a crew at an open place can mark somewhere; the screens show that place; crews', places' and report's counts agree; the history names the crew |
| `MonthlyLimit` | devices | every other request in progress, and every one that stopped half-way, lets one change through beyond the limit, and no more |
| `PdfShowsCode` | contracts | a PDF on file shows its contract's code, no two contracts share one, whichever handlers drew codes at once and failed |
| `ScreensAgree` | workforce, profiles | the two rows' links agree; profile and attendance find the same worker; every screen and form shows what was last asked; a form's ids are accepted when sent |
| `FileBehindDocument` | uploads, mirrors, templates | a document that was uploaded and not deleted has its file, whatever step failed |
| `ScreenKeepsGrants` | roles | saving a role as the screen shows it changes none of its grants |

and those of `records`:

| Property | Part | Says |
|---|---|---|
| `DisabledEventuallyOut` | accounts | an account disabled or deleted for good is out in the end: cache, look-ups, sign-ins and codes that began before included |
| `ListsSettle` | catalogues | when the changes end, every list served is what the tables hold, although other services' changes do not clear it and an old query may be stored after a change |
| `ShiftStands` | hours | the minutes of a shift are those of its hours and break, also where edits overlap; an edit that nothing overlaps changes what it names; the policy shows only where the shift has nothing of its own |
| `RestNeverScheduled` | rests | a rest day the calendar paints is a working day neither for marks and jobs nor for analytics |
| `DaysToldAlike` | views, cards | the four readers agree on an absence, what weeks, reports and the payroll take off agrees, and the cards offer what the server takes and forewarn of an absence |
| `CountsAddUp` | analytics, boards, reports | charts, trends, rankings, tables, pages, exports and totals of the same rows add up |
| `SlipsStand` | payroll | a generation that ends alone leaves a slip for each worker it found; a settled period keeps its slips |

Runs that TLC refutes. Each is a place where the code does something else than its own
message, comment or test says:

| Run | What happens |
|---|---|
| `requests_race_review` | two handlers that read a request while it was open both write its status; the second overwrites a final one |
| `attendance_utc` | on a server in UTC the automatic check-out closes a day as soon as it begins |
| `attendance_night_late` | a check-in after midnight for a night shift is stored as present, a day early |
| `assignments_dated_history` | a change of shift inside an assignment that has an end wipes the schedule of the days before |

### Other divergences met while modelling

They have no run of their own; the properties are stated so as to leave them out, and say so.

Requests.
- With two handlers `NoDoubleBooking` fails (two creations pass the overlap query before
  either inserts), and so does `OverdraftFlagged` (both read the same balance).
- `OVERLAPS` is half-open (`request.service.js:356`): a request that starts on the last day
  of another is accepted. A resubmission with dates is checked neither against other requests
  nor for its order (`request.service.js:789`); an edit may move a request before the hire
  date, which a creation refuses.
- The export of a page other than the first is empty, though a comment says the query is
  "shared identically by the preview, excel, and pdf exporters"; the exports by GET ignore
  their filters. Workers of one name are one bar of a chart. A chart's total counts the
  groups it shows.

Attendance.
- Overtime asks for the status `checked_in` (`attendance.controller.js:1312`), which nothing
  stores: it is always refused, and changes no row.
- A check-out on an absence row takes the current time for the entry; two check-outs that
  race both write; a recalculation writes the status it computed from an older read.
- A request approved between the absence job's check and its insert leaves an absence on a
  day of leave. An `incomplete` row can still be checked out.
- With a check-in after the end of the shift, `effective` exceeds the worked minutes of an
  automatic check-out, since an exit before the entry counts as the next day's.
- Lateness compares instants: 08:05:30 is late with a tolerance of five minutes.
- A check-in is accepted on a rest day or holiday whose weekday is in the shift, and refused
  on a working day of a fixed rest plan outside the shift's weekdays, where an absence then
  comes. The card of a day that was left or of a holiday still offers the check-in.

Schedules.
- `updateShift` writes the whole row back: two edits that overlap take back each other's
  fields, and `isActive` alone changes nothing. The first edit of a shift without working days
  of its own freezes the policy's. A shift whose break is as long as its presence has no
  minutes, and the resolution then expects the policy's.
- `deleteShift` fails when an open assignment of the shift starts after today, and takes the
  shift away from the past days too, because the resolution joins only shifts not deleted.
- An assignment that begins before one already ended does not replace it: the ended row, with
  the later start, answers for its days. With two transactions two dated assignments may share
  a day, and an assignment may be written for a shift that has just been deleted.
- A plan of rest days begun late changes the answer for earlier dates; removing the first
  stored date moves the point before which the configuration answers; plans end after 52
  weeks. Rotating plans rotate from the second of creation, which analytics rounds and the
  services truncate; in UTC they are a day apart as well. The date of a cancelled holiday
  cannot be declared again, only updated.

What days are said to be.
- Request types known to the attendance handlers are not in the lists of analytics and
  payroll; analytics and payroll count requests of types no longer in use; of two requests on
  a day each reader chooses in its own way. A holiday declared after an absence is a holiday to
  analytics and an absence to the payroll.
- A leave over an existing row is paid or not by its status, one on a day without a row by
  its type. The summary's records charge one day and a half for each absence; weeks and the
  payroll add the extra once (so three absences cost 4.5 and 4).
- Analytics: a contract that ended before the period sets no limit, one that ends in it does;
  the filter by crew takes all days of whoever was in it on one; days left open are counted
  twice in the distribution; ties may repeat or vanish across pages. `recalculate` stores an
  audit row and nothing else.
- Dashboard: totals count workers without a user, whom the lists leave out; deleted requests
  count as pending; contracts about to expire are looked for by a status nothing stores.

Payroll.
- A closed period can be approved again and a draft approved (`updatePeriodStatus` asks
  nothing), though the schema says that it admits no changes
  (`src/src/docs/schemas/payroll.schema.js:14`). A generation under way when a period is
  approved sets it back to `generated`; one that fails leaves what it had inserted.

Access.
- The promise of thirty days of trust is void, because the session and its token end after
  seven; a session stays shown as trusted after its device's trust ended. `createSession`
  clears `revoked_at`, so two sign-ins that race can open a closed session again. Closing a
  session revokes the one token its row names. `verify2FALogin` does not ask whether the
  account was disabled; asking for a second factor anew turns an enabled one off.
- The cache of `authenticateToken` is not cleared by `changeStatus`, `deleteUser` or changes
  of roles, and a look-up under way may store what was cleared. `resolveUserAccess` falls back
  on the name of the role in the token when no role is active. Two edits of a role that overlap
  leave grants no level stands for.
- Registering another identifier overwrites a blocked device; a block between the read and
  the write is undone; enabling an account does not unblock the devices its disabling blocked.

Crews, people, documents.
- `addWorkersToCrew` and onboarding leave a permanent assignment open, which goes on deciding
  where attendance is marked. `updateCrew` with `is_active` leaves the memberships that
  `updateCrewStatus` ends; the supervisor's limit is not asked when a crew is activated again
  (`tests/integration/work-crews-supervisor-rules.test.js:124`). A place may be closed while
  crews and assignments name it. The report of movements knows neither permanent assignments
  nor the worker's own place; a place's `total_active` counts who was sent away twice.
- `query('BEGIN')` on the pool (user, worker and history controllers) begins no transaction:
  its statements land on whichever connection is free.
- `updateWorker` of the worker service numbers its placeholders one too high and fails when
  a field is given; `createWorker` there calls a function it does not import. Neither is
  a step. `updateMe` writes a column `getMe` does not read. Users without `worker_id` are shown
  as having no worker, though attendance finds one. The status of onboarding counts a deleted
  user as made. `updateLaborInfo` names a column that does not exist.
- Replacing a file whose content may be sent again (`Resend`) can remove the new one when two
  handlers overlap. `updateTemplate` removes the old file before it stores the new one. PDFs of
  transactions that were rolled back stay in the storage.

### Bounds

- Ids, assignments and failures are used up, and clocks stop, so the systems of the models
  do stop: `CHECK_DEADLOCK FALSE` in every configuration. That a waiting process does go on
  is what the liveness properties show.
- Requests: three days hold every relation of two periods: apart, meeting on a day, one
  inside the other, one day long. A second request or a second handler is what an overlap or a
  race needs. Assignments: the third is the one that meets both an open and an ended one.
- Attendance: a day of 8 ticks has room for a day shift (1 to 4) and a night shift (6 to 2 of
  the next day), a tolerance and a break of one tick, graces of one (absence) and two
  (automatic check-out) and a noon (4) up to which a mark may belong to the night before.
  `LastTick` 22 lets a night shift that starts on the second date end and be closed; the runs
  about one date stop earlier. One failure leaves each operation half done at each query.
- Sessions: `SessionLife` 2, `TrustWait` 1, `TrustedLife` 4, `Grace` 1 and `MaxTime` 2 stand
  for lifetimes of 7 days, a wait of 7, trust for 30 and a grace of 15: a session lives through
  an instant and its rotations, may be trusted before it ends, ends, and is taken up again. Two
  devices with two sessions are what a take-over, a closing of the others and a wrong device
  need; 5.3 million states. A session too old to be taken up needs one instant more, which
  two devices make too many states: with `Devices = {d1}`, `MaxTime = 3` and no symmetry the
  same properties pass (670 thousand). Two handlers are left to the proofs.
- Workforce: two of each id, one worker, one open change of placement at a time (its check
  and its transaction apart), two handlers of devices, contracts and uploads; mirrors with one.
  `MaxEdits` 5 changes of a person. The sets of the parts share model values, so one symmetry
  serves all; no model value is picked by CHOOSE but where any will do. 1.2 million states.
- Records: two workers, two days, three types of leave (known and listed, and one not
  listed), two leaves a worker; weeks of three days for rest plans, so that a plan of two weeks
  ends inside the calendar; two generations and two edits at once; two requests and a page of
  one row, which is what a wrong offset shows with. No symmetry: two of the properties are
  about what comes in the end. About 210 thousand states.

### Fairness

`WF(Step(h))` of `Requests` and `AttendanceDay`: a query that was sent is answered or fails,
so an awaited promise settles and the handler goes on. `WF(Tick)`: time passes.
`SF(AutoRead(c))`: the cron starts the automatic check-out every five minutes
(`jobs/index.js`), again and again, so a run finds the process free infinitely often even if
other jobs are started in between. `AccountsFairness` and `CataloguesFairness`: queries that
were sent are answered, and the lifetimes of temp tokens and of cache entries end; that is a
timer of the process. Nothing is assumed of the clients: no call is ever sure to come. The
liveness properties of requests and attendance leave out the behaviours with a failed query:
nothing but a job is tried again.

## What is proved

TLAPS checks eight modules, for every value of the constants that the `ASSUME`s allow.

`RequestsProofs`, for every set of handlers, workers, ids, types and dates:

- `TypeCorrect`: `Spec => []TypeOK`. `TypeOK` alone is not inductive. A handler writes by id,
  `[requests EXCEPT ![id].status = ...]`, which makes a row only if there is one: so
  `HeldRowsExist` says that a handler about to write holds the id of an existing row, which
  holds because rows are never deleted. The length of a period is a number of days only if
  its dates are in order: `CreationsOrdered`. `TypeInv` is the conjunction.
- `SettledForever`: `Spec => SettledStays`, for any number of concurrent handlers. From
  `TypeInv`: a write touches only the id its handler holds, and a handler that reads a final
  row does not go on to write it, so a final row that no handler holds stays. It is the
  strongest form of the rule that a decided request is not decided again which the code keeps
  under interleaving; the plain form is false, as `requests_race_review` shows.
- `DaysAlwaysMatch`: `Spec => []DaysMatchDates`, when `ResubmitDays \subseteq {NoDate}`:
  `resubmitRequest` stores the dates it is given alone, so with dates the property is false.
  The inductive invariant adds `EditsAgree` to `TypeInv`: what a handler that edits is about to
  store agrees, because it keeps the dates and the days of one read or computes both again.

And for one handler at a time (`Alone`), which is where these hold, any workers, ids, types
and calendar, and failures. The service checks in one query and writes in another, so each
invariant says that what the handler has read still holds when it writes:

- `LifecycleRefined`: `Spec => LifecycleSpec`, the refinement of `RequestLifecycle`. The
  initial rows map to the initial states, and by `ReadsHold` (the status a handler was let
  through for is still the row's) each write is a step of the machine, an edit a stutter.
- `WorkersKnow`: `Spec => []WorkerKnowsVerdict`. `ToldOrTelling`: a decision that no query
  failed after has been told, or its handler is about to tell it.
- `NeverBookedTwice`: `Spec => []NoDoubleBooking`, when `ResubmitDays \subseteq {NoDate}`.
  `PlansClear`: the period a handler is to store is clear of the other live requests
  (`Clear`); an edit without dates writes back those of its own row. `OVERLAPS` does not depend
  on the order of the periods, so a row that is clear of the others leaves them clear of it.
- `OverdraftsFlagged`: `Spec => OverdraftFlagged`, under the same two assumptions.
  `BalanceKept`: from the assessment to the insert, the warning says whether the balance falls
  short. The balance sums days_requested over the requests that are live, the property the
  lengths of the periods not refused or withdrawn: `DaysMatchDates` makes them one. The sum is a
  fold, defined by recursion; no induction over data is needed to reason about it, for it is
  shown (`FoldIsTotal`) to be the cardinality of a heap that has so many pieces for each
  element: a smallest set on which the two differ cannot be (`LeastIsThere`).

`AttendanceDayProofs`, for any shift, dates, waiting times, corrections and number of requests
and jobs at a time, with failures:

- `TypeCorrect`, by `TypeInv`: an update by id would make no row if there were none, so a
  process about to write has read a row (`HeldRowsExist`), and no step deletes one (`RowsKept`).
- `CheckInsKept`, `ClosedDaysStay` and `NeverClosedEarly` (`Spec => CheckInKept`,
  `ClosedByHandStays` and, when `DateShift = 0`, `NotClosedEarly`), from one lemma on what a
  write does to a row that exists (`RowsChange`): it keeps the check-in unless it is a
  correction, and marks the day as closed automatically only while the row has no exit and is
  overdue. The jobs select first and write later, so the last part needs `DueHeld`: the days a
  job holds are overdue, and stay so because the clock only advances and the shift keeps its
  hours. `ShiftOverAtItsEnd` is the arithmetic of night shifts. With `DateShift = 1` the
  property is false (`attendance_utc`).

And for one request or job at a time (`Alone`), with failures:

- `MarksTellTheDay` (`Spec => []RowMatchesMarks`, when `DateShift = 0`) and
  `AbsencesAreJustified` (`Spec => AbsenceJustified`), from `AloneInv`. `SoundRows`: in every
  row the check-in is an hour of its own date, the lateness and the status are what the metrics
  say of it, the minutes worked are those up to the exit, and only an absence has no hours
  without a correction. `ReadsHold`: what the process has read is what the table holds. The
  effective minutes are not always in step: the automatic check-out leaves them to the
  recalculation of the dates it lists, so `Recalculated` says that a row whose effective
  minutes do not fit is on that list, unless a process has failed. `RowMatchesMarks` is stated
  for the table at rest, when the list is empty.

`ShiftAssignmentsProofs`, for any shifts, calendar and number of rows, with one transaction at
a time (`OneAtATime`; with two the properties fail): `TypeCorrect`, `DaysAreNotShared`,
`OpenRowsHaveShifts`, `ConstraintsForeseen` and `AssignmentsKeepPast`. `NoSharedDay` is not
inductive: the writes keep apart what the overlap check found clear, and that check leaves out
the row it read as the open one, which must still be the only one. `AssignInv` says so of what
a request has read (`PlansHold`), beside the rows that are apart, dated in order and open only
with a shift. For `AssignmentsKeepPast` the resolution's choice of the latest row is compared
before and after each write (`PastInv`).

`SessionsProofs`, for any number of handlers, devices, sessions and instants: `TypeCorrect`;
`TrustIsEarned`, whose invariant `TrustInv` follows the date of trust from the device to the
sign-in in progress and to the row, and needs that sign-ins on their way to one session come
from one device (`SignInsAgree`); `OthersLockedOut`; and `LogoutsClose` (`LogoutCloses`). The
run has one handler; these hold for any number. For one request at a time (`Alone`; with two,
both sign-ins find no session of the device and begin one each):

- `ListIsTrue` (`Spec => []ListTellsTrue`). That a device has one session is not inductive,
  because a sign-in chooses the session some queries before it stores it: `SignInHolds` says
  that it is still the only one the device could take up. Every other step keeps a row, closes
  it, or changes one that is active (`RowKept`), so it adds none that could be taken up. What the
  list shows of trust follows from `TrustInv`.
- `ClosedForGood` (`ClosedStaysClosed`), from the same: the session of a sign-in is not closed.

`PlacementProofs`, for any workers (finitely many), crews, places, actors and spans of days:

- `PlacementTyped`; `MovedOnlyByAuthority` (`MovedByAuthority`): the check and the transaction
  are two steps, and crews may change in between. What saves the rule is that the transaction
  asks again about the crew the worker is in by then; each kind of move is a case.
- `ReassignedAreThere` (`ReassignedWorksThere`): the transaction ends the assignments that
  would win over the new one in the order `WorkplaceOf` looks in. The permanent assignment, a
  stay of one day and the worker's own place are told apart by date.
- `MembersArePlaced` (`MembersPlaced`): where a member marks, what screens, reports and history
  say of it, and that the figures of the places add up. `PlacementInv` adds to the types that
  the history names the crew a worker is in (`ToldCrew`) and that no two temporary stays of a
  worker share a day (`StaysApart`): without it a worker would be received at two places. The
  sums are cardinalities of sets of pairs, compared by a bijection between them.

`WorkforceProofs`, for any workers, users, texts, contracts, modules and permissions:

- `LinksKeepAgreeing` (`LinksAgree`). The two columns are written by different handlers, each
  looking at one side. `WorkforceInv`: a worker named by a user names it back, whether or not
  it was deleted since, no two workers name the same user, and a user that is named was made.
- `ScreensKeepAgreeing` (`ScreensAgree`), by `AskedInColumns`: what was last asked of a person
  is in the columns some screen reads, and every screen's choice among the columns finds it.
- `ScreensKeepGrants` (`ScreenKeepsGrants`). `HeldByLevel`: what a role holds of a module is
  always what one of the access levels grants, so that the level shown gives it back.

`StaffProofs`:

- `DevicesKeepLimit` (`MonthlyLimit`), for any number of handlers. `ChangesTold`: a change that
  was made is logged, or is still to be logged by a handler in progress, or was dropped;
  `RoomLeft` bounds those made by those that may still be made.
- `PdfsShowTheirCode` (`PdfShowsCode`). `ContractsInv` says who holds the lock of a row and with
  which code (`LockHeld`, `CodeRead`), that codes drawn and not yet written are apart from the
  others too (`CodesApart`), and that files are stored before rows name them (`FilesFirst`).
- `FilesBehindDocuments` (`FileBehindDocument`), when no content is sent again (`~Resend`, as in
  the run: a path is made from the document and its content). `PathsInv`: a path is on its way
  to one document once, a row's path was used up by its own upload and is stored, and a file a
  handler is about to remove is of no row.
- `StaffTyped` and `StaffStands`: under the specification of `MCWorkforce`, which the run
  checks, its `TypeOK` and each of its other properties hold, by the theorems above: a step of
  the whole is a step of one component and leaves the variables of the others.

`RecordsProofs`:

- `HoursStand`, `HoursSpec => ShiftStands`, for any requests, policies and overlapping edits.
  `HoursAddUp` alone is not inductive, because an edit writes what it read: `ReadsFit` says that
  this fits too, and is the row itself while nothing disturbed it.
- `SlipsAlwaysStand`, `PayrollSpec => SlipsStand`, for any staff and clerks. A generation that is
  alone knows what the table holds (`AloneKnows`): nothing once it deleted, then the slips of
  those it has dealt with.
- `RestDaysTyped` and `RestIsNeverWork` (`RestNeverScheduled`), for any calendar, size of week
  and length of a plan. The second needs no invariant: it compares three queries on one state,
  whatever the state, by arithmetic on the weeks (`RestIsNotWork`). For the same reason
  `RotatingRestIsNeverWork` could be stated, which no run checks: for rotating plans the three
  agree if the server's date is the company's and the worker's creation rounds to its second.

- `RecordsTyped`, `ReadersAgree` (`DaysToldAlike`) and `RecordsKeepTheirWord`, under the
  specification of `MCRecords`, which the run checks, with all components side by side
  (`RecordsInv`). To agree on an absence, the readers need of the state only that a stored row
  is of a day that has come (`RowsHaveCome`): with a row, a day to come would be of no kind the
  analytics count, a status without its flags. The rest is shown of one state: which request
  each reader finds for the day among those that overlap, and that what it makes of the day is a
  leave or an absence exactly when the others say so. Totals are cardinalities of sets of days,
  compared by cutting them into parts that have no day in common.
- `DashboardsStand` and `BoardsStand`, two of the parts of `CountsAddUp`, for any workers, days,
  rows and sizes of page. A chart sums to the total whatever its rows are grouped by
  (`SumOfGroups`): the fold over the groups is shown, by the smallest set of groups where it
  would not, to count the rows under them. A ranking is a numbering of its members by places
  (`PlacesAreAll`: an order of a finite set gives each place to one member), from which the
  first of a short ranking is the first of a long one; a row of a board that ties with no other
  has one place, and a place is on one page.
- `AnalyticsStand`, for any workers, days and rows. The distribution is a fold over the groups
  of the rows' kinds (`DistributionSums`), so that it counts a row once, and twice when it was
  left open, for then it is of two of the kinds. The pages of the table are the cuts of one
  sequence, and put together they are that sequence (`TablePages`); it lists each worker of the
  period whom the text finds (`TableLists`), first the one most absent. A worker's file is a
  ranking by date with a row per day (`CalendarPlaces`), so that the days of absence in it are
  as many as the table counts, and the last of them is the table's last absence (`WorkerPages`,
  and `AreaPages` for the area the table opens on).
- `ReportsStand`, for any requests, criteria and viewer. A list is a sequence in which every
  request that passes has one place, the later ones first, and its pages are its cuts; a chart's
  bars count the rows whatever they are grouped by (`ChartsCountReports`, `PagesMakeReports`).
  That an export is all the pages has a hypothesis, that there are no more requests than
  `ExportLimit`, the 100000 of `getReportData`: beyond it the file is cut short and the pages
  are not.
- `CountsStand`: all of `CountsAddUp` under the specification that the run checks, from those
  lemmas and with the hypothesis of the exports.

The assumptions used are the `ASSUME`s on the constants, which TLC evaluates, and those
stated in the theorems. Of the `ASSUME`s, the finite sets of workers and handlers are what
counting needs; that ids of different tables are disjoint, and no id is the mark of a missing
row, is how the tables are told apart; a worker has at least one contract because making the
worker makes it.

Every invariant and every action property of the passing runs is stated by a theorem. What is
left to TLC alone is liveness under fairness (`OpenDayCloses`, `CreationAnnounced`,
`DisabledEventuallyOut`, `ListsSettle`), which is outside the prover.

## Not modelled

See PROJECT.json, "components", for each. Company settings, birthdays and the office home
screen, the identity look-up, the HTTP application and the endpoint that starts the jobs are
single queries or routing. In the modelled parts: the layout of PDF and Excel files, labels
and wording, columns that are copied from one row to another (brand of a device, browser of a
session), password rules, audit trails, geofences and face checks of a mark beyond "rejected",
amounts of the payroll, the accrual of vacations by calendar months, the weekly summaries'
storage and `job_runs`, credentials and suggestions of the onboarding, and the moving of an
assignment to another worker. Fall-backs for schema columns that are missing are not taken.

## Plan

1. Composition of `Requests`, `RestDays` and `AttendanceDay`, so that leave and working days
   are the other modules' states.
