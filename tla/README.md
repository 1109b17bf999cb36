# UrbanEye+ in TLA+

UrbanEye+ lets citizens report incidents, assigns them to field agents and takes
them through a governed workflow to resolution, with an SLA clock, an audit trail
and experimental predictions. The modules here model the core of its backend (a
FastAPI application over SQLAlchemy and PostgreSQL), the two dashboards of its
frontend and the pipeline that turns the cities' open data into training tables.
They are checked with TLC on small instances, and their central invariants are
proved with TLAPS.

Paths below are relative to `src/backend/app` unless they say otherwise.

## 1. The system

| Component | State | Operations | What is hard |
|---|---|---|---|
| Accounts (`services/user_service.py`, `api/admin_users.py`, `core/deps.py`) | `users.role`, `is_active`; `user_audit_log` | register, change role, (de)activate; by requests and by scripts | the last administrator: a count read, a row written, nothing locked; a token that outlives its account's rights; a trail that must explain every account |
| Incident lifecycle (`services/incident_service.py`, `api/incidents.py`, `models/incident.py`) | `incidents`: status, agent, priority, SLA columns | report (with automatic assignment), status, assign, unassign, SLA, priority | side effects of one column on another; a verdict that is refreshed on read and frozen at the end; requests that work on stale rows |
| Incident history (`services/history_service.py`, `models/history.py`) | `incident_history`, append-only | an entry per change, in the change's transaction; backfill | no change without entry, no gap, ids taken before row locks |
| Agent availability (`api/agents.py`, `user_service.set_agent_availability`) | `users.is_available`, `last_assigned_at` | the agent's switch, the administrator's override | one switch, entries in many histories |
| Images (`api/images.py`, `services/image_service.py`) | `incident_images` | photos of a report, proof of work | tested, then an upload is awaited, then committed |
| Sign-in (`api/auth.py`, `services/google_oauth.py`, `user_service.resolve_google_user`) | `users.email`, `google_subject_id`; a flow per request | register, look up by subject, then by address, follow, link, create | two first sign-ins at once, an address that changes owner, only the UNIQUE indexes between a lookup and a write |
| ML serving (`ml/*`, `api/predictions.py`) | a loaded bundle, `ml_predictions` | load a bundle; predict on read, log on write, backfill; forecast hotspots; score | a prediction as of the report, computed from a table that has grown since; a log that drops repeats and must not drop anything else; a bundle of which only a part verifies |
| Download (`scripts/download/*`, `scripts/utils/manifest.py` of the pipeline) | raw files, partial files, manifests | page and append, page and rewrite, stream and rename; record | kills in the middle of a line, a rename or a manifest; resuming by counting lines; a publisher who changes the table meanwhile |
| Pipeline runner (`scripts/run_pipeline.py`) | the files of `data/processed` | run all, from a phase, one step, on fixtures, going on after errors | tables written in place one after another; a run over what an earlier one left |
| Datasets and audits (`scripts/preprocess`, `features`, `validation`) | none of their own | clean, join, score, split, pair, panel; audit | leakage through time, splits of few distinct times, chains of duplicates, cells whose width varies with the latitude, audits that a sound table may fail |
| Frontend (`src/frontend`) | copies of what the API answered | the admin's and the agent's dashboard, the audit trail | answers lost or in another order, a session that ends, a trail that is not fetched again |
| Schema (`scripts/init_db.py`, `migrations/*.sql`) | the database | create, migrate, backfill | run again on a database in use |
| Training, evaluation and export (`scripts/phase2b`, `baselines`) | the bundle | fit, score, package | numeric; a bundle that is packaged from parts of two runs |
| Start-up and configuration, presentation builder | none | | |

How they interact. Every HTTP request gets one database session (`db/database.py`)
and runs in it: the authentication dependency reads the caller, the handler reads
the incident or account, the service tests its guards on what was read, assigns
columns, adds history or audit entries and commits everything at once. Nothing is
locked before the write, no row carries a version, the isolation level is
PostgreSQL's READ COMMITTED. Requests therefore interact through committed rows
only, and every guard may be stale by the time its write lands. The availability
switch and the lifecycle share `users` and `incident_history`; the image upload
reads the incident's status and writes its history; accounts decide who may act.

The frontend keeps copies of rows and asks again; what it shows and offers is about
the row it was last answered. The pipeline's scripts share nothing but files: each
downloads or reads what it finds on disk and writes its tables in place, and the
bundle made from them is all that the backend ever sees of it.

What makes the components correct:

- accounts: an administrator who can sign in always remains; the audit trail
  explains every account, has no gap, and shows every change to be authorised;
- lifecycle: CLOSED is terminal; agents move only their own work along
  ASSIGNED -> IN_PROGRESS -> RESOLVED; the SLA window is anchored to the time of
  report; late work is BREACHED and work done in time is not;
- history: it explains the row it belongs to, has no gap, records every reopening;
- availability: what an open incident's history says about its agent is current;
- images: proof of work only while RESOLVED;
- sign-in: a person has one account, whatever overlaps, and an identity stays with
  the account it is bound to;
- download: a raw file mirrors what was published, the manifest lists only what is
  on disk, and running the command again brings what is missing;
- datasets: all tables describe one corpus after a run that succeeds; no split looks
  ahead, no duplicate straddles two folds; the audits object to nothing in what the builders
  build but what can be read off the incidents;
- dashboards: only moves the API accepts are offered, no reported action is missing
  from the trail, no control stays disabled;
- predictions: nothing that happens after a report changes what is predicted for it, but a
  transaction older than the report that commits after it; a logged row is what would be
  answered now, with the same exception; evidence and evaluation count alike, a score once
  given stays.

`PROJECT.json` lists the hazards behind these properties, each at its line.

## 2. The modules

| Module | Models | State |
|---|---|---|
| `IncidentRules` | the policy tables of `models/incident.py`, the SLA verdict, the label of a transition | none |
| `Accounts` | role and activation changes with the audit trail, one atomic step per request | `role`, `active`, `audit` |
| `IncidentWorkflow` | the lifecycle, availability and proof of work over `Accounts`, one atomic step per request | + `available`, `lastAssigned`, `incident`, `history`, `now` |
| `AdminRaces` | the requests of `api/admin_users.py` taken apart into their reads and the commit | `Accounts` + `req` |
| `RequestRaces` | the requests on one incident taken apart into load, flush and commit | `IncidentWorkflow` + `req` |
| `PredictionRules` | what the prediction layer computes from the rows it reads: features, decision procedure, baselines, registry, hotspot counts, outcomes | none |
| `Predictions` | the layer over a growing incident table: transactions in flight, restarts with another bundle, the deduplicated log | `now`, `filed`, `open`, `registry`, `log` |
| `Identity` | registration and sign-in with Google over `AdminRaces`: lookups, then a write that only the UNIQUE indexes check | + `email`, `subject`, `linked`, `google`, `flow`, `moves` |
| `Mirror` | what the download scripts promise: a copy that only ever takes faithful values | `published`, `copy`, `listed` |
| `Downloads` | the scripts, step by step, under kills, failures, retries and a publisher who changes the data | `published`, `raw`, `inner`, `outer`, `manifest`, `failed`, `run`, `spare` |
| `DatasetRules` | what each script computes from rows: cleaning, splits, density, priority, hotspot panel, duplicate pairs | none |
| `DatasetAudits` | what the validation scripts derive again and compare | none |
| `Pipeline` | the runner as a program whose memory is the files on disk | `raw`, `file`, `run`, `outcome`, `spare` |
| `Dashboards` | the two dashboards, their requests and answers, and the rows behind the API | `row`, `trail`, `account`, `session`, `who`, `page`, `net`, `known`, `spare` |
| `AccountsProofs`, `IdentityProofs` (with `AdminRaces`), `IncidentWorkflowProofs`, `RequestRacesProofs`, `PredictionsProofs`, `DownloadsProofs`, `PipelineProofs`, `DashboardsProofs` | theorems | |
| `MC*` | instances for TLC | |

`IncidentWorkflow` extends `Accounts` and takes its whole next-state relation as one
of its own actions, so accounts are demoted and deactivated between any two
requests on incidents. Both race modules extend the module whose requests they take
apart and reuse its guards and row functions.

**Atomic and overlapping.** The atomic modules say what the services promise when
requests come one after the other, and are what the theorems are about. The race
modules say what the code does when they overlap. They are tied together by
refinement: with a single request slot `AdminRaces` implements `Accounts` and
`RequestRaces` implements `IncidentWorkflow`; the variables have the same names, so
the mapping is the identity and drops `req`. Both are proved (section 4). With two
slots neither holds, and the runs say which promises survive the overlap and which do
not. `IncidentWorkflow` in turn implements `Accounts` (`ImplementsAccounts`), which is
both run and proved.

**How code becomes actions.** A request on an incident is a guard (`MayMove`,
`MayHold`, `MayProve`) and a plan: the row it writes and the entries it adds
(`StatusPlan`, `AssignPlan`, ...). The action carries the plan out in one step
(`CarryOut`), because the handler commits both together. Every handler gets its row
from `get_incident_by_id`, whose `_enrich_incident` assigns the refreshed verdict to
the mapped column `sla_status`: the handler's commit writes it back, so plans start
from `Enriched(row)`. Refused requests, and accepted ones that change nothing, write
nothing and are no steps.

**Abstractions.** Accounts and incidents are model values. Time is in whole hours
and moves between requests; `created_at` (the transaction's clock at the server) and
the clock the application reads for the first deadline are taken to agree. A history
entry keeps its action, actor, the actor's role, old and new value and hour; the
names and labels the code writes stand for the agent and the hours they name, the
image entry's new value for the kind of its image, and descriptions are left out.
`severity` and the legacy integer `priority` are functions of `priority_level`.
Photos of a report are part of the report's step. The list queries, and the filters
by reporter, read only and are left out. The prediction log that follows a report or
an SLA change writes another table and is modelled in `Predictions`.

**The unit of work.** `RequestRaces` follows the session exactly where the order
matters. A flush inserts `incident_history` before it updates `incidents` (the
models have no relationship, so the unit of work orders the two mappers by name):
the first entry's id is taken before the row lock, the ids of the others after it.
The UPDATE sets the columns whose value changed since the load and leaves the others
as another commit made them. `place` and `behind` keep the position in the id order
an uncommitted entry has among the committed ones and among the uncommitted ones of
the other slots. `AdminRaces` has the other order: `users` is updated before
`user_audit_log` is inserted, so audit ids follow the row lock and one commit step
is enough.

What `RequestRaces` leaves out: accounts do not change and the clock stands still
while requests overlap, and reports and the availability switch stay single steps.
So it says nothing of an account deactivated between an authentication and a commit,
of an assignment that overlaps the availability switch, or of a verdict computed
before another request's and written after it.

**Predictions.** `PredictionRules` holds the pure functions. Time is in whole minutes,
the grain to which `features.py` floors every time stamp before it compares two.
A place is a square of the 250 m grid; a cell of the forecast is 4 x 4 of them. The
arithmetic of medians, means, models and EWMA is left out: where the code computes a
number from rows, the model keeps the rows it computes it from (`Statistic`, `Sample`,
`OutcomeSample`), so two answers are equal in the model only if the code computes them
from the same data. Counts are counts. Calendar features and encodings are functions
of the incident alone and are left out. A model answers a function of its inputs, or,
for the pairs in `WildOutputs`, no valid number.

`Predictions` lets reports and closures begin (their stamp is the transaction's
clock), commit or roll back; what a prediction reads is what has committed. Of the
closure events of an incident it keeps the earliest, which is all `fetch_records`
reads: a reopening changes nothing here and further closures commit later stamps.
`RecordPredictions` stands for a view of the incident, a write's follow-up and the
backfill script, which call the same function; its computation may fail, which is an
INTERNAL_ERROR that is logged. `Restart` loads whatever bundle the disk holds.
Nothing in the code orders a stamp and the commit of its transaction, so a transaction
commits however late, or never, and in whatever order with the others. The database's clock and
the back end's are taken to agree, and the service to be younger than ten years
(`MAX_RES_H`).

**Sign-in.** A tab's `flow` is one HTTP request: it looks the subject up, then the
address, and then writes in a step of its own, so another request may commit between
any two. `Free` is the pair of UNIQUE indexes; a write they refuse ends in an error
(`GiveUp`). `Create` is `Register` of `Accounts` with an address and a subject.
Google is external: it vouches for one address per subject and never for one address
of two; an address moves to another Google account only while no sign-in with it is
under way (`AddressMoves`), because a flow takes
what Google vouched for as still true until it ends.

**Downloads.** `Downloads` has one action per request, write, rename and record of a
script. A line that a kill cuts is `torn`; counting lines counts it, appending after it
spoils the next row (`JUNK`); Chicago repairs its file before it counts. Boston streams
into a partial file of a partial file (`inner`, `outer`): the first is resumed with a
range request, the second removed. The manifest is rewritten in place, so a kill leaves
text that is no JSON, which the next run takes for an empty one.

**Pipeline.** A step of the runner is one script; a script that writes several tables
writes them one at a time, and a kill tears the one being written, which is then on disk but in
`torn`: no step can read it until it is written again. A row of a table is
what the rules of `DatasetRules` compute for it from the few facts of a report (`Facts`:
source, hour, closing, due hour, row, place, zone, category, parent). A place lies in a row of
density cells, a range of latitudes that has its own width of cells (`CellWidth`): a degree
of longitude is shorter the further from the equator, and `required_rings` has to widen the
search with it. Distances are along a row, and rows lie further apart than any radius. Weeks are
seven times 24 hours, random draws are all the pairs they can contain. Of the time features a table keeps
for which rows it has them: `timed` of a row of `priority_ml`, of the feature table and of
`resolution`, which `add_time_features` joins from the time table if that is there and derives
otherwise, and of the task tables made of those. Points of interest, text features, checks of
column names and statistics carry no control and are left out. `LeftAlone` is what the code does
when a source has no rows or a task has none: the old table stays where it is.

*The policy* is that of the block engine (`_signal_matrix`, `_apply_block`), which scores the tables,
with exact sums. The row engine of the same file (`signals`, `evaluate`) computes the signals a second time
and adds them up in another order; whether the two agree is a question of floating-point numbers
that a model with exact ones cannot ask, so it is not asked.

*The audits* are modelled check by check, in `DatasetAudits`, where a table of the right columns
and keys may fail a check: also those that fail on a sound table because of what the reports are, as
`TF-5`, which takes the missing hour of a report without a time for a wrong one, `PR-2`, `PR-7`,
`TG-5`, `TASK-4`, `TL-9b` and `TL-9c`. Of `TL-5`, which groups a sample by the levels of other columns,
only the size of the table is modelled: it may fail on four rows or more. The head of the module
names what is left out. `TF-5` does more than fail where pandas is older than 2.2, which `requirements.txt:13` admits: it
compares a string column with a null and raises (`MayRaise`), and the step fails. The profile of `audit_time` takes
the least hour of each source and raises in the same way when a source has none (`Succeeds`).

**Dashboards.** `net` holds a request per slot with the function that awaits it; `Serve`
is one atomic step of the API and `Receive` the continuation in the page. `known` is what
the user has been told: the number of trail entries behind the last action reported done.
`updated_at` is a version that moves when a column of the incident does, and the trail's
React key is what makes the page ask for it again. Other people's work is `Elsewhere`.
An account has a role, and is active and available or not. The page belongs to the administrator
`Boss` or the agent `Me`, and stays open when its owner's role changes: the API reads the role on
every request, so it refuses with 403 what the page asks for from then on (`Authorized`; `StatusCode` for a
status, which any member of the staff may ask for), and an assignment to somebody who is no agent any
more with 404 (`AssignCode`, in the order of the code). The staff report no incidents: a
viewer who has become a citizen is refused every trail (`Readable`).

## 3. What is checked

| Run | Question | Result |
|---|---|---|
| `MCAccounts` | Does an active administrator remain, does the audit trail explain accounts, without gap, and authorise every change that came over HTTP? | holds |
| `MCIdentity` | While sign-ins, registrations and administrators' requests overlap: has everybody one account, does an identity stay where it is bound, does the trail still explain every account, and is a sign-in no more than a registration to the administrators' side? | holds |
| `MCAdminLockout` | Does an administrator remain when two requests overlap? | **violated** |
| `MCWorkflow` | Does the history explain the row, without gap; is every agent's move theirs; is CLOSED terminal; is rework recorded; does proof follow resolution; is the window anchored and late work BREACHED; are availability entries current; are the accounts those of `Accounts`? | holds |
| `MCWorkflowFrozenVerdict` | Is work done in time never BREACHED? | **violated** |
| `MCRequestColumns` | Is every changed column announced by an entry, and an agent's entry preceded by one that gave them the incident, whatever overlaps? | holds |
| `MCRequestClosed` | Does an incident whose closing is recorded stay closed, whatever overlaps? | **violated** |
| `MCPredictions` | While incidents are reported, resolved, reopened and resolved again and bundles change: is a prediction stable, the log current, evidence and evaluation in agreement, a score final, a running week's forecast settled, whenever transactions commit, but for the late commits each property names? | holds |
| `MCDownloads` | Through kills, lost connections, retries and tables that change while they are read: do the scripts implement `Mirror`, does the manifest list only rows on disk, does every run end, and does running the commands again bring the data? | holds |
| `MCPipeline` | After any history of deliveries, partial runs, fixtures, failures and kills: do the tables of a successful run describe one corpus, in which the project's own audits find only what the incidents themselves explain; does a full run repair what a kill left; do splits and duplicates behave? | holds |
| `MCDashboards` | While answers are lost, refused or come in any order and others change the same rows, accounts and roles: does a page offer only what the API accepts, is the admin's trail never behind a reported action, does every control come back? | holds |
| `MCDashboardsTrail` | Is the agent's trail never behind a reported action? | **violated** |

The four violations, each against a sentence of the code:

1. *Lockout.* Two administrators demote or deactivate each other. Both requests pass
   `count_active_admins` and both commit; nobody is left. (`user_service.py:16`,
   `api/admin_users.py:34`.)
2. *Frozen verdict.* An incident resolved in time and closed after its deadline, or
   whose SLA or priority is edited after that, is judged again and shows BREACHED.
   (`models/incident.py:144`.)
3. *Closed incidents return.* A status change or an assignment loaded before the
   closing commits after it. (`models/incident.py:141`.)
4. *The agent's trail.* Switching availability writes an entry into the trail of the
   agent's open incidents, but moves no `updated_at`, and the agent's page has no nonce:
   the trail on the screen stays without it. (`src/frontend/src/app/agent/page.tsx:296`.)

Some properties say less than their first wording did, and why.

`SameAnswer`, `LogStaysCurrent`, `ForecastIsSettled` and `OutcomesAreFinal` except the commit of a transaction that is
late for the reader (`LateCommit`, and the last disjunct of the other two): one that was stamped before the
report, the week or the minute, and commits after a prediction, a forecast or an evaluation has read
the table without it. Without the exception TLC refutes each within a few steps. So the
sentence "the same incident, bundle, method and SLA window always give the same result"
(`models/ml_prediction.py:6`) is not true of the code: `created_at` is the transaction's clock, and
`fetch_records` (`ml/features.py`) reads what has committed. A row that was logged before such a commit stays as it was, under a
key that the new answer has too, so the new answer is dropped by `ON CONFLICT DO NOTHING`. The window is the length
of a request. The properties say that this is the only way: reports, closures, reopenings, restarts,
failures and edits do nothing of the kind. `LogStaysCurrent` compares a row with all its fields.

`CleanRunRaisesNoAlarm` excepts what `ExpectedAlarms` reads off the incident table, and nothing that
compares a table with another one. `SPL-1`, `TL-11` and `TL-5` may fail on any table of few or of few distinct
rows; that folds are inhabited where they can be is `FoldsAreOrderedAndInhabited`. `TF-5` fails when some incident has no
time, and `DN-1` when one has a place and no time: `parse_timestamps` nulls a time that cannot be read and
keeps the row (`utils/cleaning.py:153`), the row gets no density, as `null_reason` says of rows "without usable
coordinates or timestamp" (`audit_pipeline.py:235`), and `DN-1` (`:240`) asks for one wherever there
are coordinates. Such a row is in `MCRows`, in a delivery of its own. `PR-2`, `PR-7`, `TG-5`, `TASK-4`, `TL-9b` and
`TL-9c` fail on corpora with one band, a score per category, nothing closed, no row for a task, no quiet week or no busy one.
What is left, and must never fail after such a run: sizes and keys, hours of the others, densities counted anew, lags
and targets, scores and tiers, adjacency of weeks, joined densities, order of folds, pairs in one fold.

`FullRunHeals` excuses the audit that an old pandas makes raise on a report without a time (`Raising`).
`FullRunHeals` asks for a report with a place: a corpus without any has no density, which
`validate_outputs.py` refuses (`OUT-8c`) on every run; its other hypotheses do not say so.
`FullRunHeals` excepts a torn `sla_ml` that no row asks for: nothing writes it again, and
every later run reports it. In the same way a run that stops at its first error and finds
a torn table in phase 1 fails there, each time, until the runner is told to go on after errors.

**Types.** Where a component's safety is one invariant, its type invariant is a conjunct of
it (`OneCorpus`, `OneAccountPerIdentity`, `ListedRowsStay`, `OfferedMovesAreAccepted`, ...).

**Refinement.** Four abstract specifications, in five refinements:
`Downloads => Mirror` (`INSTANCE Mirror WITH`, the copy being the rows of the raw file),
`Identity => AdminRaces`, `IncidentWorkflow => Accounts`, and with one request slot
`AdminRaces => Accounts` and `RequestRaces => IncidentWorkflow`. In all but the first the
variables have the same names and the mapping drops the detail. All five are proved
for all constants (of the first the safety: `ImplementsMirror` is `Init` and `[][Next]_vars`); the first three are run.

**Fairness.** The backend has no background work: every step is somebody's request, its
modules are safety only. Two modules assume fairness.
`Downloads`: a started script goes on (`WF` of its steps), and each command, without
`--max-pages`, is started again and again (`SF`, since another script may run whenever it
could start); that is how they are meant to be used (`download_chicago311.py:10`: "Automatically
resumes from the number of rows already downloaded"), and faults are
bounded, so that eventually one run is left in peace. `EveryRunEnds` is what retries must not
break, `TablesArrive` and `YearsArriveUnlessStuck` what resuming must not break; a partial file
of Boston that is already complete, or of another edition, is the case the last one excepts
(`Stuck`): the server answers its range with 416 for ever.
`Dashboards`: every request is served, refused or lost in the end and the event loop runs the
continuation (`WF` of `Serve` and `Receive`); nothing is assumed of the users.

**Bounds.** Trails are bounded (`MaxAudit`, `MaxHistory`): a step that would overrun
the bound is disabled and behaviours end there, which is why those configurations
switch the deadlock check off. Four audit rows are enough for each pair of three
accounts to change roles in turn; eight history entries hold a report with automatic
assignment (four), a resolution, a reopening, a second resolution and what follows. `MCRequestColumns` stops at five, with room for little after a report that was assigned (four): an agent's
move that commits after an overlapping unassignment does not fit, and the longer histories it needs are too many
for a run of minutes. `AgentEntriesAlwaysBacked` and `ChangesAlwaysAnnounced` prove both properties for every bound.
Three accounts are the fewest for which two can act on a third. One incident suffices
wherever no property relates two; no handler but the switch touches two, and that one
treats them alike. The hours 0 and 1 put requests before and
at the deadline of a one-hour window, where the verdict turns, and the priorities' windows beyond it. Two slots give every pairwise overlap; symmetry is over
accounts of equal standing and over slots, never in a run with a liveness property.
`MCWorkflow` has a `VIEW`: histories that end alike for every guard and every invariant's
next step are one (`TrailEnd`), and of the account audit, which only `MaxAudit` reads, only
the length counts; whether the invariants hold is part of the view.

The prediction run scales the periods down (an hour is one minute, a week two, thirty
and ninety days three) and every threshold to one, so that each window opens, closes
and is left again within the four minutes of `Times`, and the models, the local and the
training baselines and UNAVAILABLE are each reached. Two incidents suffice: a prediction is
about one (`Predicted`), and what it reads of the others it reads of each alike. The first is
history of the same kind and place, the second either like it or of an unsupported
category outside of every area (`MCReports`). Two bundles of one version, one with
altered SLA model and ranges, put the same version behind different answers. Two transactions are
in flight at once (`MaxOpen`), each for as long as the run lasts: a report and a closure, or two closures,
commit in either order and in any later minute. `MaxLog` ends the behaviours in which a third row would be logged: one
view, so one row of each task, or two rows of one of them. What a longer log says, and more transactions, is left to the
proofs. The run has 246,438 distinct states.

In `MCIdentity` two requests of either kind overlap (`MaxOverlap`), one address moves once
(`MaxMoves`), and there are two addresses and two Google accounts, one already known: enough
for a fork, a rebinding and an address that belongs to somebody else. The proofs lift all of it.

`MCDownloads` has one file of each way of writing and two years of Boston, pages of two rows,
two tries, and two faults in all (`MaxFaults`) out of kills, failures and publications; a kill
followed by a change of the data, or by a second kill, is the longest story a script tells apart.

`MCPipeline` has two sources and sixteen reports chosen row by row (`MCRows`): a chain of
duplicates over several weeks, reports without place, zone, time or mapped category, due times kept
and missed, a report closed in the hour it was opened, one without a time. Each city has its row of cells,
so of its own width: with the rings of the wider one reports within the radius are missed. Three runs, one new delivery or deletion
and one kill (`MaxStarts`, `MaxDeliveries`, `MaxKills`) give every run over what two others left.

`MCDashboards` has two requests on their way, two incidents and two agents, and two events
(`MaxEvents`) that are other people's changes, those of roles included, lost answers, sign-outs or ends of session. There are two
agents and an administrator, any of whom may become any other. Who is deactivated or loses the page's role
cannot sign in again, where behaviours end. The run has 357,215 distinct states.

## 4. What is proved

| Theorem | Statement |
|---|---|
| `AccountsTypeCorrect` | `Spec => []TypeOK` |
| `ActiveAdminAlwaysRemains` | `Spec => []ActiveAdminRemains` |
| `TrailExplainsAccounts` | `Spec => []AuditExplainsAccounts` |
| `TrailHasNoGap` | `Spec => []AuditIsAChain` |
| `TrailAuthorisesChanges` | `Spec => []AuditAuthorisesChanges` |
| `RacesTypeCorrect` | `RacesSpec => []RacesTypeOK` (of `AdminRaces`) |
| `OverlapKeepsTrailExplained` | `RacesSpec => []AuditExplainsAccounts` |
| `SerialImplementsAccounts` | `RacesSpec => Spec` of `Accounts`, when there is one slot |
| `NoAccountIsForked` | `IdentitySpec => []OneAccountPerIdentity` |
| `IdentityIsBoundForGood` | `IdentitySpec => BoundForGood` |
| `IdentityImplementsRaces` | `IdentitySpec => RacesSpec` of `AdminRaces` |
| `IdentityKeepsTrailExplained` | `IdentitySpec => []AuditExplainsAccounts` |
| `WorkflowTypeCorrect` | `WorkflowSpec => []WorkflowTypeOK` |
| `WindowStaysAnchored` | `WorkflowSpec => []WindowAnchored` |
| `ClosedNeverLeft` | `WorkflowSpec => ClosedIsTerminal` |
| `WorkflowImplementsAccounts` | `WorkflowSpec => ImplementsAccounts` |
| `WorkflowKeepsAnAdmin` | `WorkflowSpec => []ActiveAdminRemains` |
| `TrailAlwaysExplainsRow` | `WorkflowSpec => []TrailExplainsRow` |
| `TrailAlwaysAChain` | `WorkflowSpec => []TrailIsAChain` |
| `AgentsAlwaysAccountable` | `WorkflowSpec => []AgentsMoveOnlyTheirOwnWork` |
| `ReworkAlwaysRecorded` | `WorkflowSpec => []ReworkIsRecorded` |
| `ProofAlwaysFollowsResolution` | `WorkflowSpec => []ProofFollowsResolution` |
| `LateAlwaysBreached` | `WorkflowSpec => []LateIsBreached` |
| `AvailabilityAlwaysCurrent` | `WorkflowSpec => []AvailabilityTrailCurrent` |
| `AgentEntriesAlwaysBacked` | `RacesSpec => []AgentEntriesBacked` (of `RequestRaces`), for any number of slots |
| `ChangesAlwaysAnnounced` | `RacesSpec => ChangesAreAnnounced` (of `RequestRaces`), for any number of slots |
| `SerialImplementsWorkflow` | `RacesSpec => WorkflowSpec` (of `RequestRaces`), when there is one slot |
| `SerialKeepsClosed` | `RacesSpec => ClosedIsTerminal`, when there is one slot |
| `NoLookAhead` | reports of the same minute and later closures change no prediction |
| `PredictionsStable` | `PredictionsSpec => SameAnswer` |
| `PredictionsOutcomesAreFinal` | `PredictionsSpec => OutcomesAreFinal` |
| `LogAlwaysCurrent` | `PredictionsSpec => LogStaysCurrent` |
| `EvidenceAlwaysTheOutcome` | `PredictionsSpec => []EvidenceIsTheOutcome` |
| `ForecastAlwaysSettled` | `PredictionsSpec => ForecastIsSettled` |
| `DownloadsImplementMirror` | `DownloadsSpec => ImplementsMirror` |
| `ListedRowsAlwaysStay` | `DownloadsSpec => []ListedRowsStay` |
| `DuplicateGroupsAlwaysInOneFold` | `PipelineSpec => []DuplicateGroupsStayInOneFold` |
| `FoldsAlwaysOrderedAndInhabited` | `PipelineSpec => []FoldsAreOrderedAndInhabited` |
| `AlwaysOneCorpus` | `PipelineSpec => []OneCorpus` |
| `FullRunAlwaysHeals` | `PipelineSpec => []FullRunHeals` |
| `CleanRunAlwaysRaisesNoAlarm` | `PipelineSpec => []CleanRunRaisesNoAlarm` |
| `OfferedMovesAlwaysAccepted` | `DashboardsSpec => []OfferedMovesAreAccepted` |
| `TrailAlwaysShowsOwnActions` | `DashboardsSpec => []TrailShowsOwnActions` |

They hold for any sets of accounts, incidents, hours, files and requests on their way, any
inputs, page sizes, retries, faults and bounds, under the assumptions `AccountsAssumption` (scripts act as accounts; NULL is
no account, role or word), `IdentityAssumption` (no two Google accounts have one address
at first, and NULL is no address, subject or tab), `WorkflowAssumption` (the seed has an administrator,
hours are naturals, inputs are legal, NULL is no number, status or verdict), `NullIsNoRow`,
`PeriodsAssumption` and `PredictionsAssumption` (periods and thresholds are positive,
the service is younger than ten years, NULL is no number, row, category or method),
`DownloadsAssumption` and `NoFileAssumption` (a command is one paged table or some yearly files;
a table is either appended to or rewritten; a missing file is no file, and what is no JSON is no manifest),
`DatasetRulesAssumption` and `PipelineAssumption` (there are finitely many records, their times are
hours counted from an epoch or null, their places numbers or null, each in a row whose cells have a positive width, null is no number, scores of
categories are between 0 and 1 as `config/priority_config.yaml:34` has it, the sources are the four of
`build_incidents.py:18`, deliveries and fixtures hold records of their source, and a command starts at one of the
seven phases),
and `DashboardsAssumption` (the agent and the administrator of the pages are two users; null is no user, incident, row or React key). Each is checked by TLC in
the runs of its module.

*The lockout invariant* is inductive once the types are known: a change that takes
an administrator away has just counted another one, and every other change leaves
the witness alone. The theorem is about the atomic module; `MCAdminLockout` shows
what its atomicity is worth.

*The audit trail* is explained only by an invariant that is stronger by one clause:
an account that does not exist was never (de)activated, or its registration would
not explain its activation. With overlapping requests it must also be known that a
request past its read acts on an account that exists; nothing else about the other
requests matters, because `users` is updated, and so locked, before the row of the
trail takes its id.

*The trail's order and authority* follow from it: a request appends its row with the value
the account has, which is what the rows before say, and by an actor who is an active
administrator, which they say too. No pair of earlier rows is disturbed by appending one
(`AppendedChain`, `AppendedSound`).

*One slot implements the atomic accounts* because what the only request has read is
still so when it commits: registrations, the only other steps, touch accounts that
do not exist yet. The invariant says so (`SlotsFresh`); with two slots it fails at
the first overlapping commit, and that is the lockout.

*One account per identity* needs to know what a flow under way may rely on (`Sound`): the
identity is still as Google vouched for it, and the account the flow has found is still the
one to write. A flow that links has seen an account with its address and without a subject.
If another flow links the same account in between, it is one with the same address and so, as
no two Google accounts have one (`Vouched`), of the same subject (`SameIdentity`, in
`LinkKeeps`): the second write repeats the first, and nothing is taken away. The indexes do the
rest (`StaysUnshared`). Each action has its lemma, and `IdentityStep` collects them. The refinement
of `AdminRaces` is short, since a step of a sign-in registers an account or leaves the accounts
alone, and brings the audit trail's theorem with it.

*The workflow* rests on `TypeInv`, which strengthens `WorkflowTypeOK`: a history is a
sequence of typed entries, without which appending to it could not be typed.
`WorkflowStep` shows, action by action, that a step keeps `TypeInv`, the anchoring
of every filed row, and every incident that is CLOSED; each request on one incident
is reduced to a lemma about its plan (`StatusPlanSound`, `AssignPlanSound`, ...),
which says that the planned row is a row, is anchored if the loaded one was and is
CLOSED if that was, and that its entries are typed. The three theorems follow from
that one step. `WorkflowImplementsAccounts` is a refinement whose mapping is the
identity: a workflow step is an `Accounts` step or leaves its variables alone. It
carries the lockout invariant over without another induction.

*The histories* are the subject of the second half of `IncidentWorkflowProofs`. The properties
quantify over positions of entries, and none is inductive: a request appends up to four entries,
and what each must say depends on the entries before it and on the row. `HistoryInv` gives every
incident its `Story(h, c, f, t)`: what the history `h` says of the row `c`, of the agents' switches
`f` and of the clock `t`, as a conjunction of parts (`Tells` for each family of entries, `Named`,
`Accountable`, `Reworked`, `FinishKnown`, `Proven`, `Noted`, `Dated`) with `Late` beside it. The
parts need each other: an agent's entry is `Accountable` because the row's agent was `Named`, and
two finishes have a reopening between them because a finished row remembers its last finish. A
plan is then read as a walk of rows, one entry at a time (`Follows`), and `StoryOn` says that an
entry that follows keeps the story; each kind of request only has to show its walk. The seven
theorems read their property off the story.

*Agents' entries under overlap.* `AgentEntriesBacked` holds for any number of slots, unlike what
needs the row to be current. `OverlapInv` says what the slots may rely on (`SlotSound`): a loaded
row may be stale, but it was committed once, with the entry that gave it its agent, and entries are
never taken away. A staged request has its first entry's place already, before the lock, so other
commits may come in front of it or behind it: `Lined` says that the staged requests of an incident
stand in a line by `place` and `behind`, and a commit shifts the places of exactly those behind it,
so that a gift that stood before a place still does (`TrailBacked`).

*Changes under overlap are announced* although a commit writes its SET clause over whatever was
committed since the load. The invariant is about the staged requests: the entries a request has
staged name every column of its SET clause (`StagedAnnounces`, from the plans), and staged entries
are committed as they are. Inserting them leaves every entry that was there and adds one of the
kind, so the count of that kind grows (`MergedCounts`, by an injection of the positions before into
the positions after); a step that is no commit changes no row.

*One slot implements the workflow* by the same argument, a level further down. The
invariant `SlotsCurrent` says that what the only request has loaded is the committed
row, and what it has planned is still the plan; a flush takes an id that is the next
one, because nobody else has taken any, so inserting the entries at their place is
appending them (`InsertAt`, `AppendAtEnd`), and the SET clause writes the columns that
changed, which over the unchanged row is the planned row (`SetClauseWrites`). So every
commit is an `IncidentWorkflow` step and every other step a stutter, and `ClosedNeverLeft`
carries over; `MCRequestClosed` shows what the second slot costs.

*No look-ahead* is a statement about two tables. `Later(T, U, q)` says that U is what T
may have become for a reader who asks about q: reports of q's minute are new, open
incidents were closed in q's minute or after it. For each operator of `PredictionRules`
a lemma says that it yields the same on both; the one with substance is
`SettledByDeadline`: an incident whose deadline passed before q missed it, or met it,
whatever happens to it later. `TimedInv` says that no row and no stamp in flight is dated after the
present, and that no id is reported by two transactions in flight; closures of one incident may overlap, and the
earlier stamp stays whichever commits last. `StepChanges` says from it what a step may do to the committed table, and `LaterStep`
that, unless it commits something older than the report of an incident, the table read for this incident
is afterwards exactly so much later, whatever is still in flight. Hence any answer about it is what it was (`AnswersEqual`), which
gives `SameAnswer`, and half of *the log*; `OutcomesAreFinal` follows from `StepChanges`.

*The log.* `ValueFor` gives the value of a row as a function of its task, method and window,
whatever bundle answered (`AnswersExplained`). Two answers of one key are therefore the same value
(`ExplainedOneValue`), which is why dropping the second (`ON CONFLICT DO NOTHING`) loses
nothing. A row of the log is as it was inserted, and was then an answer with all its fields, given by one of the bundles
(`RegistryInv`), or a failure (`AnswerCurrent`, `FailureCurrent`); a step that commits nothing late leaves what is current
current (`CurrentStays`). `LogInv` types the log and keeps its keys apart. *Evidence* needs no more than `TimedInv`: a window that
ended before a report has settled outcomes. *The forecast* reads rows of weeks before the present
one, which a step only dates by a late commit (`SameForecast`).

*The downloads* implement `Mirror` step by step: every action of `Downloads` is one of its steps
or a stutter. The invariant `DInv` says what a running script may rely on although the publisher
withdraws and reissues meanwhile. Its heart is `CopyOf`: the copy is ascending and its k-th key is
no greater than the k-th published one. So the page at the offset of the rows on disk has only
later rows, even after a withdrawal has moved rows from that page into the part that is already
copied: rows can be missed, never doubled or reordered. `PartialInv` says that a partial yearly
file begins the year unless the year was issued anew, and `ScriptInv` what each program counter
knows of its file. `ListedRowsStay` then needs nothing but the steps of `Mirror`: an abstract
step that keeps what is listed, carried over by the refinement.

*The pipeline's rules* are proved first, whatever the rows. The two incidents of a positive pair are in the same closed sets, so one component
decides the fold of both (`LinkedAlike`). For the split, the number of earlier members ranks a finite
set of times from 0 on without a gap (`RankOnto`: an injection between sets of one size is onto).
So there is a least and a greatest time, a row at each position for the quantile to interpolate
(`RowRankExists`), and a distinct time at each index the clamps allow (`IndicesInside`): cut points
are always numbers, and three distinct times fill three folds (`CutPointsSound`). A row is cut on its
own group's timeline (`CutOnOwnLine`), whence order and inhabitants of each group. *The tables on
disk* are then those the rules make of some records: `TablesInv` says so of every file that is neither
missing nor torn, and a step writes such a table from the tables it finds (`BuilderWrites`), at an
output that is its own (`RunInv`); a kill tears it.

*One corpus* is a promise about the end of a run, and so an invariant of the way there. The thirteen
outputs of phases 4 to 6 are ranked in the order in which they are written (`Rank`), and `Made(f)` says
of each what `Coherent` asks of it, and a little more that the checks need, in terms of the incident table and
of outputs of lower rank. `UpTo(n)`,
that the first n are made, is therefore not disturbed by writing a later one (`WritesLater`), whatever is
on disk in its place. `CorpusInv` says that a run which may still end well (`Good`: nothing failed, or only
checks, in a run that goes on) has passed over no step of these phases (`Whole`) and has made
the outputs up to the place it has reached (`UpTo(Level)`). A step makes the next one from what it finds
(`OutputMade`; the time table is made first, so the resolution table has the hours of all its rows), the task table it
may leave alone has nothing to say (`OutputLeftAlone`), and the level of a run that has no step left is 13.

*Healing* needs to know of a run of all phases over a delivery with data for every task (`Full`) that it gets
to its end. `StackInv` says that from `build_incidents` on the incident table is the union of the sources'
tables, none of which is torn or written again (`Stacked`); `FullInv` that every source whose step is over is
this delivery's (`Sourced`), and that what has failed so far is a check: before phase 7 one of phase 1, on
what an earlier run left, since a step of phases 2 to 6 finds all it needs (`EarlySucceeds`, `MidSucceeds`),
and in phase 7 only what finds `sla_ml` torn, or a report without a time in an old pandas (`ChecksSucceed`; the rows without
an hour are those without a time, `HoursMissing`, and no phase before the last audits, `EarlyNeverAudits`). `validate_outputs.py` fails on what it finds in
tables too, so that `OutputsAreSound` has to be shown: the substance is the hotspot panel, where the row before
a row in the table is the week before because a city's weeks are an interval and each series has a row in each
of them but the last (`WeeksInterval`, `PanelCell`, `NextWeek`), which makes lags and targets agree (`PanelAgrees`).

*No false alarm* compares two ways of computing the same thing, for each script of phase 7 that only reports.
The density table counts in the cells around a report, the audit over all rows: a ring of
`(250 + w - 1) div w` cells of width `w` covers the radius for the width `w` of every row (`RingCovers`), so the two count the same
rows (`WithinIs`, `RecountIs`), and shorter windows lie in longer ones (`DensityBounds`). Scores are at most the
weights they are made of, term by term (`SignalsScaled`, `SumBetween`), and the corpus has as many rows as the
tables of its sources together (`SizesAgree`, from `SumOfSizes`). Both are facts about sums over a set,
which the library defines by recursion; where the induction theorems cannot be used, a smallest set for which
the claim fails does their work (`SmallestSubset`, `SumUnfolds`). An `sla_ml` that this run left alone may be an
earlier run's: it is a table of targets of some records, and none of them is in the present corpus, or the run
would have had a target to write (`TargetsJoined`). `CleanInv` carries it through the run: no alarm before
phase 7, where the tables no longer change, and then only those that can be read off the incidents (`CheckFinds`): `Expected` says
for each such check that it fails only if the incidents say so, `PanelClean` that the audits of the panel
find quiet and busy weeks as they are, and `TasksHold` that a table of pairs or targets that is there has rows.

*The dashboards* rest on what the requests and answers on their way have in them (`Sound`). A
status button was offered for the row the request carries, and an agent's row is the agent's own;
if that row is still the one behind the API, the API accepts the move (`OfferedIsAccepted`, the two
tables of `lib/api.ts` against those of `models/incident.py`), as long as the viewer has the role of the page: an
answer remembers the role it was given for. An agent who was an administrator for a while, whom the API then listed
every incident, may be left with a row that is another's, and is refused it. The entries an answer tells of are
in the trail of the API, since that only grows (`SoundStays`); so when the user learns of an entry,
`known` is not ahead of the API (`Learning`), a trail that is served afterwards has it
(`ServeTrailStep`), and one that was shown before is asked for anew, because the redraw that comes
with the news bumps the key (`Drawing`). `Attended` says which request each disabled control waits
for, and that nobody waits for an answer when no page is open; it is what makes `live` answers
meet an open page.

Model-checked only, being out of the prover's reach: liveness under fairness (`EveryRunEnds`, `TablesArrive`,
`YearsArriveUnlessStuck`, `ControlsComeBack`) and ENABLED. Every invariant and every action property that
a passing run checks is a theorem.

## 5. Not modelled

- Passwords, tokens, cookies, the OAuth exchange, `last_login_at`, image bytes and their
  validation, list queries, response schemas: reads, cryptography and I/O.
- Reports that overlap each other or an assignment: the longest-idle queue (`incident_service.py:270`)
  and an agent who becomes unavailable between the test and the commit (`:557`).
- A photo that fails after the report was committed (`api/incidents.py:138`), and a statement of the
  prediction log that fails in its savepoint (`ml/service.py:98`).
- A proof of work whose upload is awaited while the incident is reopened or closed (`api/images.py:147`; `ProofFollowsResolution` is about
  the atomic module and does not see it), and a
  bundle of which `feature_ranges.json` alone fails verification (`ml/predictors.py:114`): the actions
  are in `RequestRaces` (kind `proof`) and `PredictionRules` (`RegimeReasons`), no run asks the question.
  Asked, each is a disagreement with a comment; they are listed as hazards.
- `init_db`, the migrations and the backfills run again on a database in use (`scripts/init_db.py:43`).
- The citizen's dashboard, the hotspot page (whose answers may come out of order, `hotspots/page.tsx:57`),
  user administration, and what is drawn.
- Floating-point sums of the priority score, and so whether the two engines of `build_priority_features.py` agree at
  the boundary of a band (`:212`, `:348`).
- Disk space, checksums, `--dry-run`, and the publishers' formats.
- Training, evaluation and export: numeric fitting in one sequential pass each. Export refuses an
  existing bundle and renames a partial one; saving a model is not atomic, and ranges and baselines are
  computed from the tables on disk at that time. What serving reads of the result is in `PredictionRules`.
- Start-up, configuration and the presentation builder: wiring and drawing, with no state of their own.

## 6. Plan

In this order, the most consequential behaviour first.

1. `Dispatch`: reports and assignments that overlap each other, the availability
   switch and (de)activation; the longest-idle queue as the abstract specification,
   implemented by reports that do not overlap.
2. `BundleExport`: training, gates and export as steps over files, killed in between, with the
   registry of `PredictionRules` reading what is left.
3. `SlaRaces`: the clock moves while requests overlap; the verdict column that reads
   refresh and commits write back.
4. `PredictionLog`: the savepoints of the log after a commit, one of its statements
   failing, and a photo that fails after the commit: the incident is left alone.
5. `SchemaMigration`: `init_db` run again at any point of a database's life.
6. `HotspotPage`: answers out of order.

Proofs: with `Dispatch`, that reports which do not overlap implement the longest-idle queue.
