# django-siteintel in TLA+

`django_siteintel` audits a web domain. A request creates an *audit* row with one *report* row
per registered source (lighthouse, urlscan, heuristic); Celery tasks fetch the sources, and when
every report is finished the audit is closed and the Django signal `report_ready` is sent. An
audit is reused until it expires, it can be rerun, and a sweeper fails audits that got stuck.

This directory models that machinery in TLA+, model-checks it with TLC on small instances, and
proves the properties that matter most, for every value of the constants, with TLAPS. File names
below are relative to `src/src/django_siteintel/`; the documents are in `src/docs/`.

- [Inventory](#inventory): the parts of the system, and what makes each correct
- [Modules](#modules): which module models which part, and how
- [Runs](#runs): what TLC checks, the bounds, the fairness
- [Proofs](#proofs)
- [Where the code departs from its documents](#where-the-code-departs-from-its-documents)
- [Limits](#limits) and [Plan](#plan)

## Inventory

### The run of an audit — `tasks/`, `services/report_service.py`, `services/audit_service.py`

State: the `Audit` row (`status`, `run_id`, `modified_at`, `expires_at`), its `Report` rows
(`status`, `error_code`, `error_detail`, `retry_count`, `raw`, `processed`), and the messages in
the broker.

| Operation | Code | What it does |
|---|---|---|
| `run_audit` | `tasks/run_audit.py` | claims pending → running, publishes a chord: one `run_source` per source, then `finish_audit` |
| `run_source` | `tasks/run_source.py` | checks the run, marks the report running, fetches; completes, retries on `upstream`, or fails it; schedules the poll of a polling source |
| `poll_urlscan` | `tasks/poll_urlscan.py` | checks the run, polls once; completes or fails the report, or re-dispatches itself |
| `finish_audit` | `tasks/finish_audit.py` | checks the run, closes the audit if every report is finished, else re-dispatches itself; fails what is unfinished when it gives up |
| `sweep_stuck_audits` | `tasks/sweep_stuck_audits.py` | fails audits in flight that were not written for 30 minutes |
| `expire_audits` | `tasks/expire_audits.py` | expires succeeded audits after `expires_at` |
| rerun | `audit_service.rerun_audit` | resets the reports, draws a new `run_id`, queues `run_audit` |

The tasks interact through the two tables only. The tables give three means of coordination: the
conditional update of `_save` (a finished report is never written), the row lock with a re-check
of the status in `finish` and `_fail_stuck_audit`, and the comparison of `run_id` at the start of a
task. Hard: every task interleaves with every other, with the sweeper and with the tasks of an
earlier run; `acks_late` hands a message out again when its worker dies; between the check of the
run and the write lies a network fetch; between the closing commit and the signal the process may
die.

Correct when: the audit's status tells its reports; a finished report stays; each closed run is
announced once, with the sources a receiver finds succeeded; no result of one run ends up in
another; a run closes whatever is lost.

### Requests for a domain — `services/audit_service.py`, `models/audit.py`, `api/admin/views/audit_views.py`

`request_audit` returns the newest valid audit of the domain (and signals at once), else inserts a
new one. A partial unique constraint allows one pending or running audit per domain and channel;
the loser of a race looks for the winner with up to three queries. Hard: each query is stale when
the next one runs. Correct when: never two audits in flight, every caller is given an audit, and a
signal follows every request and names what succeeded.

### Upkeep of the table — `fail_stuck_audits`, `migrations/0003`

The sweeper goes through the audits it found stuck, one transaction and one signal each; an audit
deleted meanwhile or a receiver that raises ends the loop. Migration 0003 fails all but the newest
audit in flight of each domain and channel, then adds the constraint, in one transaction that takes
row locks while requests and workers go on. Correct when: every audit leaves flight in the end; the
migration stops nothing current, leaves no report of what it stops open, and fails only when a
run began meanwhile.

### Health checks — `checks.py`, `services/source_status.py`, `admin.py`

`sources_configured` warns of recording mode and missing keys, `keys_accepted` calls the API with
the key and caches a success for 60 s under a fingerprint of the key. State: the `ExternalApiKey`
row, edited in the Django admin, and the cache. Hard: the row changes, the provider revokes a key
and the cache or the database fails between any two steps. Correct when: silence means that the key
there is was accepted within the last 60 s, and a fix is seen by the next check.

### The poll clocks — `settings.py`, `tasks/finish_audit.py`, `report_service.poll`

The poll task has a deadline, `finish_audit` counts attempts; the two neither share a start nor a
unit, and both settings may be configured to anything. Correct when: `finish_audit` fails the report
only of a poll that is lost, broken or late, it does give up, and nothing spins.

### Fetching a source — `security/url_guard.py`, `sources/`

`safe_get` follows up to three redirects, validates the host of each, sends the headers to the
first host only and cuts the body at a cap; `safe_post` follows none. `source_error` reads the error
code off the text of the exception; each source decides what a 404, a cut body, an empty or a misshapen
answer means. Hard: the text may quote a URL, a status line or bytes of the upstream. Correct when: no
private host is contacted, a fetch ends, and the error code tells what happened.

### The rest

| Part | Code | State and operations |
|---|---|---|
| Development run-now | `audit_service.run_now`, `api/admin/views/test_views.py` | runs the sources inline, without a run check, next to the workers |
| Snapshot cleaning | `services/cleaning_service.py` | pure: drops blobs and deep nesting, trims lists to 3, then to 1, then refuses. Correct when: what is stored is clean and below the limit, nothing else is lost, a refusal was unavoidable |
| Domain normalisation | `utils/domains.py` | pure: registrable domain of a host, the key of an audit. Correct when: a key that is asked for is found again, it is the shortest ending that is no known suffix |
| Admin API | `api/admin/`, `schemas/` | stateless reads, filters, pagination, validation |
| Django admin | `admin.py` | lists; deletes audits with their reports; edits API keys |
| Migrations 0001, 0002 | `migrations/` | schema |

## Modules

| Module | Models |
|---|---|
| `AuditTypes` | `enums.py`: statuses, classes of statuses, error codes |
| `AuditRun` | one audit row and everything that works on it |
| `RunPromise` | the abstract specification: what an audit promises its consumers |
| `AuditRunPromise` | the refinement mapping from `AuditRun` to `RunPromise` |
| `AuditRunDev` | `AuditRun` together with one `run_now` call |
| `AuditRunDevPromise` | the refinement mapping from `AuditRunDev` to `RunPromise` with a reopening |
| `AuditRequests` | concurrent requests and reruns of one domain |
| `PollBudget` | the two clocks, second by second |
| `SourceFetch` | one fetch of a source, request by request |
| `Filtering` | a list comprehension with a condition, which `Cleaning` and `Domains` use |
| `Cleaning` | `clean_snapshot`, round by round |
| `Domains` | `normalise_domain` over label sequences |
| `KeyProbe` | the health checks of one keyed source |
| `Maintenance` | the sweep over many audits and migration 0003 |
| `AuditRun_proofs` | theorems about `AuditRun`: types, statuses, signals |
| `AuditRunSteps_proofs` | theorems about `AuditRun` that follow what a single step writes, and the refinement of `RunPromise` |
| `AuditRunDev_proofs`, `AuditRequests_proofs`, `Maintenance_proofs`, `SourceFetch_proofs` | theorems about the module of the name |
| `Clocks_proofs` | theorems about `PollBudget` and `KeyProbe`, the two modules in which time passes |
| `Conversions_proofs` | theorems about `Cleaning` and `Domains`, the two pure conversions |
| `MC…` | the instances TLC checks; `MCSmallParts` puts `Cleaning`, `Domains`, `PollBudget` and `KeyProbe`, which share nothing, side by side |

### AuditRun

A step is one statement or transaction on the database, or one call of an upstream, with the local
computation up to the next one. A task is a record whose `pc` says which step comes next, so that
any step of any other task can come in between.

| Variable | Code |
|---|---|
| `status`, `runId` | `Audit.status`, `Audit.run_id`; a run is named by its number, a rerun draws the next |
| `modified`, `aged` | `Audit.modified_at`: how often the row was written, and whether the last write lies before the stuck cutoff. `modified_at >= cutoff` in the sweeper's re-check means "written since the scan" |
| `report` | the `Report` rows: status, code, whether `error_detail` is set, retries |
| `tasks` | messages in the broker and tasks being executed, the sweep, and signals committed to but not sent |
| `waiting` | the header tasks each chord still waits for |
| `announced` | how often `report_ready` was sent for each run |
| `faults` | faults so far |

A signal that is owed carries the write of the audit row that owes it, so that two are never one.

Two fields of a report are history, read by properties only: `writer` is the run of the task that
wrote it last, and `quiet` says that when it was reset no task was past its run check.

| Task | Steps |
|---|---|
| `run_audit` | `ClaimRun`, `PublishChord` |
| `run_source` | `StartSource` (run check), `MarkRunning`, then one of `FetchCompletes`, `FetchSubmits`, `FetchRetries`, `FetchFails`, `FetchBreaks` |
| `poll_urlscan` | `StartPoll` (run check), then one of `PollCompletes`, `PollFails`, `PollAgain`, `PollBreaks` |
| `finish_audit` | `CheckRun`, then `CloseRun` or `FinishReturns` or `CheckAgain`; after giving up `ListUnfinished`, `FailNext` per report, and `CloseRun` or `FinishReturns` |
| sweeper | `SweepScan`, `SweepFail` |
| receivers | `SendReportReady`, after the commit of `CloseRun` or `SweepFail` |
| others | `Expire`, `Rerun`, `Age` (time) |

`Save` is `_save`: it writes only while the report is unfinished, and it does not look at the run.
`ReturnFromHeader` is the chord: when the last header task returns the body is published; a header
task that retries has not returned.

Faults, at most `MaxFaults` of them: `Lose` drops a message, an executing task or a signal that
was committed to; `Redeliver` starts an executing task again from its message; `Duplicate` hands
one message out twice. A task that is redelivered *after* its last write is a `Duplicate` of its
message. These bounds are in the guards; `MaxRuns` bounds reruns and the sweeper has one sweep at a
time.

Abstracted: `raw`, `processed` and durations; a poll may find its deadline passed at any time, and
not passed while its polls fit in the budget (`PollBudget` has the clocks); a fetch is one step
(`SourceFetch` has its inside).

### RunPromise

A run has a phase (queued, working, closed) and an outcome per source. Each source settles once;
closing fails what is open and owes one signal, unlike any other that is owed, which names exactly
the sources that succeeded; a crash may lose the signal, nothing repeats it; a new run starts only
when none is working. `KeepsPromise` states that `AuditRun`, with all its tasks, sweeps, reruns and
faults, implements it: the owed signals are the `announce` tasks, the phase is a function of `status`.

With `MayReopen` the promise admits `run_now`: `Reopen` sets a closed run working again, once, and the
run is then closed, and owes its signal, a second time. Nothing else is given up: what was settled
stays, and each signal is true. `DevKeepsPromise` states that `AuditRunDev` implements this one;
`KeepsPromise` is about the promise without it.

### AuditRunDev

Adds one call of `run_now` in its own process: it claims the audit whatever its status, loads the
reports, runs each unfinished one (a polling source gets one immediate poll), and calls `finish`.
An exception other than `SourceError` ends the call, its `pc` is then `broken`, and the audit is left
running. `reopened` is history: whether the call found the audit closed.

### AuditRequests

`rows` is the sequence of audits of one domain on one channel, `call` holds the progress and the
answer of each caller, `heard` whether the signal was sent since a call began. Each query of
`request_audit` and `_find_race_winner` is an action; `Insert` is the transaction that the
constraint may refuse. A caller may use the rerun view instead: `BeginRerun` finds the audit,
`Reset` is the transaction of `rerun_audit` (refused with 409), `Refresh` reads the row for the
answer. A run is reduced to `Claim`, `Close` and `Sweep`; `PassExpiry`, `Expire` and `Delete`
(Django admin) come at any time. That every audit in flight closes is
`RunEventuallyCloses` of `AuditRun`, taken over here as fairness.

### PollBudget

Seconds pass one by one (`SecondPasses`), but not while a due message or a fetch is overdue (`Punctual`).
`PollInit` picks any configured interval and budget, through the clamps of `settings.py`, and any start
of the chord body; `PollSpec(starts)` leaves the possible starts open, for the theorems. `PollEnds` has
all exits of `poll_urlscan`: a result, a failure (a `SourceError` at any time, the passed deadline),
the next round, and any other exception, which leaves the chain `broken` and the report running.
`poll.due` is when the poll at hand was due; by it `OnlyLatePollsAreFailed` says how late an answer must
be before `finish_audit` may fail the report.

### SourceFetch

`config` holds the settings; `call` is a page, the two Lighthouse strategies, a urlscan submission or a
urlscan result. Each hop is guarded (`Refuse`, `Send`) and then answered: failure, 404, redirect or
body; a body comes in reads of at most `Chunk` bytes. A host keeps its address during a fetch. What
becomes of an answer is `BodyEnds` (with `Parsed`, `Submitted`, `Complete`), `StrategyDone`,
`LighthouseOutcome`, `AnswerNotFound` and `CutOff`; the outcomes are those that `AuditRun` assumes of a
fetch.

`SourceError` is `source_error`: it looks for "internal host", then for "exceeds the cap" in the text of
the exception. The program's own texts are fixed: a private host (`Refuse`), a refused redirect on a POST,
a body past the cap. Every other exception quotes something the upstream or the caller chose — a URL,
a host name, a reason phrase, bytes of a broken body — and `Fail` lets its text hold either phrase or
none (`Text`); `quoted` is history and says which. This holds of a connection error, a 4xx or 5xx, a
missing `Location`, a URL the guard cannot use, and one redirect too many. `OutcomeTellsCause` is
therefore one-sided: a private host is always `ssrf` and a cut body always `truncated` or `partial`,
while an `ssrf` or `truncated` may also come of such a quotation.

`internal` is not among the outcomes: the exceptions that lead to it have no place in this code, and
`AuditRun` has `FetchBreaks` and `PollBreaks` for them. Headers, and the key in them, are left out:
that they go to the first host only is one comparison in `safe_get`, which no later step can undo.

### Cleaning and Domains

`Clean` is `_clean` over values that are leaves (a size, and whether the string is a blob), lists
or dicts (entries with a flag for a trash key); a round of the loop of `clean_snapshot` is
`TryListCap`, its end without a result `Refuse`. What makes a string a blob or a key trash is given,
not computed, and `JsonSize` counts brackets and separators as one each. Correctness is stated
without `Clean`, by `IsClean`. `strip_nul`, a map over strings, is left out. A snapshot is a tree of
any width and of a height up to the bound `Height`: `Json[n]` are the values with at most `n`
containers nested, and `JsonSize` and `Clean` are functions on them, defined by recursion over the
height. They are recursive functions and not `RECURSIVE` operators, so that theorems can be proved
about them; so is `Without`, the comprehension that leaves out what was dropped.

A host is the sequence `split(".")` makes of it, empty labels included, so that leading, doubled
and trailing dots are inputs like others. `RegistrableDomain` strips, lowers and cuts;
`DomainIsShortestKey` says the same as a minimum over the endings of the host. The list filter passes a
domain through `normalise_domain` again: `ParsedHost` is the host that `urlparse` then finds — the
key is stripped (`Strip`) and cut at its first colon as if a port followed (`BeforePort`) — and
`DomainIsFixedPoint` says that its key is the one asked for, for every `Plain` key: one without a colon
(which only IPv6 literals have) and without whitespace at its ends. The rest of the parsing of a URL
and the length limit are left out. Of `lower()` the assumption `DomainConstants` says that it changes
nothing twice and makes no label empty; of `LStrip`, `RStrip` and `BeforeColon`, which strip and cut a
label, only that they yield labels. `Unasked` and `Invalid` are sequences that are the key of no host.

### KeyProbe

| Variable | Code |
|---|---|
| `source`, `recording` | the `KeyedSource`, and whether its base URL is not the public one; both stay for the life of a process |
| `row` | the `ExternalApiKey` row of the source |
| `accepted`, `rejectedFor` | the provider; how long it has rejected a key is history |
| `cached` | remaining life of the cache entry of each key |
| `check` | the check each process runs, or ran last, with its two findings |

A check goes `BeginCheck`, `SourcesConfigured`, `ReadKey`, `ReadCache`, `CallProvider`, `Store`, and
may end at each; any other process, an edit, the provider or the clock comes in between.
`BackendFails` is the `except` of `key_probe`, `CheckRaises` a failure of the queries outside of it.
`Answers` is what the two APIs answer as far as `SOURCES` and its comments say: Google answers a
probe without `url` with 400, urlscan its quotas with 200; either may say 429, be down or redirect.
One source at a time: the checks treat the sources one by one and share nothing between them. A
tick is 60 s at `CacheTtl = 1`; no tick falls between an answer and its storing. An edit is one step,
although the form loads the row before it saves it.

### Maintenance

`audits` is the table in the order of `created_at`, of all domains; `run` stands for `run_id`, `aged`
for `modified_at < cutoff`, `open` for an unfinished report, `over` for the four statuses out of
flight. `ScanStuck` and `SweepNext` are `fail_stuck_audits`, the signal of each audit included:
`raises` says that a receiver raised. The migration is its statements: the scan, the update of the
reports, the update of the audits, and the constraint with the commit. Under READ COMMITTED others
see its updates after the commit and wait for the rows it has written (`AuditUnlocked`,
`ReportsUnlocked`); the update of the audits goes by the primary keys of the scan. Before the
migration two audits of a domain may be in flight, after it `MayFly` refuses the second. Every other
transaction is one step.

## Runs

Every passing run has a mutant for each of its properties in `PROJECT.json`: a definition of the
code changed as a plausible bug would change it (the operators named `…Slip`), which the property
must catch.

| Run | Instance | Shows |
|---|---|---|
| `rerun_any_time` | 2 sources (one polls), 2 runs, no fault and no `SourceError` (a fetch fails by an unexpected exception, a poll by its deadline) | whatever the interleaving of two runs, sweeps and expiry: the status tells the reports, a finished report stays, one signal per run, and it is true when sent; an audit is failed only if it is older than the cutoff, or all its reports are finished and none succeeded, so the sweeper spares a run that was claimed or rerun since its scan; the run check keeps the runs apart except for tasks already past it |
| `faults` | 2 sources, 1 run, 1 retry, 2 error codes, 1 fault | the refinement of `RunPromise`, with at most one signal, when a message is lost, duplicated or redelivered; error codes agree with outcomes after retries; *liveness*, only the sweeper is fair: the run closes although a message was lost or the workers stopped |
| `workers_close` | 1 polling source, 2 runs, no retry | *liveness*, only the workers are fair: every run closes and is announced without the sweeper; the refinement of `RunPromise` across a rerun |
| `dev_run_now` | 2 sources, 1 run | `run_now` next to the workers: the refinement of `RunPromise` with a reopening; no report reopened, at most one more signal, and that only if it was called on a closed audit; *liveness*: whoever took the run closes it without the sweeper, unless `run_now` broke |
| `requests` | 3 callers (request or rerun), 3 rows | one audit in flight; the loser of a race always gets an audit unless it was deleted; a reuse names the succeeded sources of the run it found; *liveness*: a signal follows every request and rerun |
| `maintenance` | 3 runs of up to 3 audits of a domain | *liveness*: every audit leaves flight although any sweep may be cut short; the migration stops only what has a newer audit, closes its reports, and is refused only by a run that began meanwhile |
| `source_fetch` | 4 hosts (public API, public, private, unresolvable), all settings, cap 3, reads of 2 bytes, errors that quote either phrase or none | the guard on every hop, the error codes as far as their wording tells, termination |
| `small_parts`: cleaning, domains | some thousand snapshots around every limit, all hosts of up to 4 of 7 labels, those of up to 2 with whitespace at an end as well, one IPv4 and three IPv6 literals | what is stored is clean and below the limit, what was clean is untouched, a refusal was unavoidable; a domain that is asked for is found again unless it is an IPv6 literal or has whitespace at an end, and it is the shortest one |
| `small_parts`: poll clocks | intervals and budgets from −1 to 6 s, 1 s latency, fetches of up to 3 s, a chord body up to 3 s late | `finish_audit` fails only a poll that is lost, broken or late, gives up within its bound, and no task runs more often than seconds pass |
| `small_parts`: health checks | both sources, 2 keys, 2 concurrent checks, a cache of 1 tick | silence means a live source with an active key accepted within the cache's lifetime; a fix made before a check began is seen by it |
| `stale_write`, `lost_signal`, `second_audit`, `empty_domain` | — | counterexamples to statements of the documents, see below |

**Bounds.** Two runs are the least in which a stale task meets a rerun, and no code distinguishes a
third. Two sources, one of which polls, give every class of outcome (all, some, none succeeded) and
both kinds of report; the statuses depend on which sources succeeded only. One fault at a time
suffices for every recovery path the code has, as each is local to a message. No run combines a fault
with a rerun: with two sources that instance is too large; the theorems below hold for every number
of runs and faults together. The refinements are checked with two sources in one
run (`faults`, `dev_run_now`), that of `AuditRun` also with one source across a rerun (`workers_close`). `Interval = Budget = 1` lets `finish_audit`
re-check twice and then give up, so that both branches are taken. One retry passes through `note_retry`, the
re-queue and the exhausted branch; it is taken in `faults` only, with it the liveness runs of the
workers are too large. Three callers are a winner, a loser and one that reuses or
overtakes. In `source_fetch` the cap is not a multiple of the read, so a body ends below, at and
past the cap. For the poll clocks the horizon of 30 s lies behind the last check for the largest
settings; a fetch of 3 s can outlast the slack of the count, so a poll that is alive but late is failed
in some behaviours, and the bound of `OnlyLatePollsAreFailed` is reached: with one second more in it,
it is violated. For cleaning the depth limit is 2 instead of 6, the least at which the root, a
container that stays and one that is too deep differ; snapshots of height 3 have all of them; lists
reach one item past the cap. Two keys are
a key and the one that replaces it; two checks meet in the cache. In `maintenance` three runs are two
duplicates and the newest, or a duplicate rerun under the migration, or a request during it; the
audits are of one domain, since a second one only adds audits that the migration leaves alone
(with two domains and three runs the same properties held, in four minutes).

**Fairness.** `WorkersRun` says that the workers together do not stop while they have something to
do; each task takes finitely many steps, so this is what a Celery worker that is up gives. It is
assumed only where no fault is (`workers_close`) or where the property fails nevertheless
(`lost_signal`). `SweeperRuns` says that time passes and that the beat schedule, which
`docs/operations.md` prescribes, runs the sweeper; nothing is assumed of the workers there
(`faults`).
`dev_run_now` adds that a `run_now` that began goes on; nobody needs to begin one. In `Maintenance`
time passes for each audit, the beat runs the sweeper, and a migration that began goes on; nothing is
assumed of workers and requests, and any sweep may be cut short.
In `AuditRequests` a call that began goes on, and an audit in flight closes, which these two
runs justify. A fetch goes on because every request carries `SITEINTEL_FETCH_TIMEOUT_S`.

**Deadlock** is not checked: a closed audit nobody reruns, a domain whose calls are answered, a
finished fetch are at rest.

## Proofs

Proved with TLAPS for every set of sources, hosts or snapshots and every value of the numeric constants
that satisfies the `ASSUME`s of the modules.

| Theorem | States | Module |
|---|---|---|
| `TypeCorrect`, `Invariance` | `[]TypeOK`, `[]IInv` | `AuditRun_proofs` |
| `AnnouncedOnce` | `[]AnnouncedAtMostOnce` | |
| `StatusCorrect` | `[]StatusMatchesReports` | |
| `SignalCorrect` | `[]SignalMatchesReports` | |
| `NeverReopened` | `FinishedNeverReopened` | |
| `CodeCorrect` | `[]CodeMatchesStatus` | `AuditRunSteps_proofs` |
| `RunsKeptApart` | `[]ResultsAreOfTheRun` | |
| `SweepSparesLiveRuns` | `SweepOnlyFailsStuckRuns` | |
| `Refinement` | `KeepsPromise`: `AuditRun` implements `RunPromise` | |
| `DevInvariance` | `[]DInv` | `AuditRunDev_proofs` |
| `DevAnnouncedOnce` | `[]DevAnnouncedAtMostOnce` | |
| `DevStatusCorrect` | `[]StatusMatchesReports`, under `DevSpec` | |
| `DevNeverReopened` | `DevFinishedNeverReopened` | |
| `DevCodeCorrect` | `[]CodeMatchesStatus`, under `DevSpec` | |
| `DevSweepSparesLiveRuns` | `SweepOnlyFailsStuckRuns`, under `DevSpec` | |
| `DevRefinement` | `DevKeepsPromise`: `AuditRunDev` implements `RunPromise` with a reopening | |
| `RequestsInvariance`, `RequestsTypeCorrect` | `[]RInv`, `[]TypeOK` | `AuditRequests_proofs` |
| `OneInFlightCorrect` | `[]OneInFlight` | |
| `RaceHasAWinner` | `[]AlwaysAnAudit` | |
| `ReuseCorrect` | `[]ReuseNamesTheRun` | |
| `MaintenanceInvariance` | `[]MInv` | `Maintenance_proofs` |
| `ConstraintCorrect` | `[]ConstraintHolds` | |
| `MigrationCorrect` | `MigrationKeepsTheNewest` | |
| `MigrationRaces` | `MigrationFailsOnlyIfRaced` | |
| `ClockInvariance` | `[]ClockInv` | `Clocks_proofs` |
| `PausesCorrect` | `[]NoSpinning` | |
| `GivesUpInTime` | `[]ClosedInTime` | |
| `OnlyLateCorrect` | `OnlyLatePollsAreFailed` | |
| `ProbeInvariance` | `[]ProbeInv` | |
| `SilenceCorrect`, `FixCorrect` | `SilenceIsWarranted`, `FixIsSeen` | |
| `FetchInvariance`, `FetchTypeCorrect` | `[]IInv`, `[]TypeOK` | `SourceFetch_proofs` |
| `GuardCorrect` | `[]OnlyGuardedHosts` | |
| `OutcomeCorrect` | `[]OutcomeTellsCause` | |
| `StoredClean` | `[]StoredIsClean` | `Conversions_proofs` |
| `CleanUnchanged` | `[]CleanIsUnchanged` | |
| `RefusedHopeless` | `[]RefusedIsHopeless` | |
| `FixedPoint` | `[]DomainIsFixedPoint` | |
| `ShortestIsKey` | `[]DomainIsShortestKey` | |

Every invariant below was checked with TLC as an invariant of a small instance before it was proved.

**One run, its statuses and signals** (`AuditRun_proofs`). `AnnouncedAtMostOnce` is not inductive:
from a state in which two signals of a run are owed, both would be sent. `IInv` adds `SignalsOwed`: a
run that was not closed has neither sent nor owes a signal, and a run that was has sent or owes one at
most. With the type invariant, with `StatusMatchesReports` (a closed audit has no unfinished report,
so no late task can change what the signal names) and with `SignalMatchesReports` this is inductive.
The proof that a step preserves it classifies the steps: most are *inert* (they leave the audit row
alone, add no signal and keep finished reports), and the lemmas `SourceInert`, `PollInert`,
`FinishInert` and so on say so once; a *closing* step (`CloseRun`, `SweepFail`) and the remaining
ones — claim, rerun, expiry, signal, faults — are treated one by one.

**What a step writes** (`AuditRunSteps_proofs`). Two lemmas carry three theorems. `StepWrites`: a step
leaves the reports alone, resets them (`Rerun`), fails the unfinished ones (`SweepFail`), or writes one
unfinished report, from a task past its run check, in the name of that task's run, and with a code that
tells the outcome (`Writes`). `StepFollows`: a task past its run check that is new after a step is of
the current run, or comes from such a task of the same run. `CodeMatchesStatus` follows from the first.
For `ResultsAreOfTheRun` the strengthening is `QuietRuns`: while a report is as a quiet reset left it or
newer, whoever is past its run check is of the current run; so a stale retry or poll can write only into
a run that was reset while it was fetching, which is the finding `stale_write`. For the sweeper the
invariant is `SweepsKnow`: an audit that was not written since the scan is still older than the cutoff.

**The refinement** (`AuditRunSteps_proofs`). Under the mapping of `AuditRunPromise` every step of
`AuditRun`, faults included, is a step of `RunPromise` or a stutter: marking, retrying, submitting and
re-dispatching stutter, a write that finishes a report is `Settle`, `CloseRun` and `SweepFail` are
`Close`, sending the signal is `Signal`, losing its process `LoseSignal`, a rerun `Restart`. It needs
two invariants. By `StatusMatchesReports` a closed run has no report left that could settle. By
`SignalsNumbered` each signal that is owed carries a write of the audit row before the current one;
since each close writes the row, the signal it owes is unlike any that is owed already (else
sending one would leave its twin). Neither counts the signals, so the same invariants (`PInv`) carry the
refinement of `AuditRunDev`, where a run may be announced twice. The runs check it with two
sources in one run and with one source across a rerun; the theorem holds for all sources, runs,
retries and faults together.

**run_now next to the workers** (`AuditRunDev_proofs`). `run_now` breaks `IInv`: it sets a closed audit
running again, after its signal or while it is still owed. `DInv` counts instead: the `Signals`
of a run — sent, owed by a process that closed it, or still to come from the run in flight — are at most
one, two if `run_now` reopened it, and none for a run to come (`DevCounted`). Inert steps, closes and
the sending of a signal add to none of these sums; a rerun and the start of `run_now` add one where the
bound has room. The steps of `run_now` are brought under the classes of `AuditRun_proofs`:
reports inert, claim and finish like those of a worker.

The other three theorems rest on `DevSteady`, which adds to `DInv` the codes, `SweepsKnow` and
`SignalsNumbered`. `DevReportWrites` says of `run_now` what `StepWrites` says of a worker: it writes one
unfinished report at a time, with a code that tells the outcome; its claim and its close write the
audit row, so a sweep that scanned before spares the audit. For `DevRefinement`, a step
of the promise without reopening is one of the promise with it (`PromiseIsDevPromise`), which settles the
workers and most of `run_now`: its reports are `Settle`, its finish is `Close`. Its first step is `Begin`
on a pending audit, a stutter on a running one and `Reopen` on a closed one (`DevStartPromised`).
`ResultsAreOfTheRun` is not claimed under `run_now`, which checks no run and whose results may fall
into the run of a rerun made meanwhile.

**Requests** (`AuditRequests_proofs`). `RInv` says of each caller what it may rely on though its queries
are stale: a row it names exists; once the constraint refused its insert there is a row, for good
(`SawARow`, why the third query of `_find_race_winner` finds one unless an audit was deleted); the run it
found for reuse is over with success as long as the row still has that run (`FoundRunIsOver`). A step
changes the table by settling rows, adding a pending one when none is in flight, or resetting one when
none is (`StepRows`), which gives `OneInFlight`. That a nonempty set of rows has a newest one is shown by
the well-foundedness of `<` on the distance from the end (`NewestExists`).

**The migration** (`Maintenance_proofs`). The scan's findings stay meaningful while requests, workers,
reruns, sweeps and deletions go on: an audit found keeps its place and its run, or a later one
(`FoundAudits`); the duplicates are exactly the audits found that have a newer one found in their domain
(`DuplicatesAreOlder`); and a duplicate with open reports after their update has been rerun
(`OpenIsLocked`: a row the migration wrote is locked until it ends). So what it stops had a newer one; and
when `MayFly` does not hold at its end, one of the two audits in flight took a run since the scan. From
then on `ConstraintHolds` — no domain and channel with two in flight — is kept by every step.

**The clocks** (`Clocks_proofs`). `ClockInv` relates the count to the time: a check comes no later
than its number of intervals and waits (`LatestCheck`), and its number never passes the quotient of
budget and interval by more than one. `OnlyLateCorrect` is about the race of the two clocks and assumes
nothing of the latency, the length of a fetch or the start of the chord body: a poll is put off only
before the deadline, so it is due less than an interval after it (`DueInTime`), and a check that gives up
comes more than an interval after the deadline plus the start of the count (`FinishNotEarly`,
`GivesUpLate`); a chain that ended without an exception has settled its report (`PollSettles`).

**Fetches** (`SourceFetch_proofs`). `GuardCorrect` rests on `OneRequest`: a step sends at most one
request, and only to a host the guard passed. For `OutcomeCorrect` the invariant says that a body is
within the cap until the read that ends the fetch (`BodyWithinCap`), that a request is under way only to
a host the guard passed (`GuardPassed`), that nothing was quoted before the end (`NothingQuoted`), that
a strategy is left while the fetch goes on (`StrategyLeft`), and that a strategy answered without a run
was a 404 in recording mode (`NoneIsRecorded`).

**Health checks** (`Clocks_proofs`). The invariant says that a cache entry dies before its key was
rejected for a lifetime (`CacheIsFresh`), and what a check has found out so far unless the row was edited
since: a missing key or recording mode was warned of (`KnowsConfig`), the key it goes by is the row's
(`KnowsKey`), and what it is about to store was accepted just now (`KnowsAnswer`). `SilentStep` then goes
through the steps that end a check. `FixCorrect` needs the converse as well, that a check has warned of
nothing so far where there was nothing to warn of (`KnowsClear`), and that the answer to an accepted key
is either good or trouble.

**Conversions** (`Conversions_proofs`). These theorems are about what recursive functions compute for
every input: every snapshot of any height, every host of any length. A theorem of induction takes the
property as an operator, which the provers cannot instantiate; `UpToInduction` states it for a *set* of
numbers instead, and follows from the well-foundedness of `<` (a least number outside the set). With
it a recursive function is shown to exist (`WithoutExists`, `SumExists`, `SizeExists`, `CleanExists`:
the values up to a height determine those one above), hence to satisfy its equation, and each lemma
about its values is a second such induction.

The invariant `CleaningInv` says which attempt gave the result and that those before it were too large.
By induction over the height, a cleaned value is again a JSON value (`CleanIsJson`) and clean for the
levels that remain below its depth (`CleanIsClean`), and a value clean for those levels stays as it is
(`CleanKeeps`); that is `StoredClean` and `CleanUnchanged`. `RefusedHopeless` needs that the two caps
tried speak for all: with a smaller cap the same values are dropped and what is kept is not larger
(`CleanGrows`), because fewer items of a list are summed up, and each of them is not larger; so the last
attempt, with cap 1, was the smallest of all. In particular the 2 that `LIST_CAP = 3` skips would not
have helped.

A host that is lowered, stripped and rid of its blank labels is canonical, and each ending of two or
more labels of a canonical host is so again (the lemmas before `KeyIsItself`). A key has two labels, or
three of which the last two are a multi-part suffix, so it is cut no further; and a key without a colon
and without whitespace at its ends is parsed to itself (`PlainParsesToItself`): `FixedPoint`. That suffixes
have exactly two labels (`DomainConstants`) makes the smallest ending that is no suffix one of two or three
labels (`ShortestSize`): `ShortestIsKey`. With a suffix of three labels in the table `KeySize` would be wrong;
the code has none.

**Model-checked only.** The liveness properties — `RunEventuallyCloses`, `FinishedRunIsAnnounced`,
`DevRunEventuallyCloses`, `EveryRequestIsAnnounced`, `EveryAuditLeaves`, `FetchEnds` — depend on fairness
and `ENABLED`, which are out of the prover's reach. Every other property of a passing run is a theorem.

## Where the code departs from its documents

Each with a run that exhibits it:

- **`stale_write`** — `docs/concept.md:92` says that a stale retry or poll never writes into the new
  run. The run is checked once, at the start of the task; the fetch follows, and `_save` filters on
  the primary key. A sweep and a rerun during the fetch, and the stale result is stored in the new
  run. `ResultsAreOfTheRun`, which `rerun_any_time` checks, is what does hold.
- **`lost_signal`** — `docs/concept.md:121` says that the signal is sent exactly once per finished
  run. It is sent after the commit; a process that dies in between loses it, and the redelivered
  task finds the audit closed. At most once is proved (`AnnouncedOnce`).
- **`second_audit`** — `models/audit.py:29` says that concurrent first requests must not create two
  audits. A request whose lookup precedes, and whose insert follows, the whole run of another one
  creates a second audit next to the valid one.
- **`empty_domain`** — `utils/domains.py:21` says that `normalise_domain` raises on input without a
  usable host. A host of dots only passes the test for a host, is stripped to nothing, and counts
  as a host without a dot (line 32): the audit gets the empty domain.

Observed while modelling, without a run of their own:

- `docs/api.md:64` says that `error_detail` is empty on success; `complete` does not clear the
  detail of an attempt that was retried (`services/report_service.py`).
- `run_now` claims a closed audit too, closes the same run again and sends a second signal for it
  (`services/audit_service.py:140`); `DevAnnouncedAtMostOnce` states the bound that holds.
- A rerun between the lookup of a reusable audit and the query of its reports makes the reuse
  signal name no source (`services/audit_service.py:35`; `docs/concept.md:99`).
- The view answers 201 whenever the returned audit is not reusable, so a caller that joined the
  audit of another one gets 201 as well (`api/admin/views/audit_views.py:89`; `docs/api.md:27`).
- `_find_race_winner` is documented as never returning `None`, which a deletion in the Django admin
  between its queries defeats (`services/audit_service.py:52`). `AlwaysAnAudit` excepts it.
- Two empty JSON objects from the public Lighthouse API are reported as `recording_missing`, since
  the emptiness of all answers is tested, not their absence (`sources/lighthouse.py:36`;
  `docs/operations.md` reserves the code for recording mode). `OutcomeTellsCause` excepts it.
- Migration 0003 "keeps the newest pending/running audit" of its scan, not of its end: a duplicate
  that closed since is overwritten with `failed`, and so is one that was rerun since, whose new reports
  then stay open in a failed audit (`migrations/0003…:26`). It sends no `report_ready` for what it fails.
  `MigrationKeepsTheNewest` excepts the rerun. It locks reports before audits, a rerun and the sweeper
  do the reverse, so PostgreSQL may have to end one of them.
- `docs/operations.md:79` says of `siteintel.keys` that it never raises. The introspection of
  `_key_table_ready` is outside of the `try` of `key_probe`, and a database failure there raises
  (`checks.py:68`); a malformed base URL makes `recording_host` raise too.
- "Leave blank to keep the stored key" (`admin.py:39`): the form saves all columns of the row it loaded,
  so a key saved by somebody else in between is written back.
- A receiver of `report_ready` that raises turns a reuse into a 500, and ends the sweep of the audits
  after it, which wait for the next beat (`services/audit_service.py:37`, `:134`).
- A rerun of an audit deleted meanwhile answers 409 `audit_running`; one deleted right after its reset
  makes `refresh_from_db` raise, a 500 (`services/audit_service.py:80`, `:93`).
- `tasks/finish_audit.py:26` speaks of a lost poll task, but a poll that is alive and late has its report
  failed too. The extra interval of the count leaves an answer the delay of the chord body after the
  submission and one second, in the least favourable case; an interval of 10 s and a budget of 60 s
  with fetches of 20 s (polls at 10–29, 39–58 and 68–87 s, the count gives up near 80 s) is past it
  when urlscan is the only source. `OnlyLatePollsAreFailed` states the bound that holds.
- `docs/operations.md` lists connection errors and HTTP 4xx/5xx as `upstream`, retried three times.
  `source_error` goes by the text of the exception (`sources/base.py:55`), which quotes host names, URLs
  and the reason phrase of a status line: one that holds "internal host" or "exceeds the cap" is
  reported as `ssrf` or `truncated` and not retried. `OutcomeTellsCause` excepts it.
- The audit of an IPv6 literal is not found by its domain in the list (`docs/api.md`, `domain`): its key
  is stored without brackets, and is parsed again as a host and a port, `2001:db8::1` as `2001`, `::1`
  as no host (`utils/domains.py:23`). A domain with whitespace at an end that `strip()` takes, such as a
  no-break space, is not found either. `DomainIsFixedPoint` excepts both.

## Limits

- A handler is a sequence of steps, each atomic. Isolation below that is argued, not modelled:
  `finish` and `_fail_stuck_audit` read reports under the lock of the audit row, and a report that
  is finished changes by a rerun only, which needs the same lock.
- Signals are counted, receivers are not modelled; in `AuditRequests` the signal is part of the
  closing step (its loss is `lost_signal`).
- Celery's chord is modelled by its contract; a chord whose counter is lost is a `Lose` of its last
  header task or of the body.
- A host has one address throughout a fetch: that the guard and the connection resolve it separately is
  outside of the model.
- Payload parsing (facts of a page, Lighthouse and urlscan summaries) is data without control and
  stays out; so do stateless reads, serialisation, authentication and pagination.

## Plan

In order:

1. `Maintenance`: the locks of a rerun and of the sweeper one by one, for the deadlock with the
   migration, and the proofs adapted to them.
2. `KeyProbe`: the edit of a key in two steps, load and save.
3. The extraction of facts from a page (`sources/heuristic.py`), as far as it has limits and refusals.
