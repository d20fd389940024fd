# TLA+ models of packit-service

Packit-service turns events of git forges, Copr, Koji, Testing Farm and others
into jobs: builds, tests, dist-git pull requests, Bodhi updates. Its workers
are Celery tasks that share a PostgreSQL database. This directory holds TLA+
models of the parts where several of these tasks meet, TLC configurations that
check them on small instances, and TLAPS proofs for all instances.

Paths below are relative to `packit_service/`.

## The system

| component | state it keeps | operations | talks to |
|---|---|---|---|
| pipelines and groups (`models.py`) | `pipelines` rows, each with at most one SRPM build, Copr, Koji, Bodhi, test group | `PipelineModel.create`, `SRPMBuildModel.create_with_new_run`, `*GroupModel.create` | every handler, through one session per worker |
| Copr builds (`worker/handlers/copr.py`, `worker/helpers/build/copr_build.py`, `babysit.py`) | SRPM build and targets with status and Copr id | submit, cancel, retry, start, end, babysit | Copr (API, messages), Testing Farm runs |
| Testing Farm runs (`worker/handlers/testing_farm.py`) | test targets with status and pipeline id | submit, retry, cancel, result, babysit | Testing Farm (API, webhook) |
| downstream Koji builds and sidetags (`worker/handlers/distgit.py`, `koji.py`, `worker/helpers/sidetag.py`) | Koji targets, sidetags | build once per NVR, retry, report, create sidetag under a row lock, tag builds, trigger dependents | Koji (CLI, messages) |
| Bodhi updates (`worker/handlers/bodhi.py`) | update targets | create or edit an update, retry | Bodhi |
| release syncing (`worker/handlers/distgit.py`) | sync runs and branch targets | sync each branch, retry when the archive is missing | dist-git |
| events (`events/`, `worker/parser.py`) | rows of project events | parse a document, find or add the project event, restore it in the task | dispatch |
| dispatch (`worker/jobs.py`, `checker/`, `get_checkers` of the handlers) | none; writes the cutoff into the event | match jobs and handlers, pre-checks, send tasks | Celery |
| allowlist (`worker/allowlist.py`, `worker/handlers/forges.py`) | status of namespaces, repositories, users; installations | approve, deny, wait, check | dispatch, FAS, GitHub |
| VM images, OpenScanHub, Log Detective | build, scan, analysis status | submit, poll or receive the result | external services |
| reporting, REST API, configuration, metrics | none that others wait for | format, read, parse | forges, users |

What is hard: tasks run at least once (`acks_late`) and can be killed at any
statement; exceptions retry them from the start; the results of external
services come as messages that can get lost, come late or twice, and again by
polling; statuses are overwritten without a look at the old value; groups are
made by several workers for one pipeline; newer events cancel older jobs while
these are still being set up.

## What makes each component correct

- *Pipelines and groups*: a group that a call returned stays on its pipeline;
  groups of the same kind are never mixed up; a clone keeps SRPM build and Copr
  group; nobody waits for a lock for ever.
- *Copr builds*: a target says what Copr did; a target Copr knows about ends;
  successful chroots get their tests; newer events cancel older builds only.
- *Testing Farm runs*: a run has the result of one of its own requests; it is
  submitted once unless something fails; tests of one push do not cancel each
  other; a run with a request ends.
- *Koji builds and sidetags*: one live build per NVR; a sidetag per group, from
  whichever workers its packages are built.
- *Bodhi updates*: no second update of a build, whether it is asked for alone, in
  a sidetag, again or after a failure.
- *Release syncing*: a run speaks of pull requests of its own release; no release
  of an event and no branch is forgotten when an archive is missing.
- *Events*: one document is the same event on every way in; a task finds the
  project event that the dispatch has seen.
- *Dispatch*: a rerun runs the job of its check; a result goes to one handler;
  nothing runs for a namespace that is denied or not approved.
- *Allowlist*: an automatic approval is that of somebody who installed the App;
  an installation gets an entry, and who waits has an issue to ask in.

## Modules

### PipelineGroups (with GroupPerPipeline, PipelineGroupsProofs)

`PipelineGroups` models how a pipeline gets its SRPM build, Copr group and test
group when many workers ask for it at once. One step is one SQL statement that
other sessions can see or that can wait for a row lock, at READ COMMITTED:

| code | actions |
|---|---|
| `PipelineModel.create`, `SRPMBuildModel.create_with_new_run` | `CreateRun`, then `LinkSrpm` |
| `CoprBuildGroupModel.create` | `CoprRead`, `CoprUpdate` (UPDATE ... WHERE NULL), `CoprCommit`, or `CoprLock` (SELECT FOR UPDATE), `CoprClone`, `CoprLink` |
| `TFTTestRunGroupModel.create` | `TestStart`, `TestUpdate`, `TestCommit`, or `TestLock`, `TestClone` |
| a killed worker | `Crash`: what is not committed is rolled back |

`CoprClone` is a step of its own because `PipelineModel.create` commits the
session in the middle of the caller's transaction, which also frees the lock.
`CoprRead` may see an old value: the row can be in the session's identity map.

`GroupPerPipeline` is the promise to the callers: each call attaches its group,
in one step and for good, to a pipeline without a group of that kind.
`PipelineGroups` implements it (`ImplementsAbstract`).

### CoprBuilds (with CoprBuildsProofs)

`CoprBuilds` models the Copr builds of one pull request. Commits are steps of
their own, so that what a task has read can be out of date when it writes.

| code | actions |
|---|---|
| `SteveJobs.create_tasks` (`cancel_cutoff_time`) | `Trigger` |
| `cancel_running_builds` | `CancelRead`, `CancelInCopr` (one build each), `CancelMark` (one target each) |
| `run_copr_build_from_source_script` | `Create`, `CreateTargets`, `Submit` or `SubmitOutage` or `SubmitError`, `SaveSrpmId`, `Link`, `Babysit` |
| retry or redelivery of the task | `Interrupt`, `SubmitOutage` |
| `CoprBuildStartHandler` | `Take`, `StartPending`, `StartTime`, `StartTimeOnly` |
| `CoprBuildEndHandler` | `Take`, `SrpmQuery`, `SrpmPending`, `SrpmSuccess`, `EndFailure`, `EndSuccess`, `EndTests`; `Drop` when it has nothing to do |
| a handler that dies or raises | `Fail` |
| `update_copr_builds` | `BabysitTry`, `BabysitGivesUp`, `CheckPending` |
| Copr (not in this repository) | `CoprRun`, `CoprEnd`, `Remove` |

Copr is modelled by what the handlers rely on: the chroots are built after the
SRPM, each part ends once, each change of state may send a message. On a lossy
bus any message can get lost; the queue is a set, so messages are delivered in
any order, and `Fail` and the babysitter repeat them.

A babysitter's round is one step. Apart from `error` it changes no status: it
sends the message again, and the handler looks at the status again. What it finds is
one of three: the SRPM build or its pipeline is gone from the database or from Copr
(`BuildGone`, `BuildVanishes`), or Copr answers (`BuildKnown`); then the source
chroot may be missing, which makes the SRPM build fail, and the configuration of the
package may be missing, which skips the handlers silently (`Skips`).

Left out: reports to the forge and `has_newer_run`, which decides about
reporting only; metrics; the set-up of the Copr project; chroots that Copr does
not support (no target is created for them); messages about the start of the
SRPM build, which change no status.

### TestingFarm (with TestingFarmProofs)

`TestingFarm` models the runs of one test job. A task of `TestingFarmHandler`
is a record in `tasks`, from its queue entry to its end; its `pc` says what it
does next. There is no limit on workers.

| code | actions |
|---|---|
| `SteveJobs.process_jobs`, `create_tasks` for a push, a comment | `Push`, then `SendPush`; `Comment` |
| the pipeline made by the build job of a push | `NewBatch` |
| `CoprBuildEndHandler.handle_testing_farm` | `BuildEnd` (its cutoff is just before the batch) |
| `cancel_running_tests` | `CancelRead`, `CancelInFarm`, `CancelMark` (one run each) |
| `_get_or_create_group` | `CreateGroup`, `CreateTarget` |
| `run_with_copr_builds`, `run_for_target`, `run_testing_farm` | `Skip`, `NotSubmitted`, `Post`, `PostRefused`, `PostFails`, `Raises` |
| after an accepted request | `SetPipelineId`, `SetQueued`, `Reported` or `ReportFails` |
| `retry_on_submit_failure`, `_retry_on_submit_failure` | `RetryLater`, `Retry` |
| an exception that escapes; a killed worker | `Escape`, `Crash` |
| `TestingFarmResultsHandler` | `Take`, `Store` or `StoreFails` |
| `check_pending_testing_farm_runs` | `Babysit`, `TimeOut` |
| Testing Farm (not in this repository) | `FarmStart`, `FarmEnd`, `Notify` |

Times are counted in pipelines: `now` is the datetime of the newest one, and a
run's `time` that of its pipeline, so "created before the cutoff" compares what
the SQL query compares. `CreateGroup` makes a later pipeline when the batch's
own one has a test group already: that is `PipelineGroups`, in one step. A push is
dispatched to its handlers one after the other, in the order of a set, and the cutoff
is taken for each: the build task of a push may be sent, and make the pipeline,
before the cutoff for its tests is taken. `sending` holds the pushes in between.

Left out: jobs with `skip_build` (their tests need no Copr build); internal and
public Testing Farm (two URLs, same protocol); composition of the request.

### KojiBuilds (with KojiBuildsProofs)

`KojiBuilds` models the downstream builds of one project object. `task[e]` is
the task of event `e`, `rows` the table of targets, by id.

| code | actions |
|---|---|
| `SteveJobs.create_tasks` | `Trigger` |
| `cancel_running_builds` | `CancelRead`, `CancelInKoji`, `CancelMark` (one target each) |
| `_get_or_create_koji_group_model` | `GetGroup` for a retried task, or `CreateGroup`, `CreateRow` for each branch; `GroupFails` |
| `_run`, for each target | `Skip` or `Begin`, `Query` (the database), `Ask` (Koji), `SetSkipped` or `SetPending`, `Submit` or `SubmitFails`, `SetTaskId` |
| the command fails and may be retried | `MarkRetry` for each target of the group, `Retry` |
| lost answer; crash, time limit, escaping exception | `AnswerLost`; `Fail` |
| `KojiBuildReportHandler` | `Take`, then `Store` or `StoreFails` |
| Koji (not in this repository) | `KojiBegin`, `KojiEnd` |

A branch stands for the NVR on it, so two events with the same branch want the
same NVR. Koji refuses a second build of an NVR that is building or complete,
and cancels a task without a message when its build has not begun.

`again` is a history variable: a task has taken up a target that had a task id
already. This happens because a failed submission sets all targets of its group
to `retry`, and because a task that is delivered again works on `pending` ones.

Left out: scratch builds, which skip the check of the NVR; sidetags (`Sidetags`;
a missing dependency is one of the reasons of `GroupFails`); output of the
command without a task number; web addresses, logs and times.

### Parser, Events, Checkers, Handlers, Tasks

Pure operators, used by `Dispatch`. `Parser` has one operator per parser of
`worker/parser.py`: from a document (its source and type, the values that the
parser compares, and the set of the keys with a truthy value) to the event's
kind, `None` or `Raised`; `parse_event` tries them in the order of the code and
`parse_message` looks the parser up in `MAPPING`. `get_check_cls` and
`parse_check_name` are the two ends of the name of a check: a sequence of words with
colons in between. The identifier of a job may have several words, and
`parse_check_name` cuts at the first three colons only. `Events` gives for each class its abstract classes, the project
event it finds or adds, and the attributes that survive `get_dict`;
`FoundByTask` is what `EventData` finds with these attributes in the task.
`Checkers` has the `pre_check` of every checker, `Handlers` the decorators
(`configured_as`, `run_for_comment`, `run_for_check_rerun`, `reacts_to`) and
`get_checkers` of every handler. `Tasks` has the names of the Celery tasks, the
functions `run_*` of these names, and `Runs(h)`: the class whose `run_job` is called
when the task of handler `h` is sent. What the code asks forge, Koji, database and
settings is a fact of the set `world`.

### Dispatch (with Allowlist, Tasks, DispatchProofs)

`Dispatch` is the task `process_message` from a document to the tasks sent.

| code | actions |
|---|---|
| a message arrives; `Parser.parse_message` | `Receive` |
| `SteveJobs.process_message`, `process` | `Ignore`, `Installation`, `Verification`, `Help`, `ProcessJobs` |
| `process_fedora_ci_jobs` | `process_fedora_ci_jobs`, one handler each |
| `process_jobs`, `create_tasks` | `process_jobs`, one handler each: the allowlist, then tasks for its jobs |
| autoretry, `acks_late` | `Retry` |
| an admin's command meanwhile | `ChangeEntry` |

`MatchesTrigger`, `check_explicit_matching`, `get_config_for_handler_kls` and
`get_handlers_for_event` are the methods of these names. `Allowlist` has the
checks of `worker/allowlist.py`; the history variable `blocked` keeps what has
spoken against project or user during the whole processing, so that
`NotAllowedGetsNothing` is about more than the last look.

`DispatchAssumption` says that all inputs are documents that services can send
(`Document`): a document of GitHub has the key of its type and of no other, a hook
of GitLab the `object_kind` of its header, a note is on one object, and a check of
Packit has the name that `get_check_cls` has put together.

Left out: reports of accepted tasks; metrics; changes of the allowlist between the
reads of one check, which are one step here; queues and time limits of the tasks;
`check_rate_limit_remaining`, which puts a task back with a delay.

### Approvals (with ApprovalsProofs)

How a namespace gets, changes and loses its entry. A task is a record with the
statement it is at and what it has read.

| code | actions |
|---|---|
| `GithubAppInstallationHandler` | `Install`, `ReadPrevious`, `create_or_update`, `Decide`, `Match` or `NoMatch`, `CreateIssue` |
| `GithubFasVerificationHandler` | `Comment`, `CheckSender`, `verify`, `Match` or `NoMatch` |
| `AllowlistModel.add_namespace` | `FindRow`, `WriteRow` |
| the script of the admins | `approve_namespace`, `deny_namespace`, `remove_namespace` |
| a task that dies or fails | `Crash` |

The table has no unique key, so a namespace can have two rows, and reads without
an order return either. FAS is the constant `Matching`. `create_or_update` of the
installation is one step, so that an account has one installation: the code reads and
inserts without a key, and two tasks for a new account may make two rows.

### SyncRelease (with SyncReleaseProofs)

`propose-downstream` and `pull-from-upstream`. The broker is the set `queue`.

| code | actions |
|---|---|
| `SteveJobs.create_tasks`; Celery | `Release`; `Take` |
| `_get_or_create_sync_release_run` | `ReuseRun` or `CreateRun` |
| `run_for_target` | `NextTarget`, `SyncBranch`, then `Submitted`; `SyncFails` |
| `sync_branch`, when the archive is missing | `DownloadFails`: sends the task again, or an error |
| `_run_for_release` | `FinishRun`, or `AbortTarget` for each target |
| `_run` returns | `End` |
| autoretry; a killed worker | `Escape`; `Crash` |
| upstream (not in this repository) | `Upload` |

The retried task can start while the one that sent it still sets its targets to
`retry`: submodules are reset in between, which may take longer than the delay.
Idle workers do not differ, so the first idle one takes a message.

`CreateRun` makes a run with all its targets in one step. The code commits them one by
one, but no other task knows the run before `CreateRun` is done; a death in between
leaves a run that nobody continues, as one just after it does.

Left out: reports, issues about errors and the rows of the pull requests;
`SyncFromDownstream`, which keeps no state.

### Sidetags and BodhiUpdates (with SidetagPerGroup, BodhiUpdatesProofs)

`Sidetags` models one group and one branch: who asks for the sidetag, the row
lock while Koji makes it, what is tagged, and what `KojiBuildTagHandler` triggers.
`BodhiUpdates` extends it with the updates; its `TagEvent` is the part where the
two meet. `SidetagPerGroup` is what the docstring of `get_or_create_sidetag` promises
to the callers: one step that gives them the existing sidetag, or a new one if there
is none in the database or in Koji. `Sidetags` implements it (`ImplementsPromise`).

| code | actions |
|---|---|
| a build task, `koji-tag` comments | `Push`, `TagComment` |
| `SidetagHelper.get_or_create_sidetag` | `Lock`, `Found` or `CreateSidetag`, `Commit`; `CreateFails`; `CreateLost` (Koji has made it, the answer is lost) |
| building and tagging in the sidetag | `Build`, `TagBuild` |
| `KojiBuildTagHandler` and `BodhiUpdateFromSidetagHandler` | `TagEvent` |
| `CreateBodhiUpdateHandler`, `RetriggerBodhiUpdateHandler` | `Request` |
| `_get_or_create_bodhi_update_group_model` | `Group` (asks Koji), then `MakeTarget`; `GroupGiven` |
| `BodhiUpdateHandler._run` | `LookAlias`, `CheckNvrs`, `SetSkipped`, `create_update` or `AlreadyCreated` or `UpdateFails`, `SetSuccess`, `SetAlias`, `SetTime` |
| `except PackitException`; `except Exception` | `UpdateFails`; `Raises` |
| lost answers, killed workers | `AnswerLost`, `CrashTask`, `Crash` |
| Koji (not in this repository) | `RemoveSidetag` |

The success is committed before the alias and the creation time, each by a
commit of its own; `get_last_successful_by_sidetag` sees targets without them
(NULL sorts first). An exception that is not a `PackitException` sets the target to
`error`, from the first look to the last commit, and so also when Bodhi has the update;
the task ends, or is tried again with the arguments it had, without its group.
`lost` counts the updates that no target leads to any more: those whose answer got
lost, and those whose target is in `error`.

Left out: several branches in one group, the issue about errors, the change of
the update's fields other than its builds. Bodhi is taken to accept two updates
of one build, so that only Packit keeps them apart. A comment that asks for an
update of the sidetag does what a tag event does, so `Requests` has single builds.

## Runs

| run | instance | shows |
|---|---|---|
| `pipeline_groups` | two Copr calls, two test calls, two pipelines with an SRPM build and one without; 18,500 states | group invariants, every call returns, refinement of `GroupPerPipeline` |
| `copr_handlers` | one build, two chroots, two workers, lossy bus, one retry, removals and timeouts, babysitters that give up or find no configuration; 2.6 million states | what the handlers record is what Copr did |
| `copr_cancel` | two events, two builds of one chroot, workers that die; 1.1 million states | only older builds are cancelled |
| `copr_ends` | one build, any message lost, removal, timeout, a babysitter that may give up; 106,000 states | every target Copr knows ends, but for those left waiting, and tests of what Copr has built are triggered (liveness) |
| `copr_retry` | one outage | *violated*: targets of the first try stay in `retry` |
| `testing_farm` | three events, two runs, two requests, one fault, one retry; 7.6 million states | results, siblings, retries, single submission |
| `testing_farm_ends` | three events with comments, one run, one fault; 1.9 million states | runs with a request end for good (liveness) |
| `koji_builds` | two events for one NVR, with cancelling and without, one retry, one fault; 2.5 million states | NVR once, statuses, nothing blocks, cancelling |
| `dispatch` | every kind of document, with variants, commands, jobs, worlds, allowlists (below); 455,000 states | one event on both ways in, reruns, single reporter, allowlist, rows found again |
| `approvals` | one account, two people, two tasks at a time of three, two rows, one death; 690,000 states | approvals, issues, and an entry for every installation (liveness) |
| `sync_release` | one event with two releases, one branch, two workers, one fault; 1.6 million states | runs and pull requests agree, every release gets an outcome (liveness) |
| `updates` | two packages, two sidetags, three build calls, two update tasks, three targets, two retries, one fault; 3.4 million states | one sidetag, given to callers in one step; no second update of a build |

### Bounds and why they are enough

- `PipelineGroups`: the two calls of a kind are the two sessions that compete
  for one row. A third one meets a row that is already taken, as the second one
  does. `r3` is the pipeline without SRPM build that a clone can come from.
- `MaxTriggers`, `MaxBuilds` (Copr): two events make the newer and the older
  build that cancelling tells apart; more of them repeat the relation.
- `Chroots`: two, where a chroot can end before the SRPM build is handled or
  another chroot; one, where cancelling or liveness is the question.
- `MaxQueue` with the constraint `ShortQueue` (Copr): how many messages wait.
  Two give every pair of messages in both orders; `copr_ends` checks liveness
  and uses no constraint (9 is more than there are messages).
- `MaxRetries`: one retry is the step from a first to a second try. `copr_cancel`
  has none, because one more makes 12 million states; there, the retry branch of
  `Interrupt` is covered by the proofs and by the other runs only.
- `LossyBus`, `Faults`, `SitterGivesUp`, `Removals`, `Skips`, `Timeouts` (Copr) switch
  on lost messages, dying workers, the babysitter's limit of 14 retries, builds
  deleted in Copr, a package without a configuration, and the seven days of the
  hourly check. `Skips` is off in `copr_ends`: without a configuration, nothing is
  told of the end of a build at all.
- `MaxTriggers = 3` (Testing Farm): two pushes and the end of one build, or of
  both; `MaxRuns` and `MaxRequests` give a run and its retry, or two runs.
- `ShortDispatch`, `LateComment` (Testing Farm), action constraints: while a push is
  dispatched, nothing happens but that its own pipeline is made, which is what the
  cutoff depends on; the last event of the three may be a comment.
- `MaxFaults`: one fault anywhere: a crash, a lost answer, an exception outside
  the handled ones, a failing report, the seven days. The theorems do not depend
  on it.
- `MaxQueue` (Testing Farm): one result waits or is stored while the check of
  every ten minutes may add another. It bounds `Notify` in its guard, which
  only delays notifications.
- `Nvrs`, `MaxEvents` (Koji): targets of different NVRs meet in a group only;
  two events for one NVR make the competition, and `MaxRows`, `MaxGroups` give
  a third target, made by a task that starts again without its group. Groups
  of several branches are covered by the theorems only: two branches and two
  events are too many states.
- `MCInputs` (Dispatch): every document the parsers know, complete, with one key
  missing, or with another actor; comments with every command and argument; job
  sets with one job per handler; a world in which all checks pass and every world
  that differs in one fact; six allowlists. All pairs of a document's variants
  with worlds and allowlists would be too many: one dimension varies at a time.
  `MaxTries` and `MaxChanges` give one retry and one change in between.
- `MaxTasks`, `MaxRows`, `MaxCrashes` (Approvals): an installation, one by somebody
  else and a comment, two of them at the same time; two rows of one namespace;
  one death anywhere. `ben` has a FAS account of his name, `ann` one of another
  name, so that both the match at once and the match by comment happen.
- `MaxRuns = 6` (SyncRelease): a task and its retries make at most that many with
  one fault; with 4 or 5 runs the bound would stop a worker, and liveness would be
  about the bound. `MaxDownloads` and `MaxRetries` are one each: the first try and
  the last. With one branch, that several branches of one release do not disturb
  each other is shown by the theorems only.
- `MaxTags`, `MaxCalls`, `MaxTasks`, `MaxTargets` (updates): a sidetag and the one
  that follows it; two versions of one package and the dependent one; two tasks
  that compete, and the third target that a redelivered one makes. The last
  sidetag of the bound is never removed. The action constraints `TagsFirst` and
  `UpdatesLast` fix the order in which calls arrive and let updates start when the
  commands to tag are done: both sidetags, both ways to ask for an update, and
  everything that the two update tasks do to each other remain.
- `MaxQueue` (Koji): one message waits or is stored, as the constraint
  `ShortQueue`. With two, 12.3 million states, the properties hold as well, but
  the run takes minutes. The theorems have no such bound.

### Fairness

- A worker that can go on does: weak fairness for each call (`PipelineGroups`)
  and for the workers and tasks. Celery runs the tasks it is given; a killed
  worker's task is delivered again (`acks_late`).
- The periodic tasks of Celery beat come back: the check of pending Copr builds
  every hour and the one of Testing Farm runs every ten minutes
  (`celery_config.py`). A handler that the check starts is run.
- Copr ends its builds and Testing Farm its requests. No fairness is assumed for
  their messages: liveness holds with every one of them lost.
- Nothing makes a babysitter go on for ever: after its retries it may stop, and builds
  end without it, because the hourly check remains. That check only looks at pending
  targets, so a target that waits for its SRPM build whose babysitter has stopped, or
  which Copr has lost, stays there: `LinkedEnds` and `BuiltIsTested` name it
  (`LeftWaiting`).
- `KojiBuilds` assumes none. No task looks at Koji builds again, so a target
  whose message was dropped stays pending, and nothing is promised to end.
- Approvals: a task that has been started goes on, for it is delivered until it
  ends. Nothing is assumed about people and admins.
- SyncRelease: a worker takes messages and carries on (`WF_vars(Work(w))`). No
  archive has to appear, no archive is assumed to stay missing: `EveryReleaseEnds`
  holds either way, because the retries end. It leaves out events whose task
  Celery has given up.
- `RunsEnd` lets a run stay in `retry`: nothing looks for that status when the
  retried task is lost.

## Proofs

The theorems hold for all values of the constants under the assumptions of the
modules (`Disjoint`, `Assumptions` and `NoNumber`, `BoundsAssumption`,
`ApprovalsAssumption`, `SyncAssumption`, `SidetagsAssumption`, `BodhiAssumption`,
`DispatchAssumption`): bounds are natural numbers, switches are booleans, names of
different kinds and `NULL` differ, packages are finitely many, a stable version is
one there is, and documents are such as services send (see Dispatch). TLC evaluates
them in each run. Each proof module has an inductive invariant (`IInv` if not named
otherwise), the lemma that `Init` implies it, one lemma per action (or per action
and conjunct) that the step keeps it, and theorems that take it to `[]`.

*PipelineGroupsProofs*: `TypeOK`, then `IInv`, which says for each program
counter what its call has already done: whose transaction holds the row lock,
which groups are committed, and that a column which is set was set by the call
that returned it. From it follow `GroupKept`, `GroupOnOnePipeline`, `SameSrpm`,
`NoOrphanTestGroup`, `WriteOnce` (an action property) and `Implements`, step by
step with the refinement mapping.

*CoprBuildsProofs*: the properties are about targets, but messages and workers carry
what will be written. `IInv` therefore says of each message in the queue
(`QueueTrue`) and of each worker (`WorkerTrue`, `WorkerKnows`) that what it will
write is true: Copr has done it, the target has the build's id, and what has ended
stays as it is (`JobsInStep`). `NewestIsNeverCanceled` needs in addition that the
builds up to a cutoff are older than its event (`CutoffOld`), and that only these
are read and cancelled (`VictimsOld`, `CanceledOld`).

*TestingFarmProofs*: `MessagesTrue`, `HandlersTrue` and `TasksTrue` say that a
result on its way, and the request a task has got, belong to the run they will
be written to. Requests never change owner, so `ResultsTrue` survives late and
repeated messages. `SiblingsAreKept` is about the tasks of `SparesSiblings`: those of
the end of a build, and those of a push whose cutoff was taken before the push had its
pipeline. The proof needs that the pipelines of a batch's runs are not older than the
batch, although some of them are made much later (`Ages`), that the cutoff of such a
task is (`TaskTrue`), and that the runs it is cancelling are older than its cutoff,
also when it is delivered again.

`SubmittedOnce` and `RetryScheduled` need to know who submits a run. `OInv` says
that each run which may still be submitted is in the hands of one task (`Owners`):
the one that has it on its list, or the one sent again for it. A task that starts
again after a crash has no list, and one that sends a task for a run gives the run
away. A run has at most one request more than there were faults, and where a task
may make the next one, that fault has happened already (`Counted`). Without faults,
a run in `retry` is one whose chroot has ended (`Ended`), and a task has it.

*KojiBuildsProofs*: each target is made `queued` before its task looks for
others, so of two tasks the later one to look sees the earlier one's target,
provided that this target still has a status that the query finds. That is the
invariant: a claimed target has such a status (`RowTrue`, `Kept`), a task works
on targets of its own group only (`OwnTargets`), and no two tasks share a group
(`GroupsTrue`). `NvrOnce` follows, because the only new claim is that of a task
whose query found nothing (`NewClaim`). `BatchKept` compares cutoffs and groups
in the order of events; `StatusIsTrue` follows messages as in the Copr proofs.
`Frame` collects what no step undoes, and is proved first. `NotBlocked` follows from
`BInv`: without faults, a target that is open and that Koji does not build has its
task before it, which is going to read the group, has the target on its list, or
works on it (`Covered`). It asks that the events have one branch each, because
`CreateRow` makes the targets of several one after the other.

*ApprovalsProofs*: a task writes a status and a FAS account some steps after it
has checked them. `TaskTrue` says that in between the person has installed the
App, or has yet to be compared with the sender (`SendersTrue`), and that an
approval matches. A row is written column by column, only where a value differs
from the one read: the invariant therefore remembers that a FAS account, once in
a row, is never taken out by a change (`Frame`), so that an approval whose account
was already there still has one. `ApprovalsAreOfInstallers` and
`WaitingIsAnswerable` follow from `RowsTrue`.

*SyncReleaseProofs*: `SubmittedHasPr` relates a run to pull requests, while the run
is named in messages and workers. `MessageTrue` says that a message's run is one
of its release, and that its event asks for this release; `WorkerTrue` the same of
a worker, and that the pull request is there when it is about to say so. The point
is `ReuseRun`: a message without a release can only be of an event that asks for
the one without a version (`ReleasesLemma`), so the run that is continued is the
right one.

*BodhiUpdatesProofs*: of the sidetag, `SidetagInv` says that only the call with the
row lock is between Koji's answer and the commit (`CallsTrue`), so that a sidetag is
named by the row, about to be named, or an orphan; and that there are no more
orphans than crashes and lost answers (`OneSidetag`). `ImplementsPromise` needs in addition that the
tag being made is newer than the one in the row (`Newer`): then `Commit` is the step
that gives a new sidetag, `Found` the one that gives the existing one, and nothing
else changes what the callers see (`StepPromised`). Of the updates, `UpdateInv` says
that a target in the hands of a task is in progress in the database, and in no
other's hands (`TasksTrue`). A task makes its target before it looks for others, so
the later one to look sees the earlier one's target: no two tasks are about to make
an update of the same build (`CreatorsApart`), and each update that was not lost is
held by a target of its own which the next look finds (`UpdatesHeld`). The
witnesses, which updates were lost and which target holds which, are carried from
step to step. A task delivered again may find its target in `error`, go on, and make an
update that nobody finds: with these tasks (`Unsure`) counted, each fault costs at most
two updates (`LostFew`). `OneUpdatePerBuild` follows. For the types alone one needs that a
sidetag's builds are of versions that exist.

*DispatchProofs*: the first part is about the operators. Each parser answers `None`
or one class (`EachAnswers`), and for a document of a service the parsers tried
before the right one are silent (`GithubEitherWay`, `GitlabEitherWay`,
`FedoraEitherWay`), hence `SameEventEitherWay`. A name of a check is taken apart to
what it was put together from, if it names a branch or a tag or if its identifier
has no colon (`NameReadBack`). For each kind of event either the
task finds the row or no handler reacts, Forgejo's comments in issues excepted
(`FoundOrLost`, `NobodyReacts`). A sent task runs the handler meant
(`TaskRunsItsHandler`); the one whose function differs reacts to
`vm_image.Result`, which no parser makes. The second part is the invariant `DInv` of
a message's way: the event is that of one input, whatever happens to the allowlist
(`InputTrue`); the handlers left react to it, and none of them belongs to Fedora CI
once `process_jobs` has begun (`LeftTrue`); the tasks are of such handlers
(`TasksTrue`); and who was blocked all along has none. `OneReporter`,
`RerunRunsItsJob`, `NotAllowedGetsNothing` and `TaskFindsRow` follow.

All invariants and both refinements that the runs check are proved. `TypeOK` and
`GroupKept` of `PipelineGroups` and the action property `WriteOnce` are theorems
only. Only model-checked is liveness (`CallsReturn`, `PendingEnds`, `LinkedEnds`,
`BuiltIsTested`, `RunsEnd`, `InstallationAnswered`, `EveryReleaseEnds`), which the prover does not
support under fairness.

## Disagreements between code and documentation

`copr_retry` shows one; `PROJECT.json` quotes the lines. The retried task is to
update the group it made before; it never learns its id.

Others were met while modelling and are stated here only:

- `sa_session_transaction` promises a rollback, but the nested
  `PipelineModel.create` commits the caller's work: a call of
  `CoprBuildGroupModel.create` that dies leaves a group and a bare pipeline.
- The end of the SRPM build is to move targets "from waiting_for_srpm to
  pending"; it moves them from any status, final ones included.
- The cutoff of cancelling is to spare "tests from the current trigger batch"; a
  comment's retried task cancels them.
- `parse_check_name` is to return "job name (e.g. rpm-build), target and identifier".
  It cuts at the first three colons and takes the third of four parts for the target,
  as if the second were a branch or a tag. The name of a check of a pull request has
  neither: an identifier with a colon is cut there, and its first word becomes the
  target of the rerun (`ReadBack` leaves such names out of `RerunRunsItsJob`).
- A skipped NVR is logged as one "that was already triggered"; two tasks that find
  each other's queued targets both skip it, and nobody builds it. The same happens
  to two Bodhi tasks.
- `AbortSyncRelease` is said to keep processed branches from being synced again;
  all targets of the run are set to `retry`, also those that were submitted. The
  retried task is sent before that, and may be overwritten by it.
- A retried sync of several releases makes new runs for those already synced.
- `koji_build` jobs with the trigger `koji_build` never match `koji.result.Build`,
  and a rerun of a `testing-farm` check of a release runs nothing.
- `check_and_report` raises for `forgejo.issue.Comment` and `vm_image.Result`,
  which are in none of its lists. The GitLab hook "Tag Push Hook" is mapped but
  not accepted, "Issue Hook" accepted but not mapped.

Behaviour that contradicts no written statement, and that properties except:

- A handler of a chroot's end that dies between the status and its tests is
  delivered again and finds the final status, so that the tests are never started
  (`BuiltIsTested` is checked without dying workers).
- A push cancels its own tests when its build task was sent, and has made the pipeline,
  before `create_tasks` takes the cutoff for the test task (`SparesSiblings`).
- The build of an older commit that makes its pipeline later than a newer one
  counts as newer, so its end cancels the tests of the newer commit.
- A downstream build whose task dies after its queued target was made blocks its
  NVR, for the task delivered again is skipped because of that target; so does one
  whose group fails at a later branch (`NotBlocked` excludes both). A retry of one
  target sets all others of the group to `retry`, so that a submitted build that
  failed in the meantime is submitted again (`again` in `OncePerNvr`).
- A retried Bodhi task keeps its builds and skips the check of NVRs when the
  sidetag has an update: it can edit the update back to older builds, or add a
  build that has another update. If its try had reached Bodhi, it makes a second
  update (`lost` in `OneUpdatePerBuild`). So does another task after an exception in
  the commits that follow Bodhi's answer: the target is in `error` then, and nobody
  sees that the NVR has an update.
- A task that makes a sidetag and dies before its commit, or gets no answer, leaves it
  in Koji (`faults` in `OneSidetag`).
- A sync task that dies leaves its run `running`; the one delivered again makes
  another. Retries for downloads use up the budget of the other retries, as both
  count in `retries`.
- An allowlist refusal at a later handler leaves the tasks of earlier ones. After a
  change of the sender, a restarted installation task sees no change and asks for
  nothing. A reinstallation by somebody else overwrites `denied`.
- `EventData` finds the row of an event by the name of its class, and knows none of
  Forgejo's classes. An admin of the service who writes `/packit propose-downstream`
  in an issue there passes the allowlist, and gets a task without a row (excepted in
  `TaskFindsRow`).
- `run_vm_image_build_result` takes `self` but its task is not bound, so a worker
  could not call it. It is never sent: the periodic task runs that handler itself.

## Plan

Done: pipelines and groups, Copr builds, Testing Farm runs, Koji builds, sidetags,
Bodhi updates, release syncing, events, dispatch, allowlist; their invariants are
proved. Next, in this order:

1. More abstract specifications with refinements: a claim of an NVR by one target
   (`KojiBuilds`), a decision about an account (`Approvals`).
2. Groups with several branches in `BodhiUpdates`, scratch builds in `KojiBuilds`.
3. VM images, OpenScanHub and Log Detective: a submission and a result each.
4. The queue of rate-limited tasks: `check_rate_limit_remaining` sends a task again
   without its count of retries, which may go beyond "Retry 2 times"
   (`constants.py`) as long as the limit is low.

## Not modelled

- Status reporting: texts and calls to git forges; no other component reads them.
- REST API and web service: reads, and webhooks that queue a message.
- Configuration, schema and utilities: parsing and formatting without state.
- Monitoring and maintenance: metrics, and deletion of old rows by single
  statements.
- VM images, OpenScanHub and Log Detective: each submits once and stores one
  result or polls for it, as the Copr and Testing Farm models do with more actors.
- Inside modelled components: the contents of dist-git changes, the set-up of
  projects in Copr, composition of requests to Testing Farm, Fedora CI's variants
  of builds and tests, rate limiting of tasks.

`PROJECT.json` lists every component with what is left out.
