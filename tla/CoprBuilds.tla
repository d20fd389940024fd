------------------------------ MODULE CoprBuilds ------------------------------
(***************************************************************************)
(* The Copr builds of one pull request: the tasks that submit builds       *)
(* (CoprBuildHandler), the tasks that react to Copr's messages             *)
(* (CoprBuildStartHandler, CoprBuildEndHandler), the babysitting of builds *)
(* whose messages got lost, the cancelling of builds that a newer event    *)
(* has superseded, retries of the submission, and workers that die.        *)
(*                                                                         *)
(* The commits of a task are steps of their own, so that what a task read  *)
(* can be out of date when it writes.  Copr itself and the message bus are *)
(* the environment.                                                        *)
(*                                                                         *)
(* Builds are numbered in the order of their pipelines' datetime.  Each    *)
(* attempt of a submission makes a build: its SRPM build, pipeline, build  *)
(* group and targets.                                                      *)
(***************************************************************************)
EXTENDS Naturals, FiniteSets

CONSTANTS
    Chroots,        \* build_targets of the job
    Srpm,           \* COPR_SRPM_CHROOT, the chroot name of the SRPM build
    Workers,        \* workers that run the start and end handlers
    MaxTriggers,    \* bound: events that trigger the job
    MaxBuilds,      \* bound: builds created, over all attempts
    MaxRetries,     \* TaskWithRetry.max_retries
    NULL,
    LossyBus,       \* may messages from Copr get lost?
    Faults,         \* may workers die and handlers raise?
    SitterGivesUp,  \* may babysit_copr_build run out of retries?
    Removals,       \* may builds disappear from Copr?
    Skips,          \* may the babysitter find no configuration?
    Timeouts        \* may builds exceed DEFAULT_JOB_TIMEOUT (seven days)?

ASSUME Assumptions ==
    /\ Srpm \notin Chroots
    /\ MaxTriggers \in Nat /\ MaxBuilds \in Nat /\ MaxRetries \in Nat
    /\ {LossyBus, Faults, SitterGivesUp, Removals, Skips, Timeouts} \subseteq BOOLEAN

ASSUME NoNumber == NULL \notin Nat

Parts    == Chroots \cup {Srpm}
Triggers == 1..MaxTriggers
Builds   == 1..MaxBuilds

BuildStatus == {"success", "pending", "failure", "error", "waiting_for_srpm",
                "retry", "canceled"}

Final == {"success", "failure", "error", "canceled"}

\* The statuses that get_running and the babysitter look for.
Running == {"pending", "waiting_for_srpm"}

JobState == {"none", "waiting", "running", "succeeded", "failed", "canceled"}

Ended == {"succeeded", "failed", "canceled"}

Message == [kind : {"start", "end"}, build : Builds, part : Parts]

VARIABLES
    srpm,      \* SRPMBuildModel.status of each build, "none" before it exists
    srpmId,    \* has SRPMBuildModel.copr_build_id been set?
    target,    \* CoprBuildTargetModel.status of each build and chroot
    linked,    \* has CoprBuildTargetModel.build_id been set?
    started,   \* has CoprBuildTargetModel.build_start_time been set?
    tests,     \* how often the tests of a target were triggered (at most 2 counted)
    job,       \* the state of each part of the build in Copr
    gone,      \* builds that Copr does not know any more
    queue,     \* start and end messages waiting for a worker
    worker,    \* what each worker is doing
    sitter,    \* the task babysit_copr_build of each build
    trigger,   \* the trigger of each build
    count,     \* how many builds exist
    pc,        \* where the submitting task of each trigger stands
    cutoff,    \* its cancel_cutoff_time: the newest build when the event came
    victims,   \* the targets it is about to cancel
    current,   \* the build it is working on
    retries    \* how often it has been retried

submitVars == <<pc, cutoff, victims, current, retries>>
rowVars    == <<srpm, srpmId, target, linked, started, tests, trigger, count>>
coprVars   == <<job, gone>>
eventVars  == <<queue, worker, sitter>>
vars       == <<submitVars, rowVars, coprVars, eventVars>>

SubmitStep == {"absent", "queued", "cancel", "mark", "create", "targets", "submit",
               "save", "link", "babysit", "done", "failed"}

HandlerStep == {"idle", "start", "started", "query", "pending", "srpm", "failure",
                "success", "tests"}

Idle == [step |-> "idle", msg |-> NULL, todo |-> {}]

TypeOK ==
    /\ srpm \in [Builds -> BuildStatus \cup {"none"}]
    /\ srpmId \in [Builds -> BOOLEAN]
    /\ target \in [Builds -> [Chroots -> BuildStatus \cup {"none"}]]
    /\ linked \in [Builds -> [Chroots -> BOOLEAN]]
    /\ started \in [Builds -> [Chroots -> BOOLEAN]]
    /\ tests \in [Builds -> [Chroots -> 0..2]]
    /\ job \in [Builds -> [Parts -> JobState]]
    /\ gone \subseteq Builds
    /\ queue \subseteq Message
    /\ worker \in [Workers -> [step : HandlerStep, msg : Message \cup {NULL},
                               todo : SUBSET Chroots]]
    /\ sitter \in [Builds -> {"none", "polling", "done", "stopped"}]
    /\ trigger \in [Builds -> Triggers \cup {NULL}]
    /\ count \in 0..MaxBuilds
    /\ pc \in [Triggers -> SubmitStep]
    /\ cutoff \in [Triggers -> 0..MaxBuilds]
    /\ victims \in [Triggers -> SUBSET (Builds \X Chroots \X BOOLEAN)]
    /\ current \in [Triggers -> Builds \cup {NULL}]
    /\ retries \in [Triggers -> 0..MaxRetries]

Init ==
    /\ srpm = [b \in Builds |-> "none"]
    /\ srpmId = [b \in Builds |-> FALSE]
    /\ target = [b \in Builds |-> [c \in Chroots |-> "none"]]
    /\ linked = [b \in Builds |-> [c \in Chroots |-> FALSE]]
    /\ started = [b \in Builds |-> [c \in Chroots |-> FALSE]]
    /\ tests = [b \in Builds |-> [c \in Chroots |-> 0]]
    /\ job = [b \in Builds |-> [p \in Parts |-> "none"]]
    /\ gone = {}
    /\ queue = {}
    /\ worker = [w \in Workers |-> Idle]
    /\ sitter = [b \in Builds |-> "none"]
    /\ trigger = [b \in Builds |-> NULL]
    /\ count = 0
    /\ pc = [t \in Triggers |-> "absent"]
    /\ cutoff = [t \in Triggers |-> 0]
    /\ victims = [t \in Triggers |-> {}]
    /\ current = [t \in Triggers |-> NULL]
    /\ retries = [t \in Triggers |-> 0]

-----------------------------------------------------------------------------
(* CoprBuildHandler: one task for each trigger                             *)

Goto(t, step) == pc' = [pc EXCEPT ![t] = step]

\* SteveJobs notes the newest pipeline of the pull request in the event before
\* it sends the task off.
Trigger(t) ==
    /\ pc[t] = "absent"
    /\ t > 1 => pc[t - 1] # "absent"
    /\ cutoff' = [cutoff EXCEPT ![t] = count]
    /\ Goto(t, "queued")
    /\ UNCHANGED <<victims, current, retries, rowVars, coprVars, eventVars>>

\* get_running_jobs: running targets created at or before the cutoff (without
\* a cutoff there are none), and whether their build id was known.
RunningBefore(time) ==
    {<<v[1], v[2], linked[v[1]][v[2]]>> :
        v \in {x \in Builds \X Chroots : x[1] <= time /\ target[x[1]][x[2]] \in Running}}

\* The builds among them that are still to be cancelled in Copr.
WithId(vs) == {v[1] : v \in {u \in vs : u[3]}}

AfterCancel(vs) == IF vs = {} THEN "create" ELSE IF WithId(vs) = {} THEN "mark" ELSE "cancel"

\* Mutant: everything that runs when the task gets to it is cancelled.
CancelReadAll(t) ==
    /\ pc[t] = "queued"
    /\ victims' = [victims EXCEPT ![t] = RunningBefore(count)]
    /\ Goto(t, AfterCancel(RunningBefore(count)))
    /\ UNCHANGED <<cutoff, current, retries, rowVars, coprVars, eventVars>>

CancelRead(t) ==
    /\ pc[t] = "queued"
    /\ victims' = [victims EXCEPT ![t] = RunningBefore(cutoff[t])]
    /\ Goto(t, AfterCancel(RunningBefore(cutoff[t])))
    /\ UNCHANGED <<cutoff, current, retries, rowVars, coprVars, eventVars>>

\* What Copr does with cancelled builds: every part that has not ended ends.
CanceledJobs(ids) ==
    [b \in Builds |->
        [p \in Parts |->
            IF b \in ids \ gone /\ job[b][p] \in {"waiting", "running"}
            THEN "canceled" ELSE job[b][p]]]

EndsOf(jobs) ==
    {m \in Message : /\ m.kind = "end"
                     /\ job[m.build][m.part] \notin Ended
                     /\ jobs[m.build][m.part] \in Ended}

\* Copr's messages: those in "sure" are sent, and get lost on a lossy bus;
\* those in "maybe" are sent in some cases only.
Send(sure, maybe) ==
    \E sent \in SUBSET (sure \cup maybe) :
        /\ LossyBus \/ sure \subseteq sent
        /\ queue' = queue \cup sent
        /\ UNCHANGED <<worker, sitter>>

\* The builds whose id was known are cancelled in Copr, one by one; one that
\* Copr does not have any more is skipped.
CancelInCopr(t) ==
    /\ pc[t] = "cancel"
    /\ \E b \in WithId(victims[t]) :
          LET left == {<<v[1], v[2], v[3] /\ v[1] # b>> : v \in victims[t]}
          IN  /\ job' = CanceledJobs({b})
              /\ Send({}, EndsOf(CanceledJobs({b})))
              /\ victims' = [victims EXCEPT ![t] = left]
              /\ Goto(t, AfterCancel(left))
    /\ UNCHANGED <<cutoff, current, retries, rowVars, gone>>

\* The targets read before are marked one by one, whatever happened to them.
CancelMark(t) ==
    /\ pc[t] = "mark"
    /\ \E v \in victims[t] :
          /\ target' = [target EXCEPT ![v[1]][v[2]] = "canceled"]
          /\ victims' = [victims EXCEPT ![t] = @ \ {v}]
          /\ Goto(t, IF victims[t] = {v} THEN "create" ELSE "mark")
    /\ UNCHANGED <<cutoff, current, retries, srpm, srpmId, linked, started, tests,
                   trigger, count, coprVars, eventVars>>

\* SRPMBuildModel.create_with_new_run.
Create(t) ==
    /\ pc[t] = "create"
    /\ count < MaxBuilds
    /\ count' = count + 1
    /\ srpm' = [srpm EXCEPT ![count + 1] = "pending"]
    /\ trigger' = [trigger EXCEPT ![count + 1] = t]
    /\ current' = [current EXCEPT ![t] = count + 1]
    /\ Goto(t, "targets")
    /\ UNCHANGED <<cutoff, victims, retries, srpmId, target, linked, started, tests,
                   coprVars, eventVars>>

\* _get_or_create_build_group: a new group, and a target for every chroot, one
\* after the other.  The group of an earlier try is never given:
\* handle_build_submit_error makes up keyword arguments with
\* copr_build_group_id, but retries without them.
CreateTargets(t) ==
    /\ pc[t] = "targets"
    /\ \E c \in Chroots :
          /\ target[current[t]][c] = "none"
          /\ target' = [target EXCEPT ![current[t]][c] = "waiting_for_srpm"]
          /\ Goto(t, IF \A d \in Chroots \ {c} : target[current[t]][d] # "none"
                     THEN "submit" ELSE "targets")
    /\ UNCHANGED <<cutoff, victims, current, retries, srpm, srpmId, linked, started, tests,
                   trigger, count, coprVars, eventVars>>

\* submit_copr_build succeeds: Copr has the build.
Submit(t) ==
    /\ pc[t] = "submit"
    /\ job' = [job EXCEPT ![current[t]] = [p \in Parts |-> "waiting"]]
    /\ Goto(t, "save")
    /\ UNCHANGED <<cutoff, victims, current, retries, rowVars, gone, eventVars>>

\* Mutant: the last try is not recognised.
SubmitOutageAnyTry(t) ==
    /\ pc[t] = "submit"
    /\ target' = [target EXCEPT ![current[t]] = [c \in Chroots |-> "retry"]]
    /\ retries' = [retries EXCEPT ![t] = @ + 1]
    /\ current' = [current EXCEPT ![t] = NULL]
    /\ Goto(t, "queued")
    /\ UNCHANGED <<cutoff, victims, srpm, srpmId, linked, started, tests, trigger, count,
                   coprVars, eventVars>>

\* handle_build_submit_error for an outage, except on the last try: the task
\* is retried from its beginning.  The loops over the targets of a group are
\* single steps here and below, as they set one status whatever the old one is.
SubmitOutage(t) ==
    /\ pc[t] = "submit"
    /\ retries[t] < MaxRetries
    /\ target' = [target EXCEPT ![current[t]] = [c \in Chroots |-> "retry"]]
    /\ retries' = [retries EXCEPT ![t] = @ + 1]
    /\ current' = [current EXCEPT ![t] = NULL]
    /\ Goto(t, "queued")
    /\ UNCHANGED <<cutoff, victims, srpm, srpmId, linked, started, tests, trigger, count,
                   coprVars, eventVars>>

\* handle_build_submit_error for other errors, and for an outage on the last try.
SubmitError(t) ==
    /\ pc[t] = "submit"
    /\ srpm' = [srpm EXCEPT ![current[t]] = "error"]
    /\ target' = [target EXCEPT ![current[t]] = [c \in Chroots |-> "error"]]
    /\ Goto(t, "failed")
    /\ UNCHANGED <<cutoff, victims, current, retries, srpmId, linked, started, tests,
                   trigger, count, coprVars, eventVars>>

\* The SRPM build is given Copr's build id first ...
SaveSrpmId(t) ==
    /\ pc[t] = "save"
    /\ srpmId' = [srpmId EXCEPT ![current[t]] = TRUE]
    /\ Goto(t, "link")
    /\ UNCHANGED <<cutoff, victims, current, retries, srpm, target, linked, started, tests,
                   trigger, count, coprVars, eventVars>>

\* ... and then each target (handle_rpm_build_start) ...
Link(t) ==
    /\ pc[t] = "link"
    /\ \E c \in Chroots :
          /\ ~linked[current[t]][c]
          /\ linked' = [linked EXCEPT ![current[t]][c] = TRUE]
          /\ Goto(t, IF \A d \in Chroots \ {c} : linked[current[t]][d] THEN "babysit" ELSE "link")
    /\ UNCHANGED <<cutoff, victims, current, retries, srpm, srpmId, target, started, tests,
                   trigger, count, coprVars, eventVars>>

\* ... before babysit_copr_build is sent.
Babysit(t) ==
    /\ pc[t] = "babysit"
    /\ sitter' = [sitter EXCEPT ![current[t]] = "polling"]
    /\ Goto(t, "done")
    /\ UNCHANGED <<cutoff, victims, current, retries, rowVars, coprVars, queue, worker>>

\* An exception retries the whole task until its retries are used up; a worker
\* that is killed has the task delivered again (acks_late), which counts as a
\* retry here to bound it.
Interrupt(t) ==
    /\ Faults
    /\ pc[t] \notin {"absent", "queued", "done", "failed"}
    /\ victims' = [victims EXCEPT ![t] = {}]
    /\ current' = [current EXCEPT ![t] = NULL]
    /\ \/ /\ retries[t] < MaxRetries
          /\ retries' = [retries EXCEPT ![t] = @ + 1]
          /\ Goto(t, "queued")
       \/ /\ retries[t] = MaxRetries
          /\ UNCHANGED retries
          /\ Goto(t, "failed")
    /\ UNCHANGED <<cutoff, rowVars, coprVars, eventVars>>

-----------------------------------------------------------------------------
(* Copr                                                                    *)

Messages(kind, b, parts) == {[kind |-> kind, build |-> b, part |-> p] : p \in parts}

\* A part of a build starts; the chroots wait for the SRPM.  Messages about
\* the start of an SRPM build change no status and are left out.
CoprRun(b, p) ==
    /\ job[b][p] = "waiting"
    /\ p # Srpm => job[b][Srpm] = "succeeded"
    /\ job' = [job EXCEPT ![b][p] = "running"]
    /\ Send(Messages("start", b, {p} \ {Srpm}), {})
    /\ UNCHANGED <<submitVars, rowVars, gone>>

\* A part ends.  Without an SRPM there is nothing to build in the chroots.
CoprEnd(b, p, result) ==
    /\ job[b][p] = "running"
    /\ result \in {"succeeded", "failed"}
    /\ LET others == IF p = Srpm /\ result = "failed" THEN Chroots ELSE {}
       IN  /\ job' = [job EXCEPT ![b] = [q \in Parts |->
                        IF q = p THEN result ELSE IF q \in others THEN "failed" ELSE @[q]]]
           /\ Send(Messages("end", b, {p}), Messages("end", b, others))
    /\ UNCHANGED <<submitVars, rowVars, gone>>

\* A build that has ended is deleted, for example with its project.
Remove(b) ==
    /\ Removals
    /\ b \notin gone
    /\ \A p \in Parts : job[b][p] \in Ended
    /\ gone' = gone \cup {b}
    /\ UNCHANGED <<submitVars, rowVars, job, eventVars>>

-----------------------------------------------------------------------------
(* CoprBuildStartHandler and CoprBuildEndHandler                           *)

Work(w, step, m, todo) == worker' = [worker EXCEPT ![w] = [step |-> step, msg |-> m, todo |-> todo]]

Finish(w) == worker' = [worker EXCEPT ![w] = Idle]

At(w, step) == worker[w].step = step

\* The build that the task of a worker is about, and its chroot.
BuildOf(w)  == worker[w].msg.build
ChrootOf(w) == worker[w].msg.part

Set(b, c, status) == target' = [target EXCEPT ![b][c] = status]

\* A message about a build that is not in the database (not yet, or never
\* linked) is dropped by the parser.
Known(m) == IF m.part = Srpm THEN srpmId[m.build] ELSE linked[m.build][m.part]

\* A worker takes a message off the queue, and finds that there is nothing to do.
Drop(w) ==
    /\ At(w, "idle")
    /\ \E m \in queue :
          /\ \/ ~Known(m)
             \/ m.kind = "start" /\ started[m.build][m.part]
             \/ m.kind = "end" /\ (IF m.part = Srpm THEN srpm[m.build] ELSE target[m.build][m.part])
                                       \in {"success", "failure", "canceled"}
          /\ queue' = queue \ {m}
    /\ UNCHANGED <<submitVars, rowVars, coprVars, worker, sitter>>

\* A build in a final state gets its start time and nothing else.
StartTimeOnly(w) ==
    /\ At(w, "idle")
    /\ \E m \in queue :
          /\ m.kind = "start" /\ Known(m) /\ ~started[m.build][m.part]
          /\ target[m.build][m.part] \in Final
          /\ started' = [started EXCEPT ![m.build][m.part] = TRUE]
          /\ queue' = queue \ {m}
    /\ UNCHANGED <<submitVars, srpm, srpmId, target, linked, tests, trigger, count,
                   coprVars, worker, sitter>>

\* A worker takes a message; what it does depends on what it reads here.
Take(w) ==
    /\ At(w, "idle")
    /\ \E m \in queue :
          /\ Known(m)
          /\ \/ /\ m.kind = "start" /\ ~started[m.build][m.part]
                /\ target[m.build][m.part] \notin Final
                /\ Work(w, "start", m, {})
             \/ /\ m.kind = "end" /\ m.part = Srpm
                /\ srpm[m.build] \notin {"success", "failure", "canceled"}
                /\ Work(w, IF job[m.build][Srpm] = "succeeded" THEN "query" ELSE "failure", m, {})
             \/ /\ m.kind = "end" /\ m.part # Srpm
                /\ target[m.build][m.part] \notin {"success", "failure", "canceled"}
                /\ Work(w, IF job[m.build][m.part] = "succeeded" THEN "success" ELSE "failure", m, {})
          /\ queue' = queue \ {m}
    /\ UNCHANGED <<submitVars, rowVars, coprVars, sitter>>

\* CoprBuildStartHandler sets the status without another look at it, and the
\* start time after it has reported.
StartPending(w) ==
    /\ At(w, "start")
    /\ Set(BuildOf(w), ChrootOf(w), "pending")
    /\ Work(w, "started", worker[w].msg, {})
    /\ UNCHANGED <<submitVars, srpm, srpmId, linked, started, tests, trigger, count,
                   coprVars, queue, sitter>>

StartTime(w) ==
    /\ At(w, "started")
    /\ started' = [started EXCEPT ![BuildOf(w)][ChrootOf(w)] = TRUE]
    /\ Finish(w)
    /\ UNCHANGED <<submitVars, srpm, srpmId, target, linked, tests, trigger, count,
                   coprVars, queue, sitter>>

\* Mutant: all targets of the group, whether they have the build's id or not.
SrpmQueryGroup(w) ==
    /\ At(w, "query")
    /\ Work(w, "pending", worker[w].msg, Chroots)
    /\ UNCHANGED <<submitVars, rowVars, coprVars, queue, sitter>>

\* handle_srpm_end after a success: the targets with the build's id ...
SrpmQuery(w) ==
    /\ At(w, "query")
    /\ LET known == {c \in Chroots : linked[BuildOf(w)][c]}
       IN  Work(w, IF known = {} THEN "srpm" ELSE "pending", worker[w].msg, known)
    /\ UNCHANGED <<submitVars, rowVars, coprVars, queue, sitter>>

\* ... become pending one after the other, whatever their status is ...
SrpmPending(w) ==
    /\ At(w, "pending")
    /\ \E c \in worker[w].todo :
          /\ Set(BuildOf(w), c, "pending")
          /\ Work(w, IF worker[w].todo = {c} THEN "srpm" ELSE "pending", worker[w].msg,
                  worker[w].todo \ {c})
    /\ UNCHANGED <<submitVars, srpm, srpmId, linked, started, tests, trigger, count,
                   coprVars, queue, sitter>>

\* ... and then the SRPM build is successful.
SrpmSuccess(w) ==
    /\ At(w, "srpm")
    /\ srpm' = [srpm EXCEPT ![BuildOf(w)] = "success"]
    /\ Finish(w)
    /\ UNCHANGED <<submitVars, srpmId, target, linked, started, tests, trigger, count,
                   coprVars, queue, sitter>>

\* The failure of the SRPM build, or of a chroot.
EndFailure(w) ==
    /\ At(w, "failure")
    /\ \/ /\ ChrootOf(w) = Srpm
          /\ srpm' = [srpm EXCEPT ![BuildOf(w)] = "failure"]
          /\ UNCHANGED target
       \/ /\ ChrootOf(w) # Srpm
          /\ Set(BuildOf(w), ChrootOf(w), "failure")
          /\ UNCHANGED srpm
    /\ Finish(w)
    /\ UNCHANGED <<submitVars, srpmId, linked, started, tests, trigger, count,
                   coprVars, queue, sitter>>

\* The success of a chroot.  Copr is asked for times and packages first, so
\* this does not work for a build that is gone.
EndSuccess(w) ==
    /\ At(w, "success")
    /\ BuildOf(w) \notin gone
    /\ Set(BuildOf(w), ChrootOf(w), "success")
    /\ Work(w, "tests", worker[w].msg, {})
    /\ UNCHANGED <<submitVars, srpm, srpmId, linked, started, tests, trigger, count,
                   coprVars, queue, sitter>>

\* Mutant: no tests while the SRPM build is not known to have succeeded.
EndTestsAfterSrpm(w) ==
    /\ At(w, "tests")
    /\ tests' = [tests EXCEPT ![BuildOf(w)][ChrootOf(w)] =
                    IF srpm[BuildOf(w)] = "success" THEN 1 ELSE @]
    /\ Finish(w)
    /\ UNCHANGED <<submitVars, srpm, srpmId, target, linked, started, trigger, count,
                   coprVars, queue, sitter>>

\* handle_testing_farm.
EndTests(w) ==
    /\ At(w, "tests")
    /\ tests' = [tests EXCEPT ![BuildOf(w)][ChrootOf(w)] = IF @ < 2 THEN @ + 1 ELSE 2]
    /\ Finish(w)
    /\ UNCHANGED <<submitVars, srpm, srpmId, target, linked, started, trigger, count,
                   coprVars, queue, sitter>>

\* The worker dies, or the handler raises, as it does when it asks Copr about a
\* build that is gone: the message is delivered again (acks_late,
\* autoretry_for) until the retries are used up.
Fail(w) ==
    /\ ~At(w, "idle")
    /\ \/ Faults
       \/ BuildOf(w) \in gone /\ worker[w].step \in {"query", "failure", "success"}
    /\ Finish(w)
    /\ queue' \in {queue, queue \cup {worker[w].msg}}
    /\ UNCHANGED <<submitVars, rowVars, coprVars, sitter>>

-----------------------------------------------------------------------------
(* update_copr_builds: by babysit_copr_build for all targets of a build,   *)
(* and by check_pending_copr_builds for the pending ones.  It is one step, *)
(* for apart from "error" it changes no status but sends messages to the   *)
(* handlers, which look at the statuses again.                             *)

BuildStarted(b) == \E p \in Parts : job[b][p] \notin {"none", "waiting"}
BuildEnded(b)   == \A c \in Chroots : job[b][c] \in Ended

SrpmMessages(b) ==
    {m \in Messages("end", b, {Srpm}) :
        srpmId[b] /\ srpm[b] = "pending" /\ job[b][Srpm] \in {"succeeded", "failed"}}

\* Mutant: the end is sent as soon as the build has started.
TargetMessagesEarly(b, c) == Messages("end", b, {c})

\* Mutant: a target that waits for its SRPM is left alone.
TargetMessagesPending(b, c) ==
    IF target[b][c] = "pending" /\ job[b][c] \in Ended THEN Messages("end", b, {c}) ELSE {}

\* What is sent for a target whose status is pending or waiting_for_srpm.
TargetMessages(b, c) ==
    IF job[b][c] \in Ended THEN Messages("end", b, {c})
    ELSE IF target[b][c] = "waiting_for_srpm" THEN Messages("start", b, {c})
    ELSE {}

SetErrors(b, chroots) ==
    target' = [target EXCEPT ![b] = [c \in Chroots |-> IF c \in chroots THEN "error" ELSE @[c]]]

RunningOf(b, chroots) == {c \in chroots : target[b][c] \in Running}

\* Mutant: nothing is done about a build that is gone.
UpdateBuildKnown(b, chroots) ==
    /\ b \notin gone
    /\ BuildStarted(b)
    /\ queue' = queue \cup SrpmMessages(b)
          \cup UNION {TargetMessages(b, c) : c \in RunningOf(b, chroots)}
    /\ UNCHANGED <<target, srpm>>

\* Copr does not know the build any more.
BuildGone(b, chroots) ==
    /\ b \in gone
    /\ SetErrors(b, chroots)
    /\ UNCHANGED <<queue, srpm>>

\* It disappears after the first look, or has lost its SRPM chroot.
BuildVanishes(b, chroots) ==
    /\ b \in gone
    /\ SetErrors(b, RunningOf(b, chroots))
    /\ srpm' = [srpm EXCEPT ![b] = IF srpmId[b] /\ @ = "pending" THEN "error" ELSE @]
    /\ UNCHANGED queue

\* Nothing is sent for a build whose configuration is not found.
BuildKnown(b, chroots) ==
    /\ b \notin gone
    /\ BuildStarted(b)
    /\ \E late \in {{}} \cup (IF Timeouts THEN {chroots} ELSE {}) :
          /\ SetErrors(b, late)
          /\ \/ queue' = queue \cup SrpmMessages(b)
                   \cup UNION {TargetMessages(b, c) : c \in RunningOf(b, chroots \ late)}
             \/ Skips /\ UNCHANGED queue
    /\ UNCHANGED srpm

UpdateBuild(b, chroots) ==
    BuildGone(b, chroots) \/ BuildVanishes(b, chroots) \/ BuildKnown(b, chroots)

LinkedChroots(b) == {c \in Chroots : linked[b][c]}

\* A try of babysit_copr_build; it is retried until the build has ended.
BabysitTry(b) ==
    /\ sitter[b] = "polling"
    /\ UpdateBuild(b, LinkedChroots(b))
    /\ sitter' = IF b \in gone \/ BuildEnded(b) THEN [sitter EXCEPT ![b] = "done"] ELSE sitter
    /\ UNCHANGED <<submitVars, srpmId, linked, started, tests, trigger, count, coprVars, worker>>

\* Its 14 retries take eight hours.
BabysitGivesUp(b) ==
    /\ SitterGivesUp
    /\ sitter[b] = "polling"
    /\ sitter' = [sitter EXCEPT ![b] = "stopped"]
    /\ UNCHANGED <<submitVars, rowVars, coprVars, queue, worker>>

Pending == {v \in Builds \X Chroots : target[v[1]][v[2]] = "pending"}

\* check_pending_copr_builds takes int() of every pending target's build id.
CheckPending(b) ==
    /\ \E c \in Chroots : <<b, c>> \in Pending
    /\ \A v \in Pending : linked[v[1]][v[2]]
    /\ UpdateBuild(b, {c \in Chroots : <<b, c>> \in Pending})
    /\ UNCHANGED <<submitVars, srpmId, linked, started, tests, trigger, count,
                   coprVars, worker, sitter>>

-----------------------------------------------------------------------------
SubmitTask(t) ==
    \/ CancelRead(t) \/ CancelInCopr(t) \/ CancelMark(t)
    \/ Create(t) \/ CreateTargets(t) \/ Submit(t) \/ SubmitOutage(t) \/ SubmitError(t)
    \/ SaveSrpmId(t) \/ Link(t) \/ Babysit(t)

HandlerTask(w) ==
    \/ Drop(w) \/ StartTimeOnly(w) \/ Take(w)
    \/ StartPending(w) \/ StartTime(w)
    \/ SrpmQuery(w) \/ SrpmPending(w) \/ SrpmSuccess(w)
    \/ EndFailure(w) \/ EndSuccess(w) \/ EndTests(w)

Copr(b) ==
    \E p \in Parts : CoprRun(b, p) \/ \E result \in {"succeeded", "failed"} : CoprEnd(b, p, result)

Next ==
    \/ \E t \in Triggers : Trigger(t) \/ SubmitTask(t) \/ Interrupt(t)
    \/ \E b \in Builds : Copr(b) \/ Remove(b)
    \/ \E w \in Workers : HandlerTask(w) \/ Fail(w)
    \/ \E b \in Builds : BabysitTry(b) \/ BabysitGivesUp(b) \/ CheckPending(b)

Spec == Init /\ [][Next]_vars

\* Celery runs the tasks it has, beat starts check_pending_copr_builds every
\* hour, and Copr's builds end.
Fairness ==
    /\ \A t \in Triggers : WF_vars(SubmitTask(t))
    /\ \A w \in Workers : WF_vars(HandlerTask(w) \/ Fail(w))
    /\ \A b \in Builds : WF_vars(Copr(b)) /\ WF_vars(BabysitTry(b)) /\ WF_vars(CheckPending(b))

FairSpec == Spec /\ Fairness

-----------------------------------------------------------------------------
(* Properties                                                              *)

\* A pending target has its Copr build id.  check_pending_copr_builds takes
\* int(build.build_id) of all of them: a single one without would make each
\* hourly check of all projects fail.
PendingHasId ==
    \A b \in Builds, c \in Chroots : target[b][c] = "pending" => linked[b][c]

\* No target is successful and no tests are triggered unless Copr built the
\* chroot, and none has failed unless Copr's build did not succeed, however
\* late, lost or repeated the messages are.
ReportsTrue ==
    \A b \in Builds, c \in Chroots :
        /\ target[b][c] = "success" \/ tests[b][c] > 0 => job[b][c] = "succeeded"
        /\ target[b][c] = "failure" => job[b][c] \in {"failed", "canceled"}

\* Only builds of an earlier event are cancelled, in the database and in Copr,
\* even when the cancelling task runs late or is run again: cancel_cutoff_time.
NewestNeverCanceled ==
    \A b \in Builds :
        (\E c \in Chroots : target[b][c] = "canceled" \/ job[b][c] = "canceled")
            => \E t \in Triggers : trigger[b] # NULL /\ t > trigger[b] /\ pc[t] # "absent"

\* _get_or_create_build_group: "Update the status, we are retrying".  No
\* target stays in the state retry when the retried task is through.
RetryIsUpdated ==
    \A b \in Builds, c \in Chroots :
        target[b][c] = "retry" => trigger[b] # NULL /\ pc[trigger[b]] \notin {"done", "failed"}

\* A target does not stay pending, whichever messages get lost, although the
\* babysitter gives up after its 14 retries.
PendingEnds ==
    \A b \in Builds, c \in Chroots : target[b][c] = "pending" ~> target[b][c] \in Final

\* What nobody looks at any more: check_pending_copr_builds leaves out targets
\* that wait for the SRPM.  The end of the SRPM build is not noticed when the
\* babysitter has given up, or when Copr loses the build before the handler asks.
LeftWaiting(b, c) ==
    target[b][c] = "waiting_for_srpm" /\ (sitter[b] = "stopped" \/ b \in gone)

\* A target with a build id ends for good, but for those left waiting, whichever
\* messages get lost: start and end handlers that overtake each other, and the
\* end of the SRPM build, may make a final target pending again, yet not for ever.
LinkedEnds ==
    \A b \in Builds, c \in Chroots :
        <>[](linked[b][c] => target[b][c] \in Final \/ LeftWaiting(b, c))

\* The tests of a chroot that Copr has built are triggered, also if all messages
\* about it get lost, unless the target is cancelled, too old or lost by Copr.
BuiltIsTested ==
    \A b \in Builds, c \in Chroots :
        <>[](linked[b][c] /\ job[b][c] = "succeeded"
                => \/ tests[b][c] > 0
                   \/ target[b][c] \in {"error", "canceled"}
                   \/ LeftWaiting(b, c))
=============================================================================
