---------------------------- MODULE TestingFarm ----------------------------
(***************************************************************************)
(* The Testing Farm runs of one test job of a pull request: submission by  *)
(* TestingFarmHandler, its retries and its cancelling of older runs, the   *)
(* results handler, and the periodic check of pending runs.                *)
(*                                                                         *)
(* Every commit that another task can see is a step of its own.  A task is *)
(* a record in `tasks' until it is done; there is no limit on workers, so  *)
(* a queued task and one that has not yet done anything are the same.      *)
(***************************************************************************)
EXTENDS Naturals, FiniteSets

CONSTANTS
    Targets,        \* test targets of the job, one chroot each
    MaxTriggers,    \* bound: pushes, ended builds and comments
    MaxRetries,     \* TaskWithRetry.max_retries
    MaxRuns,        \* bound: rows of tft_test_run_targets
    MaxRequests,    \* bound: requests accepted by Testing Farm
    MaxFaults,      \* bound: crashes, lost answers, failing reports, timeouts
    MaxQueue,       \* bound: results that wait, plus one for the periodic check
    Comments        \* can a comment "/packit test" trigger the job?

ASSUME BoundsAssumption ==
    /\ {MaxTriggers, MaxRetries, MaxRuns, MaxRequests, MaxFaults, MaxQueue} \subseteq Nat
    /\ Comments \in BOOLEAN

Runs     == 1..MaxRuns
Requests == 1..MaxRequests
Pushes   == 1..MaxTriggers
None     == 0

Results      == {"passed", "failed", "canceled"}
Final        == Results \cup {"error"}
Running      == {"queued", "running"}
NotCompleted == {"new", "queued", "running", "cancel-requested"}
Status       == NotCompleted \cup Final \cup {"retry"}

VARIABLES
    runs,       \* the rows, by id
    batches,    \* the Copr builds of each push: pipeline time, ended chroots
    tasks,      \* TestingFarmHandler tasks, queued or under way
    farm,       \* the requests as Testing Farm knows them, and their runs
    results,    \* tasks for the results handler
    storing,    \* results handlers between reading and writing the run
    pushed,     \* number of pushes
    sending,    \* pushes whose TestingFarmHandler task is still to be sent
    triggers,   \* number of events that made a task
    now,        \* datetime of the newest pipeline
    faults      \* faults so far

vars == <<runs, batches, tasks, farm, results, storing, pushed, sending, triggers, now, faults>>

Run ==
    [status : Status \cup {"none"}, request : Requests \cup {None}, target : Targets \cup {None},
     batch : Pushes \cup {None}, trigger : 0..MaxTriggers, time : Nat]

Batch == [time : Nat, ended : SUBSET Targets, bare : BOOLEAN]

Task ==
    [kind : {"push", "build", "comment"}, batch : Pushes, trigger : 1..MaxTriggers,
     cutoff : Nat, only : SUBSET Targets, target : Runs \cup {None}, retries : 0..MaxRetries,
     pc : {"cancel", "cancelling", "group", "create", "loop", "posted", "pid", "report", "retrying"},
     todo : SUBSET Runs, left : SUBSET Targets, run : Runs \cup {None},
     request : Requests \cup {None}, time : Nat]

TypeOK ==
    /\ runs \in [Runs -> Run]
    /\ batches \in [Pushes -> Batch]
    /\ tasks \subseteq Task
    /\ farm \in [Requests -> [state : {"none"} \cup Running \cup Results, run : Runs \cup {None}]]
    /\ results \subseteq [request : Requests, result : Running \cup Results]
    /\ storing \subseteq [request : Requests, run : Runs, result : Running \cup Results]
    /\ pushed \in 0..MaxTriggers
    /\ sending \subseteq [batch : Pushes, trigger : 1..MaxTriggers]
    /\ triggers \in 0..MaxTriggers
    /\ now \in Nat
    /\ faults \in 0..MaxFaults

NoRun   == [status |-> "none", request |-> None, target |-> None, batch |-> None, trigger |-> 0, time |-> 0]
NoBatch == [time |-> 0, ended |-> {}, bare |-> FALSE]

Init ==
    /\ runs = [r \in Runs |-> NoRun]
    /\ batches = [b \in Pushes |-> NoBatch]
    /\ tasks = {}
    /\ farm = [q \in Requests |-> [state |-> "none", run |-> None]]
    /\ results = {}
    /\ storing = {}
    /\ pushed = 0
    /\ sending = {}
    /\ triggers = 0
    /\ now = 0
    /\ faults = 0

-----------------------------------------------------------------------------
(* Events.                                                                 *)

\* A task that starts from the beginning.
Fresh(t) == [t EXCEPT !.pc = "cancel", !.todo = {}, !.left = {}, !.run = None,
                      !.request = None, !.time = 0]

NewTask(kind, batch, trigger, cutoff, only) ==
    [kind |-> kind, batch |-> batch, trigger |-> trigger, cutoff |-> cutoff, only |-> only,
     target |-> None, retries |-> 0, pc |-> "cancel", todo |-> {}, left |-> {}, run |-> None,
     request |-> None, time |-> 0]

NextTrigger ==
    /\ triggers < MaxTriggers
    /\ triggers' = triggers + 1

Trigger(kind, batch, cutoff, only) ==
    /\ NextTrigger
    /\ tasks' = tasks \cup {NewTask(kind, batch, triggers + 1, cutoff, only)}
    /\ UNCHANGED <<runs, farm, results, storing, pushed, sending, now, faults>>

\* SteveJobs.process_jobs calls create_tasks for one handler after the other, in
\* any order, for they are a set: CoprBuildHandler's task may be sent from now on.
Push ==
    /\ NextTrigger
    /\ pushed' = pushed + 1
    /\ sending' = sending \cup {[batch |-> pushed + 1, trigger |-> triggers + 1]}
    /\ UNCHANGED <<runs, batches, tasks, farm, results, storing, now, faults>>

\* create_tasks for TestingFarmHandler takes the newest pipeline's datetime as the
\* cutoff.  It can be that of the push's own batch.
SendPush(p) ==
    /\ sending' = sending \ {p}
    /\ tasks' = tasks \cup {NewTask("push", p.batch, p.trigger, now, Targets)}
    /\ UNCHANGED <<runs, batches, farm, results, storing, pushed, triggers, now, faults>>

\* CoprBuildHandler, whose tasks can overtake each other, makes the pipeline.
NewBatch(b) ==
    /\ b <= pushed
    /\ batches[b].time = 0
    /\ now' = now + 1
    /\ batches' = [batches EXCEPT ![b] = [time |-> now + 1, ended |-> {}, bare |-> TRUE]]
    /\ UNCHANGED <<runs, tasks, farm, results, storing, pushed, sending, triggers, faults>>

\* Mutant: the cutoff is the batch's own time.
BuildEndAtBatch(b, x) ==
    /\ batches[b].time # 0
    /\ x \notin batches[b].ended
    /\ batches' = [batches EXCEPT ![b].ended = @ \cup {x}]
    /\ Trigger("build", b, batches[b].time, {x})

\* CoprBuildEndHandler.handle_testing_farm: the cutoff is just before the batch.
BuildEnd(b, x) ==
    /\ batches[b].time # 0
    /\ x \notin batches[b].ended
    /\ batches' = [batches EXCEPT ![b].ended = @ \cup {x}]
    /\ Trigger("build", b, batches[b].time - 1, {x})

\* "/packit test" tests the builds of the newest commit.
Comment ==
    /\ Comments
    /\ pushed > 0
    /\ batches[pushed].time # 0
    /\ Trigger("comment", pushed, now, Targets)
    /\ UNCHANGED batches

-----------------------------------------------------------------------------
(* TestingFarmHandler.                                                     *)

\* Task t goes on as the tasks in the set `next', empty when it is done.
Becomes(t, next) == tasks' = (tasks \ {t}) \cup next

SetStatus(r, status) == runs' = [runs EXCEPT ![r].status = status]

Fault ==
    /\ faults < MaxFaults
    /\ faults' = faults + 1

\* get_running: what has been submitted before the cutoff.
Cancellable(t) ==
    {r \in Runs : /\ runs[r].status \in Running
                  /\ runs[r].time <= t.cutoff
                  /\ runs[r].target \in t.only}

\* When all is cancelled a push is done, for its tests wait for the build, and a
\* retried task goes on with its run.
AfterCancel(t) ==
    IF t.todo # {} THEN {t}
    ELSE IF t.kind = "push" THEN {}
    ELSE IF t.target = None THEN {[t EXCEPT !.pc = "group"]}
    ELSE {[t EXCEPT !.pc = "loop", !.todo = {t.target}]}

CancelRead(t) ==
    /\ t.pc = "cancel"
    /\ Becomes(t, AfterCancel([t EXCEPT !.pc = "cancelling", !.todo = Cancellable(t)]))
    /\ UNCHANGED <<runs, batches, farm, results, storing, pushed, sending, triggers, now, faults>>

CancelInFarm(t, r) ==
    /\ t.pc = "cancelling"
    /\ t.run = None
    /\ r \in t.todo
    /\ LET q == runs[r].request
       IN  farm' = IF q # None /\ farm[q].state \in Running
                   THEN [farm EXCEPT ![q].state = "canceled"] ELSE farm
    /\ Becomes(t, {[t EXCEPT !.todo = @ \ {r}, !.run = r]})
    /\ UNCHANGED <<runs, batches, results, storing, pushed, sending, triggers, now, faults>>

\* Mutant: canceled at once instead of "cancel-requested".
CancelMarkCanceled(t) ==
    /\ t.pc = "cancelling"
    /\ t.run # None
    /\ SetStatus(t.run, "canceled")
    /\ Becomes(t, AfterCancel([t EXCEPT !.run = None]))
    /\ UNCHANGED <<batches, farm, results, storing, pushed, sending, triggers, now, faults>>

CancelMark(t) ==
    /\ t.pc = "cancelling"
    /\ t.run # None
    /\ SetStatus(t.run, "cancel-requested")
    /\ Becomes(t, AfterCancel([t EXCEPT !.run = None]))
    /\ UNCHANGED <<batches, farm, results, storing, pushed, sending, triggers, now, faults>>

\* The first test group of a batch is put on its pipeline, others on a clone.
CreateGroup(t) ==
    /\ t.pc = "group"
    /\ LET b == batches[t.batch]
       IN  /\ now' = IF b.bare THEN now ELSE now + 1
           /\ Becomes(t, {[t EXCEPT !.pc = "create", !.left = t.only,
                                   !.time = IF b.bare THEN b.time ELSE now + 1]})
    /\ batches' = [batches EXCEPT ![t.batch].bare = FALSE]
    /\ UNCHANGED <<runs, farm, results, storing, pushed, sending, triggers, faults>>

CreateTarget(t, x) ==
    /\ t.pc = "create"
    /\ x \in t.left
    /\ \E r \in Runs :
        /\ runs[r].status = "none"
        /\ \A s \in 1..(r - 1) : runs[s].status # "none"
        /\ runs' = [runs EXCEPT ![r] =
            [status |-> "new", request |-> None, target |-> x, batch |-> t.batch,
             trigger |-> t.trigger, time |-> t.time]]
        /\ Becomes(t, {[t EXCEPT !.left = @ \ {x}, !.todo = @ \cup {r},
                                  !.pc = IF t.left = {x} THEN "loop" ELSE "create"]})
    /\ UNCHANGED <<batches, farm, results, storing, pushed, sending, triggers, now, faults>>

\* "Only retry what's needed", and only for builds that have ended.
ToRun(t, r) ==
    /\ runs[r].target \in batches[t.batch].ended
    /\ runs[r].status \in {"new", "retry"}

AfterRun(t, r) ==
    IF t.todo = {r} THEN {}
    ELSE {[t EXCEPT !.pc = "loop", !.todo = @ \ {r}, !.run = None, !.request = None]}

Skip(t, r) ==
    /\ t.pc = "loop"
    /\ r \in t.todo
    /\ ~ToRun(t, r)
    /\ Becomes(t, AfterRun(t, r))
    /\ UNCHANGED <<runs, batches, farm, results, storing, pushed, sending, triggers, now, faults>>

\* run_testing_farm finds that it cannot be tested (compose, architecture, no
\* metadata).  The status stays.  After a first failure that is an outage.
NotSubmitted(t, r) ==
    /\ t.pc = "loop"
    /\ r \in t.todo
    /\ ToRun(t, r)
    /\ IF t.retries = 0 THEN UNCHANGED faults ELSE Fault
    /\ Becomes(t, AfterRun(t, r))
    /\ UNCHANGED <<runs, batches, farm, results, storing, pushed, sending, triggers, now>>

\* Testing Farm accepts a request for run r.
Accept(q, r) ==
    /\ farm[q].state = "none"
    /\ \A p \in 1..(q - 1) : farm[p].state # "none"
    /\ farm' = [farm EXCEPT ![q] = [state |-> "queued", run |-> r]]

Post(t, r, q) ==
    /\ t.pc = "loop"
    /\ r \in t.todo
    /\ ToRun(t, r)
    /\ Accept(q, r)
    /\ Becomes(t, {[t EXCEPT !.pc = "posted", !.run = r, !.request = q]})
    /\ UNCHANGED <<runs, batches, results, storing, pushed, sending, triggers, now, faults>>

\* The request is wrong, or Testing Farm does not work and this is the last try.
PostRefused(t, r) ==
    /\ t.pc = "loop"
    /\ r \in t.todo
    /\ ToRun(t, r)
    /\ SetStatus(r, "error")
    /\ Becomes(t, AfterRun(t, r))
    /\ UNCHANGED <<batches, farm, results, storing, pushed, sending, triggers, now, faults>>

\* Mutant: no look at is_last_try.
RetryLaterAlways(t, r) ==
    /\ SetStatus(r, "retry")
    /\ Becomes(t, {[t EXCEPT !.pc = "retrying", !.run = r]})

\* The status is set before the task is sent again.
RetryLater(t, r) ==
    IF t.retries = MaxRetries
    THEN /\ SetStatus(r, "error")
         /\ Becomes(t, AfterRun(t, r))
    ELSE /\ SetStatus(r, "retry")
         /\ Becomes(t, {[t EXCEPT !.pc = "retrying", !.run = r]})

PostFails(t, r) ==
    /\ t.pc = "loop"
    /\ r \in t.todo
    /\ ToRun(t, r)
    /\ t.retries < MaxRetries
    /\ RetryLater(t, r)
    /\ UNCHANGED <<batches, farm, results, storing, pushed, sending, triggers, now, faults>>

\* run_testing_farm raises: before the request, or when its answer is lost.
Raises(t, r) ==
    /\ t.pc = "loop"
    /\ r \in t.todo
    /\ ToRun(t, r)
    /\ Fault
    /\ \/ UNCHANGED farm
       \/ \E q \in Requests : Accept(q, r)
    /\ RetryLater(t, r)
    /\ UNCHANGED <<batches, results, storing, pushed, sending, triggers, now>>

SetPipelineId(t) ==
    /\ t.pc = "posted"
    /\ runs' = [runs EXCEPT ![t.run].request = t.request]
    /\ Becomes(t, {[t EXCEPT !.pc = "pid"]})
    /\ UNCHANGED <<batches, farm, results, storing, pushed, sending, triggers, now, faults>>

SetQueued(t) ==
    /\ t.pc = "pid"
    /\ SetStatus(t.run, "queued")
    /\ Becomes(t, {[t EXCEPT !.pc = "report"]})
    /\ UNCHANGED <<batches, farm, results, storing, pushed, sending, triggers, now, faults>>

Reported(t) ==
    /\ t.pc = "report"
    /\ Becomes(t, AfterRun(t, t.run))
    /\ UNCHANGED <<runs, batches, farm, results, storing, pushed, sending, triggers, now, faults>>

\* The report after the submission fails: taken for a failed submission.
ReportFails(t) ==
    /\ t.pc = "report"
    /\ Fault
    /\ RetryLater(t, t.run)
    /\ UNCHANGED <<batches, farm, results, storing, pushed, sending, triggers, now>>

\* Mutant: testing_farm_target_id does not reach the retried task.
RetryTaskAll(t) == [Fresh(t) EXCEPT !.retries = @ + 1]

\* The task is sent again for this run only.
RetryTask(t) == [Fresh(t) EXCEPT !.target = t.run, !.retries = @ + 1]

\* Mutant: the loop does not leave the run to the task it has sent.
RetryAndGoOn(t) ==
    /\ t.pc = "retrying"
    /\ Becomes(t, {[t EXCEPT !.pc = "loop", !.run = None], RetryTask(t)})
    /\ UNCHANGED <<runs, batches, farm, results, storing, pushed, sending, triggers, now, faults>>

Retry(t) ==
    /\ t.pc = "retrying"
    /\ Becomes(t, AfterRun(t, t.run) \cup {RetryTask(t)})
    /\ UNCHANGED <<runs, batches, farm, results, storing, pushed, sending, triggers, now, faults>>

\* An exception that is not caught restarts the whole task (autoretry_for):
\* one of cancelling, of the database, or of the report about the retry.
Escape(t) ==
    /\ t.pc \in {"cancel", "cancelling", "group", "create", "retrying"}
    /\ Fault
    /\ IF t.retries < MaxRetries
       THEN Becomes(t, {[Fresh(t) EXCEPT !.retries = @ + 1]})
       ELSE Becomes(t, {})
    /\ UNCHANGED <<runs, batches, farm, results, storing, pushed, sending, triggers, now>>

\* The worker dies and the task is delivered again (acks_late), or it is
\* killed for its time limit, and is not.
Crash(t) ==
    /\ Fault
    /\ \/ Becomes(t, {Fresh(t)})
       \/ Becomes(t, {})
    /\ UNCHANGED <<runs, batches, farm, results, storing, pushed, sending, triggers, now>>

-----------------------------------------------------------------------------
(* Testing Farm.                                                           *)

FarmStart(q) ==
    /\ farm[q].state = "queued"
    /\ farm' = [farm EXCEPT ![q].state = "running"]
    /\ UNCHANGED <<runs, batches, tasks, results, storing, pushed, sending, triggers, now, faults>>

FarmEnd(q) ==
    /\ farm[q].state = "running"
    /\ \E result \in {"passed", "failed"} : farm' = [farm EXCEPT ![q].state = result]
    /\ UNCHANGED <<runs, batches, tasks, results, storing, pushed, sending, triggers, now, faults>>

\* A notification, at any time, as often as it likes or never.  The message only
\* names the request: its state is asked for when the message is parsed.
Notify(q) ==
    /\ farm[q].state # "none"
    /\ Cardinality(results) + Cardinality(storing) < MaxQueue
    /\ results' = results \cup {[request |-> q, result |-> farm[q].state]}
    /\ UNCHANGED <<runs, batches, tasks, farm, storing, pushed, sending, triggers, now, faults>>

-----------------------------------------------------------------------------
(* TestingFarmResultsHandler.                                              *)

\* The run of a request, and the guard "already processed".
ToStore(m) ==
    {[request |-> m.request, run |-> r, result |-> m.result] :
        r \in {s \in Runs : runs[s].request = m.request /\ runs[s].status # m.result}}

Take(m) ==
    /\ m \in results
    /\ results' = results \ {m}
    /\ storing' = storing \cup ToStore(m)
    /\ UNCHANGED <<runs, batches, tasks, farm, pushed, sending, triggers, now, faults>>

\* After the report; whatever the status has become in the meantime.
Store(h) ==
    /\ h \in storing
    /\ storing' = storing \ {h}
    /\ SetStatus(h.run, h.result)
    /\ UNCHANGED <<batches, tasks, farm, results, pushed, sending, triggers, now, faults>>

\* The handler dies or its report fails: it is run again, or given up.
StoreFails(h) ==
    /\ h \in storing
    /\ Fault
    /\ storing' = storing \ {h}
    /\ \/ UNCHANGED results
       \/ results' = results \cup {[request |-> h.request, result |-> h.result]}
    /\ UNCHANGED <<runs, batches, tasks, farm, pushed, sending, triggers, now>>

-----------------------------------------------------------------------------
(* check_pending_testing_farm_runs, every ten minutes, run by run.         *)

\* Mutant: only queued and running runs are checked.
BabysitRunning(r) ==
    /\ runs[r].status \in Running
    /\ runs[r].request # None
    /\ Cardinality(results) + Cardinality(storing) <= MaxQueue
    /\ LET q == runs[r].request
       IN  /\ farm[q].state \in Results
           /\ results' = results \cup {[request |-> q, result |-> farm[q].state]}
    /\ UNCHANGED <<runs, batches, tasks, farm, storing, pushed, sending, triggers, now, faults>>

Babysit(r) ==
    /\ runs[r].status \in NotCompleted
    /\ runs[r].request # None
    /\ Cardinality(results) + Cardinality(storing) <= MaxQueue
    /\ LET q == runs[r].request
       IN  /\ farm[q].state \in Results
           /\ results' = results \cup {[request |-> q, result |-> farm[q].state]}
    /\ UNCHANGED <<runs, batches, tasks, farm, storing, pushed, sending, triggers, now, faults>>

\* After seven days.
TimeOut(r) ==
    /\ runs[r].status \in NotCompleted
    /\ Fault
    /\ SetStatus(r, "error")
    /\ UNCHANGED <<batches, tasks, farm, results, storing, pushed, sending, triggers, now>>

-----------------------------------------------------------------------------

Submit(t) ==
    \/ \E r \in Runs, q \in Requests : Post(t, r, q)
    \/ \E r \in Runs : PostRefused(t, r) \/ PostFails(t, r) \/ NotSubmitted(t, r) \/ Skip(t, r)
    \/ SetPipelineId(t) \/ SetQueued(t) \/ Reported(t) \/ Retry(t)

Step(t) ==
    \/ CancelRead(t) \/ CancelMark(t) \/ CreateGroup(t)
    \/ \E r \in Runs : CancelInFarm(t, r)
    \/ \E x \in Targets : CreateTarget(t, x)
    \/ Submit(t)

TaskFault(t) ==
    \/ ReportFails(t) \/ Escape(t) \/ Crash(t)
    \/ \E r \in Runs : Raises(t, r)

Event ==
    \/ Push \/ Comment
    \/ \E p \in sending : SendPush(p)
    \/ \E b \in Pushes : NewBatch(b)
    \/ \E b \in Pushes, x \in Targets : BuildEnd(b, x)

Farm == \E q \in Requests : FarmStart(q) \/ FarmEnd(q) \/ Notify(q)

ResultsHandler ==
    \/ \E m \in results : Take(m)
    \/ \E h \in storing : Store(h) \/ StoreFails(h)

Next ==
    \/ Event \/ Farm \/ ResultsHandler
    \/ \E t \in tasks : Step(t) \/ TaskFault(t)
    \/ \E r \in Runs : Babysit(r) \/ TimeOut(r)

\* Workers run the tasks they are given, the periodic check comes back, and
\* Testing Farm ends what it has started.  Nobody has to deliver a notification.
Fairness ==
    /\ WF_vars(\E t \in tasks : Step(t))
    /\ \A q \in Requests :
        /\ WF_vars(FarmStart(q) \/ FarmEnd(q))
        /\ WF_vars(\E m \in results : m.request = q /\ m.result \in Results /\ Take(m))
    /\ \A r \in Runs :
        /\ WF_vars(Babysit(r))
        /\ WF_vars(\E h \in storing : h.run = r /\ Store(h))

Spec     == Init /\ [][Next]_vars
FairSpec == Spec /\ Fairness

-----------------------------------------------------------------------------
(* Properties.                                                             *)

\* A run is passed, failed or canceled only if Testing Farm ended one of its
\* requests so, and running only if it started one: messages that come late,
\* twice or in any order, and retries that replace the request of a run, never
\* give a run the result of another one.
ResultsTrue ==
    \A r \in Runs :
        /\ runs[r].status \in Results =>
               \E q \in Requests : farm[q] = [state |-> runs[r].status, run |-> r]
        /\ runs[r].status = "running" =>
               \E q \in Requests : farm[q].run = r /\ farm[q].state # "queued"

\* The tasks that are to leave the tests of their own push alone: that of the end
\* of a build, and that of the push, unless the push's pipeline was there already
\* when create_tasks took the cutoff.
SparesSiblings(t) ==
    \/ t.kind = "build"
    \/ t.kind = "push" /\ t.cutoff < batches[t.batch].time

\* These never cancel tests of the same push (copr.py: "we only cancel tests from
\* previous batches, not sibling tests"), however late the task runs, and when it
\* is retried or run again.
SiblingsKept ==
    \A t \in tasks :
        t.pc = "cancelling" /\ SparesSiblings(t) =>
            \A r \in t.todo \cup ({t.run} \ {None}) : runs[r].batch # t.batch

\* As long as nothing fails but the submission, a run with the status "retry"
\* has a task that will submit it again, or is about to get it.
RetryScheduled ==
    faults = 0 =>
        \A r \in Runs : runs[r].status = "retry" =>
            \E t \in tasks : \/ t.pc = "retrying" /\ t.run = r
                             \/ t.target = r /\ (t.pc \in {"cancel", "cancelling"} \/ r \in t.todo)
                             \/ t.target = r /\ t.run = r /\ t.pc \in {"posted", "pid"}

\* A run is submitted once, and again only because of a fault: an outage that
\* Testing Farm answers leads to no second request.
SubmittedOnce ==
    \A r \in Runs : Cardinality({q \in Requests : farm[q].run = r}) <= 1 + faults

\* Whatever gets lost or is overwritten, a run with a request ends for good.  A
\* run whose retry was lost can stay in "retry": the periodic check ignores it.
RunsEnd ==
    \A r \in Runs : <>[](runs[r].request # None => runs[r].status \in Final \cup {"retry"})

=============================================================================
