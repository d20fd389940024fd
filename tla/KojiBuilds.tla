------------------------------ MODULE KojiBuilds ------------------------------
(***************************************************************************)
(* Downstream Koji builds of one project object (dist-git branch, pull     *)
(* request or issue): DownstreamKojiBuildHandler and its retrigger         *)
(* variant, and KojiBuildReportHandler.                                    *)
(*                                                                         *)
(* A branch stands for the NVR that is on it.  Every read and commit of    *)
(* the database and every call of Koji that other tasks can notice is a    *)
(* step of its own.                                                        *)
(***************************************************************************)
EXTENDS Naturals, FiniteSets

CONSTANTS
    Nvrs,           \* one for each branch
    MaxBranches,    \* branches of one event: 1, or more for a comment in an issue
    MaxEvents,      \* bound: events that trigger the job
    MaxRetries,     \* TaskWithRetry.max_retries
    MaxGroups,      \* bound: groups of targets
    MaxRows,        \* bound: rows of koji_build_targets
    MaxKoji,        \* bound: tasks of Koji
    MaxFaults,      \* bound: crashes, escaping exceptions, lost answers
    MaxQueue        \* bound: reports that wait or are under way (ShortQueue)

ASSUME BoundsAssumption ==
    /\ {MaxBranches, MaxEvents, MaxRetries, MaxGroups, MaxRows, MaxKoji, MaxFaults,
      MaxQueue} \subseteq Nat
    /\ IsFiniteSet(Nvrs)

Events    == 1..MaxEvents
Rows      == 1..MaxRows
KojiTasks == 1..MaxKoji
None      == 0

Open       == {"queued", "pending", "retry"}             \* _run works on these
InProgress == Open \cup {"running", "success"}           \* and leaves the NVR to these
Final      == {"failure", "error", "success"}            \* never overwritten by a report
Running    == {"pending", "queued", "running"}           \* can be cancelled
Status     == {"none", "skipped", "canceled"} \cup InProgress \cup Final

Live == {"open", "building", "complete"}

VARIABLES
    task,       \* the handler's task of each event
    rows,       \* koji_build_targets, by id
    groups,     \* number of groups: the datetime of the newest pipeline
    koji,       \* the tasks of Koji, with the build of the NVR
    reports,    \* messages of Koji
    storing,    \* report handlers between reading and writing the status
    cancelling, \* is CANCEL_RUNNING_JOBS set?
    faults      \* faults so far

vars == <<task, rows, groups, koji, reports, storing, cancelling, faults>>

Steps == {"absent", "start", "cancelling", "mark cancel", "group", "create", "loop", "query", "ask",
          "skip", "pend", "submit", "save", "mark", "retry", "end", "done"}

Task ==
    [pc : Steps, nvrs : SUBSET Nvrs, cutoff : 0..MaxGroups, retries : 0..MaxRetries,
     given : 0..MaxGroups,        \* koji_group_model_id, an argument of the task
     group : 0..MaxGroups,
     todo : SUBSET Rows, left : SUBSET Nvrs, row : Rows \cup {None}, id : KojiTasks \cup {None}]

\* `again' is history: a task has worked on the row after it had a task id.
Row ==
    [status : Status, nvr : Nvrs \cup {None}, group : 0..MaxGroups, id : KojiTasks \cup {None},
     again : BOOLEAN]

Build == [state : {"none", "open", "building", "complete", "failed", "canceled", "deleted", "refused"},
          nvr : Nvrs \cup {None}, row : Rows \cup {None}]

States == {"building", "complete", "failed", "canceled", "deleted"}

TypeOK ==
    /\ task \in [Events -> Task]
    /\ rows \in [Rows -> Row]
    /\ groups \in 0..MaxGroups
    /\ koji \in [KojiTasks -> Build]
    /\ reports \subseteq [id : KojiTasks, state : States]
    /\ storing \subseteq [row : Rows, id : KojiTasks, state : States]
    /\ cancelling \in BOOLEAN
    /\ faults \in 0..MaxFaults

Absent == [pc |-> "absent", nvrs |-> {}, cutoff |-> 0, retries |-> 0, given |-> 0,
           group |-> 0, todo |-> {}, left |-> {}, row |-> None, id |-> None]
Done   == [Absent EXCEPT !.pc = "done"]

Init ==
    /\ task = [e \in Events |-> Absent]
    /\ rows = [r \in Rows |-> [status |-> "none", nvr |-> None, group |-> 0, id |-> None,
                               again |-> FALSE]]
    /\ groups = 0
    /\ koji = [k \in KojiTasks |-> [state |-> "none", nvr |-> None, row |-> None]]
    /\ reports = {}
    /\ storing = {}
    /\ cancelling \in BOOLEAN
    /\ faults = 0

-----------------------------------------------------------------------------
(* Helpers.                                                                *)

SetStatus(r, status) == rows' = [rows EXCEPT ![r].status = status]

Fault ==
    /\ faults < MaxFaults
    /\ faults' = faults + 1

Grouped(g) == {r \in Rows : rows[r].status # "none" /\ rows[r].group = g}

Start == IF cancelling THEN "start" ELSE "group"

\* A task that starts with the arguments it has.
Fresh(t, given, retries) ==
    [t EXCEPT !.pc = Start, !.retries = retries, !.given = given, !.group = given, !.todo = {},
              !.left = {}, !.row = None, !.id = None]

\* On to the next target of the group.
NextRow(t) ==
    [t EXCEPT !.pc = IF t.todo = {} THEN "end" ELSE "loop", !.row = None, !.id = None]

\* koji_helper.get_build_info knows a build of the NVR once its task has begun.
IsAlreadyTriggered(nvr) ==
    \E k \in KojiTasks : koji[k].nvr = nvr /\ koji[k].state \in {"building", "complete"}

\* Mutant: targets that wait for their task are not in progress.
ExistingModelsSubmitted(r) ==
    {s \in Rows \ {r} : rows[s].nvr = rows[r].nvr /\ rows[s].status \in InProgress \ {"queued"}}

\* get_all_successful_or_in_progress_by_nvr, less the target itself.
ExistingModels(r) ==
    {s \in Rows \ {r} : rows[s].nvr = rows[r].nvr /\ rows[s].status \in InProgress}

\* Koji takes the first free number for the task that builds row r.
Accept(k, r) ==
    /\ koji[k].state = "none"
    /\ \A l \in 1..(k - 1) : koji[l].state # "none"
    /\ koji' = [koji EXCEPT ![k] = [state |-> "open", nvr |-> rows[r].nvr, row |-> r]]

-----------------------------------------------------------------------------
(* Events, and cancelling.                                                 *)

\* SteveJobs.create_tasks: the cutoff is the datetime of the newest pipeline.
Trigger(e, nvrs) ==
    /\ task[e].pc = "absent"
    /\ \A d \in 1..(e - 1) : task[d].pc # "absent"
    /\ nvrs # {} /\ Cardinality(nvrs) <= MaxBranches
    /\ task' = [task EXCEPT ![e] = [task[e] EXCEPT !.pc = Start, !.nvrs = nvrs, !.cutoff = groups]]
    /\ UNCHANGED <<rows, groups, koji, reports, storing, cancelling, faults>>

AfterCancel(t) == [t EXCEPT !.pc = IF t.todo = {} THEN "group" ELSE "cancelling", !.row = None]

\* Mutant: get_running without created_before.
RunningJobsAll(t) == {r \in Rows : rows[r].status \in Running}

RunningJobs(t) == {r \in Rows : rows[r].status \in Running /\ rows[r].group <= t.cutoff}

CancelRead(e) ==
    /\ task[e].pc = "start"
    /\ task' = [task EXCEPT ![e] = AfterCancel([task[e] EXCEPT !.todo = RunningJobs(task[e])])]
    /\ UNCHANGED <<rows, groups, koji, reports, storing, cancelling, faults>>

\* Koji cancels the task, and tells if that ends a build.
CancelInKoji(e, r) ==
    /\ task[e].pc = "cancelling"
    /\ r \in task[e].todo
    /\ LET k == rows[r].id
           ends == k # None /\ koji[k].state \in {"open", "building"}
       IN  /\ koji' = IF ends THEN [koji EXCEPT ![k].state = "canceled"] ELSE koji
           /\ reports' = IF ends /\ koji[k].state = "building"
                         THEN reports \cup {[id |-> k, state |-> "canceled"]} ELSE reports
    /\ task' = [task EXCEPT ![e] =
                   [task[e] EXCEPT !.pc = "mark cancel", !.row = r, !.todo = task[e].todo \ {r}]]
    /\ UNCHANGED <<rows, groups, storing, cancelling, faults>>

CancelMark(e) ==
    /\ task[e].pc = "mark cancel"
    /\ SetStatus(task[e].row, "canceled")
    /\ task' = [task EXCEPT ![e] = AfterCancel(task[e])]
    /\ UNCHANGED <<groups, koji, reports, storing, cancelling, faults>>

-----------------------------------------------------------------------------
(* _get_or_create_koji_group_model.                                        *)

GetGroup(e) ==
    /\ task[e].pc = "group"
    /\ task[e].group # None
    /\ task' = [task EXCEPT ![e] = NextRow([task[e] EXCEPT !.todo = Grouped(task[e].group)])]
    /\ UNCHANGED <<rows, groups, koji, reports, storing, cancelling, faults>>

CreateGroup(e) ==
    /\ task[e].pc = "group"
    /\ task[e].group = None
    /\ groups < MaxGroups
    /\ groups' = groups + 1
    /\ task' = [task EXCEPT ![e] = [task[e] EXCEPT !.pc = "create", !.group = groups + 1,
                                             !.left = task[e].nvrs]]
    /\ UNCHANGED <<rows, koji, reports, storing, cancelling, faults>>

CreateRow(e, nvr) ==
    /\ task[e].pc = "create"
    /\ nvr \in task[e].left
    /\ \E r \in Rows :
        /\ rows[r].status = "none"
        /\ \A s \in 1..(r - 1) : rows[s].status # "none"
        /\ rows' = [rows EXCEPT ![r] = [status |-> "queued", nvr |-> nvr, group |-> task[e].group,
                                        id |-> None, again |-> FALSE]]
        /\ task' = [task EXCEPT ![e] =
              [task[e] EXCEPT !.left = task[e].left \ {nvr}, !.todo = task[e].todo \cup {r},
                        !.pc = IF task[e].left = {nvr} THEN "loop" ELSE "create"]]
    /\ UNCHANGED <<groups, koji, reports, storing, cancelling, faults>>

\* A dependency is missing in the sidetag, or it or the NVR cannot be got.
GroupFails(e) ==
    /\ task[e].pc = "create"
    /\ task' = [task EXCEPT ![e].pc = "end"]
    /\ UNCHANGED <<rows, groups, koji, reports, storing, cancelling, faults>>

-----------------------------------------------------------------------------
(* The loop of _run.                                                       *)

Skip(e, r) ==
    /\ task[e].pc = "loop"
    /\ r \in task[e].todo
    /\ rows[r].status \notin Open
    /\ task' = [task EXCEPT ![e] = NextRow([task[e] EXCEPT !.todo = task[e].todo \ {r}])]
    /\ UNCHANGED <<rows, groups, koji, reports, storing, cancelling, faults>>

Begin(e, r) ==
    /\ task[e].pc = "loop"
    /\ r \in task[e].todo
    /\ rows[r].status \in Open
    /\ task' = [task EXCEPT ![e] = [task[e] EXCEPT !.pc = "query", !.row = r, !.todo = task[e].todo \ {r}]]
    /\ rows' = [rows EXCEPT ![r].again = @ \/ rows[r].id # None]
    /\ UNCHANGED <<groups, koji, reports, storing, cancelling, faults>>

Query(e) ==
    /\ task[e].pc = "query"
    /\ task' = [task EXCEPT ![e].pc = IF ExistingModels(task[e].row) = {} THEN "ask" ELSE "skip"]
    /\ UNCHANGED <<rows, groups, koji, reports, storing, cancelling, faults>>

Ask(e) ==
    /\ task[e].pc = "ask"
    /\ task' = [task EXCEPT ![e].pc =
                   IF IsAlreadyTriggered(rows[task[e].row].nvr) THEN "skip" ELSE "pend"]
    /\ UNCHANGED <<rows, groups, koji, reports, storing, cancelling, faults>>

SetSkipped(e) ==
    /\ task[e].pc = "skip"
    /\ SetStatus(task[e].row, "skipped")
    /\ task' = [task EXCEPT ![e] = NextRow(task[e])]
    /\ UNCHANGED <<groups, koji, reports, storing, cancelling, faults>>

SetPending(e) ==
    /\ task[e].pc = "pend"
    /\ SetStatus(task[e].row, "pending")
    /\ task' = [task EXCEPT ![e].pc = "submit"]
    /\ UNCHANGED <<groups, koji, reports, storing, cancelling, faults>>

Submit(e, k) ==
    /\ task[e].pc = "submit"
    /\ Accept(k, task[e].row)
    /\ task' = [task EXCEPT ![e] = [task[e] EXCEPT !.pc = "save", !.id = k]]
    /\ UNCHANGED <<rows, groups, reports, storing, cancelling, faults>>

SetTaskId(e) ==
    /\ task[e].pc = "save"
    /\ rows' = [rows EXCEPT ![task[e].row].id = task[e].id]
    /\ task' = [task EXCEPT ![e] = NextRow(task[e])]
    /\ UNCHANGED <<groups, koji, reports, storing, cancelling, faults>>

\* Mutant: no look at is_last_try.
BuildFailsAlways(e) ==
    /\ task' = [task EXCEPT ![e] = [task[e] EXCEPT !.pc = "mark", !.todo = Grouped(task[e].group)]]
    /\ UNCHANGED rows

\* The command fails with a PackitException, which autoretry_for names (can_retry_for).
\* All targets of the group are to be retried, also those that have been submitted.
BuildFails(e) ==
    IF task[e].retries < MaxRetries
    THEN /\ task' = [task EXCEPT ![e] = [task[e] EXCEPT !.pc = "mark", !.todo = Grouped(task[e].group)]]
         /\ UNCHANGED rows
    ELSE /\ SetStatus(task[e].row, "error")
         /\ task' = [task EXCEPT ![e] = NextRow(task[e])]

SubmitFails(e) ==
    /\ task[e].pc = "submit"
    /\ BuildFails(e)
    /\ UNCHANGED <<groups, koji, reports, storing, cancelling, faults>>

\* Koji has the task, but the command fails nevertheless.
AnswerLost(e, k) ==
    /\ task[e].pc = "submit"
    /\ Fault
    /\ Accept(k, task[e].row)
    /\ BuildFails(e)
    /\ UNCHANGED <<groups, reports, storing, cancelling>>

MarkRetry(e, r) ==
    /\ task[e].pc = "mark"
    /\ r \in task[e].todo
    /\ SetStatus(r, "retry")
    /\ task' = [task EXCEPT ![e] = [task[e] EXCEPT !.todo = task[e].todo \ {r},
                                             !.pc = IF task[e].todo = {r} THEN "retry" ELSE "mark"]]
    /\ UNCHANGED <<groups, koji, reports, storing, cancelling, faults>>

\* Mutant: kwargs without koji_group_model_id.
RetryWithoutGroup(e) ==
    /\ task[e].pc = "retry"
    /\ task' = [task EXCEPT ![e] = Fresh(task[e], None, task[e].retries + 1)]
    /\ UNCHANGED <<rows, groups, koji, reports, storing, cancelling, faults>>

Retry(e) ==
    /\ task[e].pc = "retry"
    /\ task' = [task EXCEPT ![e] = Fresh(task[e], task[e].group, task[e].retries + 1)]
    /\ UNCHANGED <<rows, groups, koji, reports, storing, cancelling, faults>>

Acknowledge(e) ==
    /\ task[e].pc = "end"
    /\ task' = [task EXCEPT ![e] = Done]
    /\ UNCHANGED <<rows, groups, koji, reports, storing, cancelling, faults>>

\* The worker dies and the task is delivered again (acks_late); or it is killed
\* for its time limit; or an exception escapes, which sends the task again with
\* the arguments that it had (autoretry_for) or ends it.
Fail(e) ==
    /\ task[e].pc \notin {"absent", "done"}
    /\ Fault
    /\ \/ task' = [task EXCEPT ![e] = Fresh(task[e], task[e].given, task[e].retries)]
       \/ task' = [task EXCEPT ![e] = Done]
       \/ /\ task[e].pc # "end"
          /\ task[e].retries < MaxRetries
          /\ task' = [task EXCEPT ![e] = Fresh(task[e], task[e].given, task[e].retries + 1)]
    /\ UNCHANGED <<rows, groups, koji, reports, storing, cancelling>>

-----------------------------------------------------------------------------
(* Koji.                                                                   *)

\* Koji has no second build of an NVR that is building or complete; a task that
\* ends before its build has begun sends no message about a build.
KojiBegin(k) ==
    /\ koji[k].state = "open"
    /\ \/ /\ ~IsAlreadyTriggered(koji[k].nvr)
          /\ koji' = [koji EXCEPT ![k].state = "building"]
          /\ reports' = reports \cup {[id |-> k, state |-> "building"]}
       \/ /\ koji' = [koji EXCEPT ![k].state = "refused"]
          /\ UNCHANGED reports
    /\ UNCHANGED <<task, rows, groups, storing, cancelling, faults>>

\* A build ends, is cancelled by somebody, or is deleted later.
KojiEnd(k) ==
    /\ \E state \in {"complete", "failed", "canceled", "deleted"} :
        /\ koji[k].state = IF state = "deleted" THEN "complete" ELSE "building"
        /\ koji' = [koji EXCEPT ![k].state = state]
        /\ reports' = reports \cup {[id |-> k, state |-> state]}
    /\ UNCHANGED <<task, rows, groups, storing, cancelling, faults>>

-----------------------------------------------------------------------------
(* KojiBuildReportHandler.                                                 *)

\* The status for a state of the build.
NewStatus(state) ==
    CASE state = "building" -> "running"
      [] state = "complete" -> "success"
      [] state = "failed"   -> "failure"
      [] state = "canceled" -> "canceled"
      [] state = "deleted"  -> "error"

\* Mutant: the target is looked for by its NVR.
ToStoreByNvr(m) ==
    {[row |-> r, id |-> m.id, state |-> m.state] :
        r \in {s \in Rows : rows[s].nvr = koji[m.id].nvr /\ rows[s].status \notin Final}}

\* The target that has the task id, unless its status is final.
ToStore(m) ==
    {[row |-> r, id |-> m.id, state |-> m.state] :
        r \in {s \in Rows : rows[s].id = m.id /\ rows[s].status \notin Final}}

Take(m) ==
    /\ m \in reports
    /\ reports' = reports \ {m}
    /\ storing' = storing \cup ToStore(m)
    /\ UNCHANGED <<task, rows, groups, koji, cancelling, faults>>

Store(h) ==
    /\ h \in storing
    /\ storing' = storing \ {h}
    /\ SetStatus(h.row, NewStatus(h.state))
    /\ UNCHANGED <<task, groups, koji, reports, cancelling, faults>>

\* The handler dies or raises: it runs again, or not.
StoreFails(h) ==
    /\ h \in storing
    /\ Fault
    /\ storing' = storing \ {h}
    /\ \/ reports' = reports \cup {[id |-> h.id, state |-> h.state]}
       \/ UNCHANGED reports
    /\ UNCHANGED <<task, rows, groups, koji, cancelling>>

-----------------------------------------------------------------------------

Cancel(e) == CancelRead(e) \/ CancelMark(e) \/ \E r \in Rows : CancelInKoji(e, r)

Group(e) ==
    \/ GetGroup(e) \/ CreateGroup(e) \/ GroupFails(e)
    \/ \E nvr \in Nvrs : CreateRow(e, nvr)

Run(e) ==
    \/ \E r \in Rows : Skip(e, r) \/ Begin(e, r) \/ MarkRetry(e, r)
    \/ \E k \in KojiTasks : Submit(e, k) \/ AnswerLost(e, k)
    \/ Query(e) \/ Ask(e) \/ SetSkipped(e) \/ SetPending(e) \/ SetTaskId(e)
    \/ SubmitFails(e) \/ Retry(e) \/ Acknowledge(e)

Next ==
    \/ \E e \in Events : \/ \E nvrs \in SUBSET Nvrs : Trigger(e, nvrs)
                         \/ Cancel(e) \/ Group(e) \/ Run(e) \/ Fail(e)
    \/ \E k \in KojiTasks : KojiBegin(k) \/ KojiEnd(k)
    \/ \E m \in reports : Take(m)
    \/ \E h \in storing : Store(h) \/ StoreFails(h)

Spec == Init /\ [][Next]_vars

\* Constraint: behaviours in which few reports wait at a time.
ShortQueue == Cardinality(reports) + Cardinality(storing) <= MaxQueue

-----------------------------------------------------------------------------
(* Properties.                                                             *)

\* A target is claimed from the answer that nobody else has its NVR until its
\* build has ended badly.
Claimed(r) ==
    \/ rows[r].status = "pending"
    \/ rows[r].id # None /\ koji[rows[r].id].state \in Live
    \/ \E e \in Events : task[e].row = r /\ task[e].pc \in {"ask", "pend", "submit", "save"}

\* _run skips an NVR "that was already triggered": two targets never go to Koji
\* with the same NVR, whatever events, retries and crashes make them, unless a
\* target is built again after it was submitted.  (A cancelled target can be on
\* its way to Koji.)
OncePerNvr ==
    ~cancelling =>
        \A r \in Rows, s \in Rows :
            r # s /\ rows[r].nvr = rows[s].nvr /\ Claimed(r) /\ Claimed(s)
                => rows[r].again \/ rows[s].again

\* A target succeeds or fails only as its own build did: messages come in any
\* order, more than once, and after the target got another task.
StatusTrue ==
    \A r \in Rows :
        /\ rows[r].status = "success" =>
               \E k \in KojiTasks : koji[k].row = r /\ koji[k].state \in {"complete", "deleted"}
        /\ rows[r].status = "failure" =>
               \E k \in KojiTasks : koji[k].row = r /\ koji[k].state = "failed"

\* A target that keeps others from building its NVR and has no task of Koji has
\* a task that will work on it.  After a crash, or when only some targets of a
\* group could be made, it has none, and the NVR is never built.
NotBlocked ==
    faults = 0 /\ MaxBranches = 1 =>
        \A r \in Rows :
            \/ rows[r].status = "pending" /\ rows[r].id # None
            \/ rows[r].status \notin Open
            \/ \E e \in Events : /\ task[e].group = rows[r].group
                                  /\ task[e].pc \notin {"absent", "end", "done"}

\* The cutoff is there "to avoid cancelling builds from the current trigger
\* batch": a task never cancels targets that it made itself or that a newer
\* event made, also when it is retried with its group.
CurrentBatchKept ==
    \A e \in Events :
        task[e].pc \in {"cancelling", "mark cancel"} =>
            \A r \in task[e].todo \cup ({task[e].row} \ {None}) :
                \A d \in Events : d >= e /\ task[d].group # None => rows[r].group # task[d].group
===============================================================================
