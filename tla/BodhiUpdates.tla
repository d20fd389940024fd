---------------------------- MODULE BodhiUpdates ----------------------------
(***************************************************************************)
(* Bodhi updates (BodhiUpdateHandler): of a single build when Koji has     *)
(* finished it, of the builds in a sidetag when one of them was tagged,    *)
(* and of either after a comment.  A group of a task has one target here   *)
(* (one branch).  Only targets in the database keep two tasks from making  *)
(* an update of the same build each: Bodhi is taken to accept both.        *)
(***************************************************************************)
EXTENDS Sidetags

CONSTANTS UpdateOf,    \* the package with the bodhi_update job
          Requests,    \* {a build}, or {} for those in the sidetag: what comments ask
          MaxTasks,    \* bound on the tasks made
          MaxTargets,  \* bound on the targets made
          MaxRetries   \* max_retries of BodhiTaskWithRetry

VARIABLES tasks, targets,
          updates,  \* in Bodhi: the builds an update was made with, and has now
          clock,    \* creation times
          lost      \* updates that Packit does not find again, see OneUpdatePerBuild
updateVars == <<tasks, targets, updates, clock, lost>>
vars == <<sidetagVars, updateVars>>

Nvrs == UNION {{p} \X (0..MaxVersion[p]) : p \in Packages}

ASSUME BodhiAssumption ==
  /\ UpdateOf \in Packages
  /\ Requests \subseteq SUBSET Nvrs
  /\ MaxTasks \in Nat /\ MaxTargets \in Nat /\ MaxRetries \in Nat

Open == {"queued", "retry", "success"}
Target == [nvrs : SUBSET Nvrs, tag : 0..MaxTags, status : Open \cup {"skipped", "error"},
           alias : 0..MaxTargets, time : Nat]
\* nvrs: koji_build_data.nvr, {} for the newest build in the sidetag; builds, tag: what
\* Koji answered; given: bodhi_update_group_model_id.
Task == [pc : {"new", "group", "look", "check", "skip", "create", "made", "success", "named", "done"},
         sidetag : BOOLEAN, nvrs : SUBSET Nvrs, builds : SUBSET Nvrs, tag : 0..MaxTags,
         given : 0..MaxTargets, target : 0..MaxTargets, alias : 0..MaxTargets,
         retries : 0..MaxRetries]
NewTask(sidetag, nvrs) ==
  [pc |-> "new", sidetag |-> sidetag, nvrs |-> nvrs, builds |-> {}, tag |-> 0,
   given |-> 0, target |-> 0, alias |-> 0, retries |-> 0]
TaskAt(k, pc) == tasks[k].pc = pc
TargetOf(k) == targets[tasks[k].target]
DoneTask(k) == tasks' = [tasks EXCEPT ![k] = [NewTask(FALSE, {}) EXCEPT !.pc = "done"]]
\* The task starts from the beginning.
Again(k, given, retries) ==
  tasks' = [tasks EXCEPT ![k] = [NewTask(tasks[k].sidetag, tasks[k].nvrs)
                                   EXCEPT !.given = given, !.retries = retries]]
GotoTask(k, pc) == tasks' = [tasks EXCEPT ![k].pc = pc]

UpdateInit ==
  Init /\ tasks = <<>> /\ targets = <<>> /\ updates = <<>> /\ clock = 0 /\ lost = 0

\* ---------------------------------------------------------- where tasks start
StartUpdate(sidetag, nvrs) ==
  /\ Len(tasks) < MaxTasks
  /\ tasks' = Append(tasks, NewTask(sidetag, nvrs))
  /\ UNCHANGED <<targets, updates, clock, lost>>

\* koji.result.Build, or a comment that wants an update: of builds that exist.
Request ==
  /\ \E nvrs \in Requests : /\ \A b \in nvrs : b[2] <= version[b[1]]
                            /\ StartUpdate(nvrs = {}, nvrs)
  /\ UNCHANGED sidetagVars

\* BodhiUpdateFromSidetagHandler.
TagEvent(t, p) ==
  /\ KojiBuildTag(t, p)
  /\ IF t = koji_name /\ Exists(t) /\ UpdateOf \in packages_to_trigger(t, p)
     THEN \E b \in tags[t].builds : b[1] = p /\ StartUpdate(TRUE, {b})
     ELSE UNCHANGED updateVars

\* -------------------------------- _get_or_create_bodhi_update_group_model
newest(t, p) ==
  {b \in tags[t].builds : b[1] = p /\ \A x \in tags[t].builds : x[1] = p => b[2] >= x[2]}
get_builds_suitable_for_update(t, dependencies) ==
  {b \in UNION {newest(t, p) : p \in dependencies} : b[2] > Stable[b[1]]}

\* builds if builds else koji_build_data.nvr
BuildsFor(k, t, dependencies) ==
  LET builds == get_builds_suitable_for_update(t, dependencies) IN
  IF builds # {} THEN builds
  ELSE IF tasks[k].nvrs # {} THEN tasks[k].nvrs ELSE newest(t, UpdateOf)

AskKoji(k, builds, t) ==
  tasks' = [tasks EXCEPT ![k].pc = "group", ![k].builds = builds, ![k].tag = t]

\* No sidetag or a missing package: PackitException, the task ends.
Group(k) ==
  LET dependencies == Dependencies[UpdateOf] \cup {UpdateOf} IN
  /\ TaskAt(k, "new") /\ tasks[k].given = 0
  /\ \/ ~tasks[k].sidetag /\ AskKoji(k, tasks[k].nvrs, 0)
     \/ /\ tasks[k].sidetag /\ Exists(koji_name)
        /\ get_missing_dependencies(koji_name, dependencies) = {}
        /\ AskKoji(k, BuildsFor(k, koji_name, dependencies), koji_name)
     \/ /\ tasks[k].sidetag
        /\ Exists(koji_name) => get_missing_dependencies(koji_name, dependencies) # {}
        /\ DoneTask(k)
  /\ UNCHANGED <<targets, updates, clock, lost, sidetagVars>>

\* BodhiUpdateTargetModel.create
MakeTarget(k) ==
  /\ TaskAt(k, "group") /\ Len(targets) < MaxTargets
  /\ targets' = Append(targets, [nvrs |-> tasks[k].builds, tag |-> tasks[k].tag,
                                 status |-> "queued", alias |-> 0, time |-> 0])
  /\ tasks' = [tasks EXCEPT ![k] = [@ EXCEPT !.pc = "look", !.target = Len(targets) + 1,
                                            !.builds = {}, !.tag = 0]]
  /\ UNCHANGED <<updates, clock, lost, sidetagVars>>

GroupGiven(k) ==
  /\ TaskAt(k, "new") /\ tasks[k].given # 0
  /\ tasks' = [tasks EXCEPT ![k].pc = "look", ![k].target = tasks[k].given]
  /\ UNCHANGED <<targets, updates, clock, lost, sidetagVars>>

\* ------------------------------------------------------------------- _run
\* ORDER BY update_creation_time DESC: those without one come first.
get_last_successful_by_sidetag(t) ==
  LET good == {i \in DOMAIN targets : targets[i].status = "success" /\ targets[i].tag = t}
  IN {i \in good : targets[i].time = 0
                   \/ \A j \in good : targets[j].time # 0 /\ targets[i].time >= targets[j].time}

\* Mutant: a target that waits for its retry is not in progress.
InProgressNoRetry(nvrs) ==
  {i \in DOMAIN targets : targets[i].status \in Open \ {"retry"} /\ targets[i].nvrs \cap nvrs # {}}

get_all_successful_or_in_progress_by_nvrs(nvrs) ==
  {i \in DOMAIN targets : targets[i].status \in Open /\ targets[i].nvrs \cap nvrs # {}}

SetStatus(k, status) == targets' = [targets EXCEPT ![tasks[k].target].status = status]
Skip(k) == GotoTask(k, "skip") /\ UNCHANGED targets

\* The update of the same sidetag.
LookAlias(k) ==
  LET last == IF TargetOf(k).tag = 0 THEN {} ELSE get_last_successful_by_sidetag(TargetOf(k).tag)
      Check == tasks' = [tasks EXCEPT ![k].pc = "check", ![k].alias = 0] /\ UNCHANGED targets
  IN /\ TaskAt(k, "look")
     /\ \/ last = {} /\ Check
        \/ \E i \in last :
             IF targets[i].nvrs = TargetOf(k).nvrs THEN Skip(k)
             ELSE IF targets[i].alias = 0 THEN Check
             ELSE /\ tasks' = [tasks EXCEPT ![k].pc = "create", ![k].alias = targets[i].alias]
                  /\ UNCHANGED targets
     /\ UNCHANGED <<updates, clock, lost, sidetagVars>>

CheckNvrs(k) ==
  /\ TaskAt(k, "check")
  /\ IF get_all_successful_or_in_progress_by_nvrs(TargetOf(k).nvrs) \ {tasks[k].target} = {}
     THEN GotoTask(k, "create") /\ UNCHANGED targets
     ELSE Skip(k)
  /\ UNCHANGED <<updates, clock, lost, sidetagVars>>

\* Bodhi has the update, and the database is being told.
Made(k) == tasks[k].pc \in {"made", "success", "named"}

\* Bodhi makes or edits the update.
Save(k) ==
  IF tasks[k].alias = 0
  THEN updates' = Append(updates, [made |-> TargetOf(k).nvrs, has |-> TargetOf(k).nvrs])
  ELSE updates' = [updates EXCEPT ![tasks[k].alias].has = TargetOf(k).nvrs]

create_update(k) ==
  /\ TaskAt(k, "create") /\ Len(updates) < MaxTargets
  /\ Save(k)
  /\ tasks' = [tasks EXCEPT ![k].pc = "made",
                            ![k].alias = IF @ = 0 THEN Len(updates) + 1 ELSE @]
  /\ lost' = IF tasks[k].alias = 0 /\ TargetOf(k).status = "error" THEN lost + 1 ELSE lost
  /\ UNCHANGED <<targets, clock, sidetagVars>>

AlreadyCreated(k) ==
  /\ TaskAt(k, "create") /\ updates # <<>>
  /\ Skip(k)
  /\ UNCHANGED <<updates, clock, lost, sidetagVars>>

\* Mutant: the limit of the retries is forgotten.
FailedAlways(k) ==
  /\ SetStatus(k, "retry")
  /\ Again(k, tasks[k].target, tasks[k].retries + 1)

SetSkipped(k) ==
  /\ TaskAt(k, "skip")
  /\ SetStatus(k, "skipped") /\ DoneTask(k)
  /\ UNCHANGED <<updates, clock, lost, sidetagVars>>

\* A PackitException: a retry with the group, or an error after the last one.
Failed(k) ==
  IF tasks[k].retries < MaxRetries
  THEN SetStatus(k, "retry") /\ Again(k, tasks[k].target, tasks[k].retries + 1)
  ELSE SetStatus(k, "error") /\ DoneTask(k)

UpdateFails(k) ==
  /\ TaskAt(k, "create")
  /\ Failed(k)
  /\ UNCHANGED <<updates, clock, lost, sidetagVars>>

\* The answer gets lost: a failure for Packit.
AnswerLost(k) ==
  /\ TaskAt(k, "create") /\ faults < MaxFaults /\ Len(updates) < MaxTargets
  /\ faults' = faults + 1 /\ lost' = lost + 1
  /\ Save(k) /\ Failed(k)
  /\ UNCHANGED <<clock, koji_name, lock, tags, version, calls, announced>>

\* Any other exception, also when Bodhi has the update: the target is in error, and the
\* task fails.  What autoretry_for names is tried again, with the arguments it had.
Raises(k) ==
  /\ ~TaskAt(k, "done") /\ faults < MaxFaults
  /\ faults' = faults + 1
  /\ \/ UNCHANGED updates /\ lost' = IF Made(k) THEN lost + 1 ELSE lost
     \/ /\ TaskAt(k, "create") /\ Len(updates) < MaxTargets
        /\ Save(k) /\ lost' = lost + 1
  /\ IF tasks[k].target = 0 THEN UNCHANGED targets ELSE SetStatus(k, "error")
  /\ \/ DoneTask(k)
     \/ tasks[k].retries < MaxRetries /\ Again(k, tasks[k].given, tasks[k].retries + 1)
  /\ UNCHANGED <<clock, koji_name, lock, tags, version, calls, announced>>

SetSuccess(k) ==
  /\ TaskAt(k, "made")
  /\ SetStatus(k, "success") /\ GotoTask(k, "success")
  /\ UNCHANGED <<updates, clock, lost, sidetagVars>>

SetAlias(k) ==
  /\ TaskAt(k, "success")
  /\ targets' = [targets EXCEPT ![tasks[k].target].alias = tasks[k].alias]
  /\ GotoTask(k, "named")
  /\ UNCHANGED <<updates, clock, lost, sidetagVars>>

SetTime(k) ==
  /\ TaskAt(k, "named")
  /\ clock' = clock + 1
  /\ targets' = [targets EXCEPT ![tasks[k].target].time = clock + 1]
  /\ DoneTask(k)
  /\ UNCHANGED <<updates, lost, sidetagVars>>

\* The worker dies and the task is delivered again, with the arguments it had.  If
\* it has its own target back, the check that follows leaves that target out.
CrashTask(k) ==
  /\ tasks[k].pc \notin {"new", "done"} /\ faults < MaxFaults
  /\ faults' = faults + 1
  /\ lost' = IF tasks[k].given # 0 /\ Made(k) THEN lost + 1 ELSE lost
  /\ Again(k, tasks[k].given, tasks[k].retries)
  /\ UNCHANGED <<targets, updates, clock, koji_name, lock, tags, version, calls, announced>>

Update(k) ==
  \/ Group(k) \/ MakeTarget(k) \/ GroupGiven(k) \/ LookAlias(k) \/ CheckNvrs(k)
  \/ SetSkipped(k) \/ create_update(k) \/ AlreadyCreated(k)
  \/ UpdateFails(k) \/ AnswerLost(k) \/ Raises(k)
  \/ SetSuccess(k) \/ SetAlias(k) \/ SetTime(k) \/ CrashTask(k)

Next ==
  \/ SidetagStep /\ UNCHANGED updateVars
  \/ \E m \in announced : TagEvent(m[1], m[2])
  \/ Request
  \/ \E k \in DOMAIN tasks : Update(k)

Spec == UpdateInit /\ [][Next]_vars

-----------------------------------------------------------------------------
TypeOK ==
  /\ tags \in Seq([live : BOOLEAN, builds : SUBSET Nvrs]) /\ Len(tags) <= MaxTags
  /\ calls \in Seq(Call)
  /\ koji_name \in 0..Len(tags) /\ lock \in 0..Len(calls)
  /\ version \in [Packages -> Nat] /\ \A p \in Packages : version[p] <= MaxVersion[p]
  /\ announced \subseteq (DOMAIN tags) \X Packages
  /\ tasks \in Seq(Task) /\ Len(tasks) <= MaxTasks
  /\ targets \in Seq(Target) /\ Len(targets) <= MaxTargets
  /\ updates \in Seq([made : SUBSET Nvrs, has : SUBSET Nvrs]) /\ Len(updates) <= MaxTargets
  /\ clock \in Nat /\ faults \in 0..MaxFaults /\ lost \in 0..2 * faults

\* Packit makes no second update of a build, however many tasks want one and
\* whenever they fail, are retried or die: no two updates were made with the same
\* build, but for those that Packit lost, at most two for each fault.  An update is
\* lost when the answer of Bodhi is, when a retried task dies with it, when an
\* exception turns its target to error, and when a retry takes a target in error up
\* again, which no other task sees.
OneUpdatePerBuild ==
  \E missed \in SUBSET DOMAIN updates :
    /\ Cardinality(missed) <= lost
    /\ \A u, x \in DOMAIN updates \ missed : u # x => updates[u].made \cap updates[x].made = {}
=============================================================================
