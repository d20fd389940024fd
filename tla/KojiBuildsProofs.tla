--------------------------- MODULE KojiBuildsProofs ---------------------------
(***************************************************************************)
(* Proofs about KojiBuilds, for any NVRs, branches of an event, events,    *)
(* retries, groups, targets and faults.                                    *)
(*                                                                         *)
(* A target is made "queued" before its task looks for others of the same  *)
(* NVR, so of two tasks the one that looks last sees the other one's       *)
(* target.  The invariant says that it still does: a claimed target has a  *)
(* status that the query looks for (RowTrue), which only its own task      *)
(* changes before the target has a task of Koji (Kept).                    *)
(*                                                                         *)
(* Without faults a target that is still to be built has a task that will  *)
(* work on it (Covered): the one of its group, which no other task has,    *)
(* either goes to the targets of the group, or has the target on its list. *)
(***************************************************************************)
EXTENDS KojiBuilds, FiniteSetTheorems, TLAPS

\* Steps in which a task works on one target.
Working == {"query", "ask", "skip", "pend", "submit", "save"}

\* A task has a group while it works on targets; it keeps one that it was given.
OwnGroup(e) ==
    /\ task[e].pc \in {"absent", "done"} => task[e].group = 0 /\ task[e].given = 0
    /\ task[e].pc \in Working \cup {"create", "loop", "mark", "retry"} => task[e].group # 0
    /\ task[e].pc \in {"mark", "retry"} => task[e].retries < MaxRetries
    /\ task[e].given \in {0, task[e].group}
    /\ task[e].group <= groups /\ task[e].cutoff <= groups

\* It works on the targets of this group ...
OwnTargets(e) ==
    /\ task[e].pc \in {"absent", "start", "group"} => task[e].todo = {}
    /\ task[e].pc \in Working => /\ task[e].row \in Rows
                                 /\ rows[task[e].row].status # "none"
                                 /\ rows[task[e].row].group = task[e].group
    /\ task[e].pc \in Working \cup {"create", "loop", "mark"} =>
          \A r \in task[e].todo : rows[r].status # "none" /\ rows[r].group = task[e].group

\* ... and cancels only what was there before the event.
OldTargets(e) ==
    /\ task[e].pc \in {"start", "cancelling", "mark cancel"} => cancelling
    /\ task[e].pc \in {"absent", "start", "cancelling"} => task[e].row = None
    /\ task[e].pc = "mark cancel" => /\ task[e].row \in Rows
                                     /\ rows[task[e].row].status # "none"
                                     /\ rows[task[e].row].group <= task[e].cutoff
    /\ task[e].pc \in {"cancelling", "mark cancel"} =>
          \A r \in task[e].todo : rows[r].status # "none" /\ rows[r].group <= task[e].cutoff

\* The task of Koji that it has just got is for its target.
OwnBuild(e) ==
    task[e].pc = "save" => /\ task[e].id \in KojiTasks
                           /\ koji[task[e].id].row = task[e].row
                           /\ koji[task[e].id].state # "none"

TaskTrue(e) == OwnGroup(e) /\ OwnTargets(e) /\ OldTargets(e) /\ OwnBuild(e)

TasksTrue == \A e \in Events : TaskTrue(e)

\* Events come in the order of their numbers.  A group is of one task, and newer
\* than the cutoff of its event and of earlier ones.
GroupsTrue ==
    /\ \A e, d \in Events : e < d /\ task[e].pc = "absent" => task[d].pc = "absent"
    /\ \A e, d \in Events :
          task[d].group # 0 => /\ e # d => task[e].group # task[d].group
                               /\ e <= d => task[d].group > task[e].cutoff

\* Before a target has a task of Koji, only the task that works on it and those
\* that cancel it change its status.
Kept ==
    \A e \in Events :
        task[e].pc \in Working /\ ~rows[task[e].row].again =>
            /\ rows[task[e].row].id = None
            /\ ~cancelling => rows[task[e].row].status \in Open

\* A target belongs to a group and to the task of Koji whose number it has; when
\* it waits for that task or has one that may succeed, the query finds it.
RowTrue(r) ==
    /\ rows[r].status = "none" => rows[r].id = None
    /\ rows[r].status # "none" => /\ rows[r].nvr \in Nvrs
                                  /\ rows[r].group # 0 /\ rows[r].group <= groups
    /\ rows[r].id # None => koji[rows[r].id].row = r /\ koji[rows[r].id].state # "none"
    /\ ~cancelling /\ ~rows[r].again /\ rows[r].id # None /\ koji[rows[r].id].state \in Live =>
          rows[r].status \in InProgress

RowsTrue == \A r \in Rows : RowTrue(r)

\* A task of Koji was accepted for an existing target.
KojiTrue ==
    \A k \in KojiTasks :
        koji[k].state # "none" => koji[k].row \in Rows /\ rows[koji[k].row].status # "none"

\* What a message says of a task of Koji is true, or was and the build has ended.
Said(k, state) ==
    /\ koji[k].state \notin {"none", "open"}
    /\ state = "complete" => koji[k].state \in {"complete", "deleted"}
    /\ state \in {"failed", "canceled", "deleted"} => koji[k].state = state

ReportsTrue == \A m \in reports : Said(m.id, m.state)

\* So is what a handler is about to store, in the target of that task.
HandlersTrue ==
    \A h \in storing :
        /\ Said(h.id, h.state)
        /\ koji[h.id].row = h.row
        /\ rows[h.row].status # "none"
        /\ rows[h.row].id # None
        /\ ~rows[h.row].again => rows[h.row].id = h.id

IInv == /\ TypeOK /\ TasksTrue /\ GroupsTrue /\ Kept /\ RowsTrue /\ KojiTrue
        /\ ReportsTrue /\ HandlersTrue /\ StatusTrue /\ OncePerNvr

\* A target that is open and has no task of Koji to wait for ...
Needy(r) == rows[r].status \in Open /\ ~(rows[r].status = "pending" /\ rows[r].id # None)

\* ... still has the task of its group before it: the task is going to read the
\* group, has the target on its list, works on it or marks it for a retry.
Covers(e, r) ==
    /\ task[e].group = rows[r].group
    /\ \/ task[e].pc \in {"start", "cancelling", "mark cancel", "group", "mark", "retry"}
       \/ task[e].pc = "loop" /\ r \in task[e].todo
       \/ task[e].pc \in Working /\ r \in task[e].todo \cup {task[e].row}

Covered ==
    faults = 0 /\ MaxBranches = 1 => \A r \in Rows : Needy(r) => \E e \in Events : Covers(e, r)

\* A target whose task is being made waits for it, or has been cancelled or reported.
Saved ==
    \A e \in Events :
        task[e].pc \in {"submit", "save"} => rows[task[e].row].status \notin {"queued", "retry"}

\* Events of one branch make one target each.
OneLeft ==
    MaxBranches = 1 =>
        \A e \in Events : /\ \A m, n \in task[e].nvrs : m = n
                          /\ \A m, n \in task[e].left : m = n

BInv == IInv /\ Saved /\ OneLeft /\ Covered

-----------------------------------------------------------------------------
(* Types                                                                   *)

LEMMA Constants ==
    /\ MaxBranches \in Nat /\ MaxEvents \in Nat /\ MaxRetries \in Nat /\ MaxGroups \in Nat
    /\ MaxRows \in Nat /\ MaxKoji \in Nat /\ MaxFaults \in Nat
    /\ None \notin Rows /\ None \notin KojiTasks /\ None = 0
    /\ Events \subseteq Nat /\ Rows \subseteq Nat /\ KojiTasks \subseteq Nat
  BY BoundsAssumption DEF Rows, KojiTasks, Events, None

\* The tasks that steps make.
LEMMA TaskTypes ==
    ASSUME NEW t \in Task
    PROVE  /\ Done \in Task
           /\ NextRow(t) \in Task
           /\ AfterCancel(t) \in Task
           /\ \A step \in Steps : [t EXCEPT !.pc = step] \in Task
           /\ \A S \in SUBSET Rows : /\ [t EXCEPT !.todo = S] \in Task
                                    /\ [t EXCEPT !.pc = "mark", !.todo = S] \in Task
<1>1. Done \in Task
  <2>0. 0 \in 0..MaxGroups /\ 0 \in 0..MaxRetries /\ "absent" \in Steps
    BY Constants DEF Steps
  <2>1. Absent \in Task
    BY <2>0 DEF Absent, Task
  <2> QED
    BY <2>1 DEF Done, Task, Steps
<1>2. NextRow(t) \in Task /\ AfterCancel(t) \in Task
  BY DEF NextRow, AfterCancel, Task, Steps
<1>3. ASSUME NEW step \in Steps PROVE [t EXCEPT !.pc = step] \in Task
  BY DEF Task
<1>4. ASSUME NEW S \in SUBSET Rows
      PROVE  [t EXCEPT !.todo = S] \in Task /\ [t EXCEPT !.pc = "mark", !.todo = S] \in Task
  BY DEF Task, Steps
<1> QED
  BY <1>1, <1>2, <1>3, <1>4

LEMMA FreshTypes ==
    ASSUME NEW t \in Task, NEW n \in 0..MaxGroups
    PROVE  /\ Fresh(t, n, t.retries) \in Task
           /\ t.retries < MaxRetries => Fresh(t, n, t.retries + 1) \in Task
<1>1. ASSUME NEW k \in 0..MaxRetries PROVE Fresh(t, n, k) \in Task
  BY DEF Fresh, Start, Task, Steps
<1>2. t.retries \in 0..MaxRetries
  BY DEF Task
<1>3. t.retries < MaxRetries => t.retries + 1 \in 0..MaxRetries
  BY <1>2, Constants
<1> QED
  BY <1>1, <1>2, <1>3

LEMMA StatusTypes ==
    ASSUME TypeOK, NEW r \in Rows, NEW status \in Status, SetStatus(r, status)
    PROVE  rows' \in [Rows -> Row]
  BY DEF TypeOK, SetStatus, Row

LEMMA AcceptTypes ==
    ASSUME TypeOK, NEW k \in KojiTasks, NEW r \in Rows, Accept(k, r)
    PROVE  koji' \in [KojiTasks -> Build]
<1>1. [state |-> "open", nvr |-> rows[r].nvr, row |-> r] \in Build
  BY DEF TypeOK, Row, Build
<1> QED
  BY <1>1 DEF TypeOK, Accept

\* The command failed.
LEMMA BuildFailsTypes ==
    ASSUME TypeOK, NEW e \in Events, task[e].row \in Rows, BuildFails(e)
    PROVE  task' \in [Events -> Task] /\ rows' \in [Rows -> Row]
<1>1. task[e] \in Task /\ Grouped(task[e].group) \in SUBSET Rows
  BY DEF TypeOK, Grouped
<1>2. CASE task[e].retries < MaxRetries
  <2>1. [task[e] EXCEPT !.pc = "mark", !.todo = Grouped(task[e].group)] \in Task
    BY <1>1, TaskTypes
  <2> QED
    BY <1>2, <2>1 DEF BuildFails, TypeOK
<1>3. CASE ~(task[e].retries < MaxRetries)
  BY <1>1, <1>3, TaskTypes, StatusTypes DEF BuildFails, TypeOK, Status, Final
<1> QED
  BY <1>2, <1>3

\* Triggering and cancelling ...
LEMMA TypeCancel ==
    ASSUME TypeOK, NEW e \in Events, TaskTrue(e),
           Cancel(e) \/ \E nvrs \in SUBSET Nvrs : Trigger(e, nvrs)
    PROVE  TypeOK'
<1>0. task[e] \in Task
  BY DEF TypeOK
<1>1. ASSUME NEW nvrs \in SUBSET Nvrs, Trigger(e, nvrs) PROVE TypeOK'
  <2>1. [task[e] EXCEPT !.pc = Start, !.nvrs = nvrs, !.cutoff = groups] \in Task
    BY <1>0 DEF TypeOK, Task, Start, Steps
  <2> QED
    BY <1>1, <2>1 DEF Trigger, TypeOK
<1>2. CASE CancelRead(e)
  <2>1. [task[e] EXCEPT !.todo = RunningJobs(task[e])] \in Task
    BY <1>0, TaskTypes DEF RunningJobs
  <2> QED
    BY <1>2, <2>1, TaskTypes DEF CancelRead, TypeOK
<1>3. ASSUME NEW r \in Rows, CancelInKoji(e, r) PROVE TypeOK'
  <2>1. [task[e] EXCEPT !.pc = "mark cancel", !.row = r, !.todo = task[e].todo \ {r}] \in Task
    BY <1>0 DEF Task, Steps
  <2>2. rows[r].id # None => rows[r].id \in KojiTasks
    BY DEF TypeOK, Row
  <2>3. koji' \in [KojiTasks -> Build] /\ reports' \subseteq [id : KojiTasks, state : States]
    BY <1>3, <2>2 DEF CancelInKoji, TypeOK, Build, States
  <2>4. task' = [task EXCEPT ![e] =
                    [task[e] EXCEPT !.pc = "mark cancel", !.row = r, !.todo = task[e].todo \ {r}]]
    BY <1>3 DEF CancelInKoji
  <2>5. UNCHANGED <<rows, groups, storing, cancelling, faults>>
    BY <1>3 DEF CancelInKoji
  <2> QED
    BY <2>1, <2>3, <2>4, <2>5 DEF TypeOK
<1>4. CASE CancelMark(e)
  <2>1. task[e].row \in Rows
    BY <1>4 DEF CancelMark, TaskTrue, OldTargets
  <2> QED
    BY <1>0, <1>4, <2>1, TaskTypes, StatusTypes DEF CancelMark, TypeOK, Status
<1> QED
  BY <1>1, <1>2, <1>3, <1>4 DEF Cancel

\* ... making the group ...
LEMMA TypeGroup == ASSUME TypeOK, NEW e \in Events, Group(e) PROVE TypeOK'
<1>0. task[e] \in Task
  BY DEF TypeOK
<1>1. CASE GetGroup(e)
  <2>1. [task[e] EXCEPT !.todo = Grouped(task[e].group)] \in Task
    BY <1>0, TaskTypes DEF Grouped
  <2> QED
    BY <1>1, <2>1, TaskTypes DEF GetGroup, TypeOK
<1>2. CASE CreateGroup(e)
  <2>1. groups + 1 \in 0..MaxGroups
    BY <1>2, Constants DEF CreateGroup, TypeOK
  <2>2. [task[e] EXCEPT !.pc = "create", !.group = groups + 1, !.left = task[e].nvrs] \in Task
    BY <1>0, <2>1 DEF Task, Steps
  <2> QED
    BY <1>2, <2>1, <2>2 DEF CreateGroup, TypeOK
<1>3. ASSUME NEW nvr \in Nvrs, CreateRow(e, nvr) PROVE TypeOK'
  <2>1. PICK r \in Rows :
          /\ rows' = [rows EXCEPT ![r] = [status |-> "queued", nvr |-> nvr, group |-> task[e].group,
                                          id |-> None, again |-> FALSE]]
          /\ task' = [task EXCEPT ![e] =
                [task[e] EXCEPT !.left = task[e].left \ {nvr}, !.todo = task[e].todo \cup {r},
                          !.pc = IF task[e].left = {nvr} THEN "loop" ELSE "create"]]
    BY <1>3 DEF CreateRow
  <2>2. [status |-> "queued", nvr |-> nvr, group |-> task[e].group, id |-> None, again |-> FALSE]
            \in Row
    BY <1>0 DEF Row, Task, Status, InProgress, Open
  <2>3. [task[e] EXCEPT !.left = task[e].left \ {nvr}, !.todo = task[e].todo \cup {r},
                        !.pc = IF task[e].left = {nvr} THEN "loop" ELSE "create"] \in Task
    BY <1>0 DEF Task, Steps
  <2>4. rows' \in [Rows -> Row] /\ task' \in [Events -> Task]
    BY <2>1, <2>2, <2>3 DEF TypeOK
  <2> QED
    BY <1>3, <2>4 DEF CreateRow, TypeOK
<1>4. CASE GroupFails(e)
  BY <1>0, <1>4, TaskTypes DEF GroupFails, TypeOK, Steps
<1> QED
  BY <1>1, <1>2, <1>3, <1>4 DEF Group

\* ... the loop over the targets ...
LEMMA TypeRun == ASSUME TypeOK, NEW e \in Events, TaskTrue(e), Run(e) PROVE TypeOK'
<1>0. task[e] \in Task /\ task[e].todo \subseteq Rows
  BY DEF TypeOK, Task
<1>1. ASSUME NEW r \in Rows, Skip(e, r) PROVE TypeOK'
  <2>1. [task[e] EXCEPT !.todo = task[e].todo \ {r}] \in Task
    BY <1>0 DEF Task
  <2>2. NextRow([task[e] EXCEPT !.todo = task[e].todo \ {r}]) \in Task
    BY <2>1, TaskTypes
  <2> QED
    BY <1>1, <2>1, <2>2 DEF Skip, TypeOK
<1>2. ASSUME NEW r \in Rows, Begin(e, r) PROVE TypeOK'
  <2>1. [task[e] EXCEPT !.pc = "query", !.row = r, !.todo = task[e].todo \ {r}] \in Task
    BY <1>0 DEF Task, Steps
  <2>2. rows' \in [Rows -> Row]
    BY <1>2, ZenonT(60) DEF Begin, TypeOK, Row
  <2>3. task' \in [Events -> Task]
    BY <1>2, <2>1 DEF Begin, TypeOK
  <2> QED
    BY <1>2, <2>2, <2>3 DEF Begin, TypeOK
<1>3. CASE Query(e) \/ Ask(e)
  BY <1>0, <1>3, TaskTypes DEF Query, Ask, TypeOK, Steps
<1>4. CASE SetSkipped(e) \/ SetPending(e)
  <2>1. task[e].row \in Rows
    BY <1>4 DEF SetSkipped, SetPending, TaskTrue, OwnTargets, OwnBuild, Working
  <2>2. rows' \in [Rows -> Row]
    BY <1>4, <2>1, StatusTypes DEF SetSkipped, SetPending, Status, InProgress, Open
  <2> QED
    BY <1>0, <1>4, <2>2, TaskTypes DEF SetSkipped, SetPending, TypeOK, Steps
<1>5. ASSUME NEW k \in KojiTasks, Submit(e, k) PROVE TypeOK'
  <2>1. task[e].row \in Rows
    BY <1>5 DEF Submit, TaskTrue, OwnTargets, OwnBuild, Working
  <2>2. [task[e] EXCEPT !.pc = "save", !.id = k] \in Task
    BY <1>0 DEF Task, Steps
  <2> QED
    BY <1>5, <2>1, <2>2, AcceptTypes DEF Submit, TypeOK
<1>6. CASE SetTaskId(e)
  <2>1. task[e].row \in Rows /\ task[e].id \in KojiTasks
    BY <1>6 DEF SetTaskId, TaskTrue, OwnTargets, OwnBuild, Working
  <2>2. rows' \in [Rows -> Row]
    BY <1>6, <2>1 DEF SetTaskId, TypeOK, Row
  <2> QED
    BY <1>0, <1>6, <2>2, TaskTypes DEF SetTaskId, TypeOK
<1>7. CASE SubmitFails(e)
  BY <1>7, BuildFailsTypes DEF SubmitFails, TaskTrue, OwnTargets, OwnBuild, Working, TypeOK
<1>8. ASSUME NEW k \in KojiTasks, AnswerLost(e, k) PROVE TypeOK'
  <2>1. task[e].row \in Rows
    BY <1>8 DEF AnswerLost, TaskTrue, OwnTargets, OwnBuild, Working
  <2>2. task' \in [Events -> Task] /\ rows' \in [Rows -> Row]
    BY <1>8, <2>1, BuildFailsTypes DEF AnswerLost
  <2>3. koji' \in [KojiTasks -> Build]
    BY <1>8, <2>1, AcceptTypes DEF AnswerLost
  <2> QED
    BY <1>8, <2>2, <2>3, Constants DEF AnswerLost, Fault, TypeOK
<1>9. ASSUME NEW r \in Rows, MarkRetry(e, r) PROVE TypeOK'
  <2>1. [task[e] EXCEPT !.todo = task[e].todo \ {r},
                        !.pc = IF task[e].todo = {r} THEN "retry" ELSE "mark"] \in Task
    BY <1>0 DEF Task, Steps
  <2>2. task' \in [Events -> Task]
    BY <1>9, <2>1 DEF MarkRetry, TypeOK
  <2>3. rows' \in [Rows -> Row]
    BY <1>9, StatusTypes DEF MarkRetry, Status, InProgress, Open
  <2> QED
    BY <1>9, <2>2, <2>3 DEF MarkRetry, TypeOK
<1>10. CASE Retry(e)
  <2>1. task[e].retries < MaxRetries /\ task[e].group \in 0..MaxGroups
    BY <1>0, <1>10 DEF Retry, TaskTrue, OwnGroup, Task
  <2>2. Fresh(task[e], task[e].group, task[e].retries + 1) \in Task
    BY <1>0, <2>1, FreshTypes
  <2> QED
    BY <1>10, <2>2 DEF Retry, TypeOK
<1>11. CASE Acknowledge(e)
  BY <1>0, <1>11, TaskTypes DEF Acknowledge, TypeOK
<1> QED
  BY <1>1, <1>2, <1>3, <1>4, <1>5, <1>6, <1>7, <1>8, <1>9, <1>10, <1>11 DEF Run

\* ... and everything else.
LEMMA TypeStep == TypeOK /\ TasksTrue /\ [Next]_vars => TypeOK'
<1> SUFFICES ASSUME TypeOK, TasksTrue, [Next]_vars PROVE TypeOK'
  OBVIOUS
<1>1. ASSUME NEW e \in Events,
             (\E nvrs \in SUBSET Nvrs : Trigger(e, nvrs)) \/ Cancel(e) \/ Group(e) \/ Run(e)
      PROVE  TypeOK'
  BY <1>1, TypeCancel, TypeGroup, TypeRun DEF TasksTrue
<1>2. ASSUME NEW e \in Events, Fail(e) PROVE TypeOK'
  <2>1. task[e] \in Task /\ task[e].given \in 0..MaxGroups
    BY DEF TypeOK, Task
  <2>2. /\ Done \in Task
        /\ Fresh(task[e], task[e].given, task[e].retries) \in Task
        /\ task[e].retries < MaxRetries =>
              Fresh(task[e], task[e].given, task[e].retries + 1) \in Task
    BY <2>1, TaskTypes, FreshTypes
  <2>3. task' \in [Events -> Task]
    BY <1>2, <2>2 DEF Fail, TypeOK
  <2> QED
    BY <1>2, <2>3, Constants DEF Fail, Fault, TypeOK
<1>3. ASSUME NEW k \in KojiTasks, KojiBegin(k) \/ KojiEnd(k) PROVE TypeOK'
  <2>1. koji' \in [KojiTasks -> Build]
    BY <1>3 DEF KojiBegin, KojiEnd, TypeOK, Build
  <2>2. reports' \subseteq [id : KojiTasks, state : States]
    BY <1>3 DEF KojiBegin, KojiEnd, TypeOK, States
  <2> QED
    BY <1>3, <2>1, <2>2 DEF KojiBegin, KojiEnd, TypeOK
<1>4. ASSUME NEW m \in reports, Take(m) PROVE TypeOK'
  <2>1. storing' \subseteq [row : Rows, id : KojiTasks, state : States]
    BY <1>4 DEF Take, ToStore, TypeOK
  <2> QED
    BY <1>4, <2>1 DEF Take, TypeOK
<1>5. ASSUME NEW h \in storing, Store(h) \/ StoreFails(h) PROVE TypeOK'
  <2>1. h.row \in Rows /\ h.id \in KojiTasks /\ h.state \in States
    BY DEF TypeOK
  <2>2. NewStatus(h.state) \in Status
    BY <2>1 DEF States, NewStatus, Status, InProgress, Open, Final
  <2>3. CASE Store(h)
    BY <2>1, <2>2, <2>3, StatusTypes DEF Store, TypeOK
  <2>4. CASE StoreFails(h)
    BY <2>1, <2>4, Constants DEF StoreFails, Fault, TypeOK
  <2> QED
    BY <1>5, <2>3, <2>4
<1>6. CASE UNCHANGED vars
  BY <1>6 DEF vars, TypeOK
<1> QED
  BY <1>1, <1>2, <1>3, <1>4, <1>5, <1>6 DEF Next

-----------------------------------------------------------------------------
(* What every step keeps                                                   *)

\* Targets stay, with their NVR and group; tasks of Koji stay, with their target,
\* and one that ended badly stays so; what was said of them stays true.
Frame ==
    /\ (cancelling' <=> cancelling)
    /\ groups <= groups'
    /\ \A r \in Rows :
          /\ rows[r].status # "none" => /\ rows'[r].status # "none"
                                        /\ rows'[r].nvr = rows[r].nvr
                                        /\ rows'[r].group = rows[r].group
                                        /\ rows[r].again => rows'[r].again
          /\ rows[r].id # None => /\ rows'[r].id # None
                                  /\ ~rows[r].again => rows'[r].id = rows[r].id
    /\ \A k \in KojiTasks :
          koji[k].state # "none" => /\ koji'[k].state # "none"
                                    /\ koji'[k].row = koji[k].row
                                    /\ koji'[k].state \in Live => koji[k].state \in Live
    /\ \A k \in KojiTasks, state \in States : Said(k, state) => Said(k, state)'

LEMMA FrameStep == IInv /\ TypeOK' /\ [Next]_vars => Frame
<1> SUFFICES ASSUME IInv, TypeOK', [Next]_vars PROVE Frame
  OBVIOUS
<1> USE DEF Said
<1>1. /\ TypeOK /\ TasksTrue /\ RowsTrue /\ KojiTrue
      /\ task \in [Events -> Task] /\ rows \in [Rows -> Row] /\ groups \in Nat
      /\ koji \in [KojiTasks -> Build]
  BY Constants DEF IInv, TypeOK
<1>2. ASSUME NEW r \in Rows, NEW status \in Status \ {"none"}, SetStatus(r, status),
             UNCHANGED <<groups, koji, cancelling>>
      PROVE  Frame
  BY <1>1, <1>2 DEF SetStatus, Frame
<1>3. ASSUME NEW r \in Rows, NEW k \in KojiTasks, Accept(k, r),
             rows' = rows \/ SetStatus(r, "error"), UNCHANGED <<groups, cancelling>>
      PROVE  Frame
  <2>1. /\ koji[k].state = "none"
        /\ \A l \in KojiTasks \ {k} : koji'[l] = koji[l]
    BY <1>1, <1>3 DEF Accept
  <2>2. /\ \A q \in Rows : /\ rows[q].status # "none" => rows'[q].status # "none"
                           /\ rows'[q].nvr = rows[q].nvr /\ rows'[q].group = rows[q].group
                           /\ rows'[q].again = rows[q].again /\ rows'[q].id = rows[q].id
    BY <1>1, <1>3 DEF SetStatus, Row
  <2> QED
    BY <1>1, <1>3, <2>1, <2>2 DEF Frame
<1>4. ASSUME NEW e \in Events, NEW nvrs \in SUBSET Nvrs, Trigger(e, nvrs) PROVE Frame
  BY <1>1, <1>4 DEF Trigger, Frame
<1>5. ASSUME NEW e \in Events, Cancel(e) PROVE Frame
  <2>1. CASE CancelRead(e)
    BY <1>1, <2>1 DEF CancelRead, Frame
  <2>2. CASE CancelMark(e)
    <3>1. task[e].row \in Rows /\ "canceled" \in Status \ {"none"}
      BY <1>1, <2>2 DEF CancelMark, TasksTrue, TaskTrue, OldTargets, Status
    <3> QED
      BY <1>2, <2>2, <3>1 DEF CancelMark
  <2>3. ASSUME NEW r \in Rows, CancelInKoji(e, r) PROVE Frame
    <3>1. rows' = rows /\ groups' = groups /\ (cancelling' <=> cancelling)
      BY <2>3 DEF CancelInKoji
    <3>2. \/ koji' = koji
          \/ /\ rows[r].id \in KojiTasks /\ koji[rows[r].id].state \in {"open", "building"}
             /\ koji' = [koji EXCEPT ![rows[r].id].state = "canceled"]
      BY <1>1, <2>3 DEF CancelInKoji, Row
    <3> QED
      BY <1>1, <3>1, <3>2 DEF Frame, Build, Live
  <2> QED
    BY <1>5, <2>1, <2>2, <2>3 DEF Cancel
<1>6. ASSUME NEW e \in Events, Group(e) PROVE Frame
  <2>1. CASE GetGroup(e) \/ CreateGroup(e) \/ GroupFails(e)
    BY <1>1, <2>1 DEF GetGroup, CreateGroup, GroupFails, Frame
  <2>2. ASSUME NEW nvr \in Nvrs, CreateRow(e, nvr) PROVE Frame
    <3>1. PICK r \in Rows :
            /\ rows[r].status = "none"
            /\ rows' = [rows EXCEPT ![r] = [status |-> "queued", nvr |-> nvr,
                                            group |-> task[e].group, id |-> None, again |-> FALSE]]
      BY <2>2 DEF CreateRow
    <3>2. rows[r].id = None
      BY <1>1, <3>1 DEF RowsTrue, RowTrue
    <3> QED
      BY <1>1, <2>2, <3>1, <3>2 DEF CreateRow, Frame
  <2> QED
    BY <1>6, <2>1, <2>2 DEF Group
<1>7. ASSUME NEW e \in Events, Run(e) PROVE Frame
  <2>0. task[e].pc \in Working => task[e].row \in Rows
    BY <1>1 DEF TasksTrue, TaskTrue, OwnTargets
  <2>1. ASSUME NEW r \in Rows, Skip(e, r) PROVE Frame
    BY <1>1, <2>1 DEF Skip, Frame
  <2>2. ASSUME NEW r \in Rows, Begin(e, r) PROVE Frame
    <3>1. rows' = [rows EXCEPT ![r] = [rows[r] EXCEPT !.again = rows'[r].again]]
      BY <1>1, <2>2 DEF Begin, Row
    <3>2. rows[r].again => rows'[r].again
      BY <1>1, <2>2 DEF Begin, Row
    <3> QED
      BY <1>1, <2>2, <3>1, <3>2 DEF Begin, Frame, Row
  <2>3. CASE Query(e) \/ Ask(e) \/ Retry(e) \/ Acknowledge(e)
    BY <1>1, <2>3 DEF Query, Ask, Retry, Acknowledge, Frame
  <2>4. CASE SetSkipped(e)
    BY <1>2, <2>0, <2>4 DEF SetSkipped, Working, Status
  <2>5. CASE SetPending(e)
    BY <1>2, <2>0, <2>5 DEF SetPending, Working, Status, InProgress, Open
  <2>6. ASSUME NEW k \in KojiTasks, Submit(e, k) PROVE Frame
    BY <1>3, <2>0, <2>6 DEF Submit, Working
  <2>7. CASE SetTaskId(e)
    <3>1. task[e].row \in Rows /\ task[e].id \in KojiTasks
      BY <1>1, <2>0, <2>7 DEF SetTaskId, TasksTrue, TaskTrue, OwnTargets, OwnBuild, Working
    <3>2. rows[task[e].row].id # None => rows[task[e].row].again
      BY <2>7 DEF SetTaskId, IInv, Kept, Working
    <3> QED
      BY <1>1, <2>7, <3>1, <3>2, Constants DEF SetTaskId, Frame, Row
  <2>8. CASE SubmitFails(e)
    <3>1. CASE UNCHANGED rows
      BY <1>1, <2>8, <3>1 DEF SubmitFails, Frame
    <3>2. CASE SetStatus(task[e].row, "error")
      BY <1>2, <2>0, <2>8, <3>2 DEF SubmitFails, Working, Status, Final
    <3> QED
      BY <2>8, <3>1, <3>2 DEF SubmitFails, BuildFails
  <2>9. ASSUME NEW k \in KojiTasks, AnswerLost(e, k) PROVE Frame
    BY <1>3, <2>0, <2>9 DEF AnswerLost, BuildFails, Working
  <2>10. ASSUME NEW r \in Rows, MarkRetry(e, r) PROVE Frame
    BY <1>2, <2>10 DEF MarkRetry, Status, InProgress, Open
  <2> QED
    BY <1>7, <2>1, <2>2, <2>3, <2>4, <2>5, <2>6, <2>7, <2>8, <2>9, <2>10 DEF Run
<1>8. ASSUME NEW e \in Events, Fail(e) PROVE Frame
  BY <1>1, <1>8 DEF Fail, Frame
<1>9. ASSUME NEW k \in KojiTasks, KojiBegin(k) \/ KojiEnd(k) PROVE Frame
  BY <1>1, <1>9, SMTT(40) DEF KojiBegin, KojiEnd, Frame, Build, Live
<1>10. ASSUME NEW m \in reports, Take(m) PROVE Frame
  BY <1>1, <1>10 DEF Take, Frame
<1>11. ASSUME NEW h \in storing, Store(h) \/ StoreFails(h) PROVE Frame
  <2>1. h.row \in Rows /\ NewStatus(h.state) \in Status \ {"none"}
    BY <1>1 DEF TypeOK, States, NewStatus, Status, InProgress, Open, Final
  <2> QED
    BY <1>1, <1>2, <1>11, <2>1 DEF Store, StoreFails, Frame
<1>12. CASE UNCHANGED vars
  BY <1>1, <1>12 DEF vars, Frame
<1> QED
  BY <1>4, <1>5, <1>6, <1>7, <1>8, <1>9, <1>10, <1>11, <1>12 DEF Next

-----------------------------------------------------------------------------
(* The tasks of the events                                                 *)

LEMMA TaskKept ==
    ASSUME TypeOK, TypeOK', Frame, NEW e \in Events, TaskTrue(e), task'[e] = task[e]
    PROVE  TaskTrue(e)'
<1>1. /\ task[e].todo \subseteq Rows /\ task[e].row \in Rows \cup {None}
      /\ task[e].group \in Nat /\ task[e].cutoff \in Nat
      /\ groups \in Nat /\ groups' \in Nat
  BY Constants DEF TypeOK, Task
<1>2. OwnGroup(e)'
  BY <1>1 DEF Frame, TaskTrue, OwnGroup
<1>3. OwnTargets(e)'
  BY <1>1 DEF Frame, TaskTrue, OwnTargets
<1>4. OldTargets(e)'
  BY <1>1 DEF Frame, TaskTrue, OldTargets
<1>5. OwnBuild(e)'
  BY DEF Frame, TaskTrue, OwnBuild
<1> QED
  BY <1>2, <1>3, <1>4, <1>5 DEF TaskTrue

\* A task that neither works on targets nor cancels them.
LEMMA TaskIdle ==
    ASSUME TypeOK, TypeOK', Frame, NEW e \in Events, TaskTrue(e),
           task'[e].pc \in {"start", "group", "end", "done", "retry"},
           task'[e].pc = "start" => cancelling /\ task'[e].row = None,
           task'[e].pc \in {"start", "group"} => task'[e].todo = {},
           OwnGroup(e)'
    PROVE  TaskTrue(e)'
<1>1. OwnTargets(e)' /\ OldTargets(e)' /\ OwnBuild(e)'
  BY DEF Frame, OwnTargets, OldTargets, OwnBuild, Working
<1> QED
  BY <1>1 DEF TaskTrue

\* A task that starts again, with its group or without, or is done.
LEMMA TaskFresh ==
    ASSUME TypeOK, TypeOK', Frame, NEW e \in Events, TaskTrue(e),
           \/ task'[e] = Done
           \/ \E n \in {0, task[e].group}, k \in 0..MaxRetries : task'[e] = Fresh(task[e], n, k)
    PROVE  TaskTrue(e)'
<1>1. /\ task[e] \in Task /\ task[e].group \in Nat /\ task[e].cutoff \in Nat
      /\ groups \in Nat /\ groups' \in Nat /\ groups <= groups'
  BY Constants DEF TypeOK, Task, Frame
<1>2. CASE task'[e] = Done
  <2>1. /\ task'[e].pc = "done" /\ task'[e].group = 0 /\ task'[e].given = 0 /\ task'[e].cutoff = 0
    BY <1>2 DEF Done, Absent
  <2>2. OwnGroup(e)'
    BY <1>1, <2>1 DEF OwnGroup, Working
  <2> QED
    BY <2>1, <2>2, TaskIdle
<1>3. ASSUME NEW n \in {0, task[e].group}, NEW k \in 0..MaxRetries,
             task'[e] = Fresh(task[e], n, k)
      PROVE  TaskTrue(e)'
  <2>1. /\ task'[e].pc = Start /\ task'[e].given = n /\ task'[e].group = n
        /\ task'[e].cutoff = task[e].cutoff /\ task'[e].row = None /\ task'[e].todo = {}
    BY <1>1, <1>3 DEF Fresh, Task
  <2>2. /\ task'[e].pc \in {"start", "group"}
        /\ task'[e].pc = "start" => cancelling
    BY <2>1 DEF Start
  <2>3. task[e].group <= groups /\ task[e].cutoff <= groups
    BY DEF TaskTrue, OwnGroup
  <2>4. n <= groups' /\ task[e].cutoff <= groups'
    BY <1>1, <2>3
  <2>5. OwnGroup(e)'
    BY <2>1, <2>2, <2>4 DEF OwnGroup, Working
  <2> QED
    BY <2>1, <2>2, <2>5, TaskIdle
<1> QED
  BY <1>2, <1>3

\* A task goes on with its group: only the step, the target and what is left change.
LEMMA TaskGroup ==
    ASSUME TypeOK, TypeOK', Frame, NEW e \in Events, OwnGroup(e),
           task'[e].pc \notin {"absent", "done"},
           task'[e].group = task[e].group, task'[e].given = task[e].given,
           task'[e].cutoff = task[e].cutoff, task'[e].retries = task[e].retries,
           task'[e].pc \in Working \cup {"create", "loop", "mark", "retry"} => task[e].group # 0,
           task'[e].pc \in {"mark", "retry"} => task[e].retries < MaxRetries
    PROVE  OwnGroup(e)'
<1>1. /\ task[e].group \in Nat /\ task[e].cutoff \in Nat
      /\ groups \in Nat /\ groups' \in Nat /\ groups <= groups'
  BY Constants DEF TypeOK, Task, Frame
<1> QED
  BY <1>1 DEF OwnGroup

\* Triggering and cancelling.
LEMMA TaskCancel ==
    ASSUME TypeOK, TypeOK', Frame, NEW e \in Events, TaskTrue(e),
           Cancel(e) \/ \E nvrs \in SUBSET Nvrs : Trigger(e, nvrs)
    PROVE  TaskTrue(e)'
<1>1. /\ task[e] \in Task /\ task[e].group \in Nat /\ task[e].cutoff \in Nat
      /\ task[e].todo \subseteq Rows
      /\ groups \in Nat /\ groups' \in Nat /\ task \in [Events -> Task]
  BY Constants DEF TypeOK, Task
<1>2. groups <= groups' /\ (cancelling' <=> cancelling)
  BY DEF Frame
<1>3. \A r \in Rows : rows[r].status # "none" =>
          rows'[r].status # "none" /\ rows'[r].group = rows[r].group
  BY DEF Frame
<1>4. ASSUME NEW nvrs \in SUBSET Nvrs, Trigger(e, nvrs) PROVE TaskTrue(e)'
  <2>1. /\ task[e].pc = "absent" /\ groups' = groups
        /\ task'[e] = [task[e] EXCEPT !.pc = Start, !.nvrs = nvrs, !.cutoff = groups]
    BY <1>1, <1>4 DEF Trigger
  <2>2. /\ task[e].row = None /\ task[e].group = 0 /\ task[e].given = 0
        /\ task[e].todo = {}
    BY <2>1 DEF TaskTrue, OldTargets, OwnTargets, OwnGroup
  <2>3. /\ task'[e].pc = Start /\ task'[e].row = None /\ task'[e].group = 0 /\ task'[e].given = 0
        /\ task'[e].cutoff = groups /\ task'[e].todo = {}
    BY <1>1, <2>1, <2>2 DEF Task
  <2>4. task'[e].pc \in {"start", "group"} /\ (task'[e].pc = "start" => cancelling)
    BY <2>3 DEF Start
  <2>5. OwnGroup(e)'
    BY <1>1, <2>1, <2>3, <2>4 DEF OwnGroup, Working
  <2> QED
    BY <2>3, <2>4, <2>5, TaskIdle
<1>5. ASSUME task[e].pc \in {"start", "mark cancel"}, NEW S \in SUBSET Rows,
             task'[e] = AfterCancel([task[e] EXCEPT !.todo = S]),
             \A r \in S : rows[r].status # "none" /\ rows[r].group <= task[e].cutoff
      PROVE  TaskTrue(e)'
  <2>1. /\ task'[e].pc \in {"group", "cancelling"} /\ task'[e].row = None
        /\ task'[e].pc = "group" => S = {}
        /\ task'[e].todo = S /\ task'[e].group = task[e].group /\ task'[e].given = task[e].given
        /\ task'[e].cutoff = task[e].cutoff /\ task'[e].retries = task[e].retries
    BY <1>1, <1>5 DEF AfterCancel, Task
  <2>2. cancelling
    BY <1>5 DEF TaskTrue, OldTargets
  <2>3. OwnGroup(e)'
    BY <2>1, TaskGroup DEF TaskTrue, Working
  <2>4. OldTargets(e)'
    BY <1>2, <1>3, <1>5, <2>1, <2>2 DEF OldTargets
  <2>5. OwnTargets(e)' /\ OwnBuild(e)'
    BY <2>1 DEF OwnTargets, OwnBuild, Working
  <2> QED
    BY <2>3, <2>4, <2>5 DEF TaskTrue
<1>6. CASE CancelRead(e)
  <2>1. RunningJobs(task[e]) \in SUBSET Rows
    BY DEF RunningJobs
  <2>2. \A r \in RunningJobs(task[e]) : rows[r].status # "none" /\ rows[r].group <= task[e].cutoff
    BY DEF RunningJobs, Running
  <2>3. task'[e] = AfterCancel([task[e] EXCEPT !.todo = RunningJobs(task[e])])
    BY <1>1, <1>6 DEF CancelRead
  <2> QED
    BY <1>5, <1>6, <2>1, <2>2, <2>3 DEF CancelRead
<1>7. CASE CancelMark(e)
  <2>1. task'[e] = AfterCancel([task[e] EXCEPT !.todo = task[e].todo])
    BY <1>1, <1>7 DEF CancelMark, AfterCancel, Task
  <2>2. \A r \in task[e].todo : rows[r].status # "none" /\ rows[r].group <= task[e].cutoff
    BY <1>7 DEF CancelMark, TaskTrue, OldTargets
  <2> QED
    BY <1>1, <1>5, <1>7, <2>1, <2>2 DEF CancelMark
<1>8. ASSUME NEW r \in Rows, CancelInKoji(e, r) PROVE TaskTrue(e)'
  <2>1. /\ task[e].pc = "cancelling" /\ r \in task[e].todo
        /\ task'[e] = [task[e] EXCEPT !.pc = "mark cancel", !.row = r, !.todo = task[e].todo \ {r}]
    BY <1>1, <1>8 DEF CancelInKoji
  <2>2. /\ task'[e].pc = "mark cancel" /\ task'[e].row = r /\ task'[e].todo \subseteq task[e].todo
        /\ task'[e].group = task[e].group /\ task'[e].given = task[e].given
        /\ task'[e].cutoff = task[e].cutoff /\ task'[e].retries = task[e].retries
    BY <1>1, <2>1 DEF Task
  <2>3. /\ cancelling
        /\ \A q \in task[e].todo : rows[q].status # "none" /\ rows[q].group <= task[e].cutoff
    BY <2>1 DEF TaskTrue, OldTargets
  <2>4. OwnGroup(e)'
    BY <2>2, TaskGroup DEF TaskTrue, Working
  <2>5. OldTargets(e)'
    BY <1>1, <1>2, <1>3, <2>1, <2>2, <2>3 DEF OldTargets
  <2>6. OwnTargets(e)' /\ OwnBuild(e)'
    BY <2>2 DEF OwnTargets, OwnBuild, Working
  <2> QED
    BY <2>4, <2>5, <2>6 DEF TaskTrue
<1> QED
  BY <1>4, <1>6, <1>7, <1>8 DEF Cancel

\* A task goes on to another target of its group, or ends.
LEMMA TaskNext ==
    ASSUME TypeOK, TypeOK', Frame, NEW e \in Events, TaskTrue(e), task[e].group # 0,
           task[e].pc \notin {"absent", "done"}, NEW S \in SUBSET Rows,
           \A r \in S : rows[r].status # "none" /\ rows[r].group = task[e].group,
           task'[e] = NextRow([task[e] EXCEPT !.todo = S])
    PROVE  TaskTrue(e)'
<1>1. /\ task'[e].pc \in {"end", "loop"} /\ task'[e].todo = S
      /\ task'[e].group = task[e].group /\ task'[e].given = task[e].given
      /\ task'[e].cutoff = task[e].cutoff /\ task'[e].retries = task[e].retries
  BY DEF NextRow, TypeOK, Task
<1>2. OwnGroup(e)'
  BY <1>1, TaskGroup DEF TaskTrue
<1>3. OwnTargets(e)'
  BY <1>1 DEF OwnTargets, Frame, Working
<1>4. OldTargets(e)' /\ OwnBuild(e)'
  BY <1>1 DEF OldTargets, OwnBuild
<1> QED
  BY <1>2, <1>3, <1>4 DEF TaskTrue

\* Making the group.
LEMMA TaskGroups ==
    ASSUME TypeOK, TypeOK', Frame, NEW e \in Events, TaskTrue(e), Group(e)
    PROVE  TaskTrue(e)'
<1>1. /\ task[e] \in Task /\ task[e].cutoff \in Nat /\ groups \in Nat
      /\ task[e].todo \subseteq Rows /\ task \in [Events -> Task]
  BY Constants DEF TypeOK, Task
<1>2. CASE GetGroup(e)
  <2>1. Grouped(task[e].group) \in SUBSET Rows
    BY DEF Grouped
  <2>2. \A r \in Grouped(task[e].group) : rows[r].status # "none" /\ rows[r].group = task[e].group
    BY DEF Grouped
  <2>3. /\ task[e].group # 0 /\ task[e].pc = "group"
        /\ task'[e] = NextRow([task[e] EXCEPT !.todo = Grouped(task[e].group)])
    BY <1>1, <1>2 DEF GetGroup, None
  <2> QED
    BY <2>1, <2>2, <2>3, TaskNext
<1>3. CASE CreateGroup(e)
  <2>1. /\ groups' = groups + 1 /\ task[e].group = 0
        /\ task'[e] = [task[e] EXCEPT !.pc = "create", !.group = groups + 1, !.left = task[e].nvrs]
    BY <1>1, <1>3 DEF CreateGroup, None
  <2>2. task[e].given = 0 /\ task[e].cutoff <= groups
    BY <2>1 DEF TaskTrue, OwnGroup
  <2>3. /\ task'[e].pc = "create" /\ task'[e].group = groups + 1 /\ task'[e].given = 0
        /\ task'[e].cutoff = task[e].cutoff /\ task'[e].todo = task[e].todo
    BY <1>1, <2>1, <2>2 DEF Task
  <2>4. OwnGroup(e)'
    BY <1>1, <2>1, <2>2, <2>3 DEF OwnGroup
  <2>5. OldTargets(e)' /\ OwnBuild(e)'
    BY <2>3 DEF OldTargets, OwnBuild
  <2>6. task[e].todo = {}
    BY <1>3 DEF CreateGroup, TaskTrue, OwnTargets
  <2>7. OwnTargets(e)'
    BY <2>3, <2>6 DEF OwnTargets, Working
  <2> QED
    BY <2>4, <2>5, <2>7 DEF TaskTrue
<1>4. ASSUME NEW nvr \in Nvrs, CreateRow(e, nvr) PROVE TaskTrue(e)'
  <2>1. PICK r \in Rows :
          /\ rows' = [rows EXCEPT ![r] = [status |-> "queued", nvr |-> nvr, group |-> task[e].group,
                                          id |-> None, again |-> FALSE]]
          /\ task'[e] = [task[e] EXCEPT !.left = task[e].left \ {nvr},
                                        !.todo = task[e].todo \cup {r},
                                        !.pc = IF task[e].left = {nvr} THEN "loop" ELSE "create"]
    BY <1>1, <1>4 DEF CreateRow
  <2>2. /\ task[e].pc = "create" /\ task'[e].pc \in {"loop", "create"}
        /\ task'[e].todo = task[e].todo \cup {r}
        /\ task'[e].group = task[e].group /\ task'[e].given = task[e].given
        /\ task'[e].cutoff = task[e].cutoff /\ task'[e].retries = task[e].retries
    BY <1>1, <1>4, <2>1 DEF Task, CreateRow
  <2>3. /\ task[e].group # 0
        /\ \A q \in task[e].todo : rows[q].status # "none" /\ rows[q].group = task[e].group
    BY <2>2 DEF TaskTrue, OwnGroup, OwnTargets
  <2>4. rows'[r].status = "queued" /\ rows'[r].group = task[e].group
    BY <2>1 DEF TypeOK
  <2>5. OwnGroup(e)'
    BY <2>2, <2>3, TaskGroup DEF TaskTrue
  <2>6. OwnTargets(e)'
    BY <1>1, <2>2, <2>3, <2>4 DEF OwnTargets, Frame, Working
  <2>7. OldTargets(e)' /\ OwnBuild(e)'
    BY <2>2 DEF OldTargets, OwnBuild
  <2> QED
    BY <2>5, <2>6, <2>7 DEF TaskTrue
<1>5. CASE GroupFails(e)
  <2>1. task[e].pc = "create" /\ task'[e] = [task[e] EXCEPT !.pc = "end"]
    BY <1>1, <1>5 DEF GroupFails
  <2>2. /\ task'[e].pc = "end"
        /\ task'[e].group = task[e].group /\ task'[e].given = task[e].given
        /\ task'[e].cutoff = task[e].cutoff /\ task'[e].retries = task[e].retries
    BY <1>1, <2>1 DEF Task
  <2>3. OwnGroup(e)'
    BY <2>2, TaskGroup DEF TaskTrue, Working
  <2> QED
    BY <2>2, <2>3, TaskIdle
<1> QED
  BY <1>2, <1>3, <1>4, <1>5 DEF Group

\* The loop over the targets.
LEMMA TaskRun ==
    ASSUME TypeOK, TypeOK', Frame, NEW e \in Events, TaskTrue(e), Run(e)
    PROVE  TaskTrue(e)'
<1>1. /\ task[e] \in Task /\ task[e].todo \in SUBSET Rows /\ task \in [Events -> Task]
      /\ task[e].retries \in Nat
  BY Constants DEF TypeOK, Task
<1>2. task[e].pc \in Working \cup {"loop", "mark"} =>
          /\ task[e].group # 0
          /\ task[e].pc \in Working => task[e].row \in Rows
          /\ \A q \in task[e].todo : rows[q].status # "none" /\ rows[q].group = task[e].group
          /\ task[e].pc \in Working => /\ rows[task[e].row].status # "none"
                                       /\ rows[task[e].row].group = task[e].group
  BY DEF TaskTrue, OwnGroup, OwnTargets
<1>3. ASSUME task[e].pc \in Working, task'[e] = NextRow(task[e]) PROVE TaskTrue(e)'
  <2>1. task'[e] = NextRow([task[e] EXCEPT !.todo = task[e].todo])
    BY <1>1, <1>3 DEF Task
  <2> QED
    BY <1>1, <1>2, <1>3, <2>1, TaskNext DEF Working
<1>4. ASSUME task[e].pc \in Working, BuildFails(e) PROVE TaskTrue(e)'
  <2>1. CASE task[e].retries < MaxRetries
    <3>1. /\ Grouped(task[e].group) \in SUBSET Rows
          /\ \A q \in Grouped(task[e].group) :
                rows[q].status # "none" /\ rows[q].group = task[e].group
      BY DEF Grouped
    <3>2. task'[e] = [task[e] EXCEPT !.pc = "mark", !.todo = Grouped(task[e].group)]
      BY <1>1, <1>4, <2>1 DEF BuildFails
    <3>3. /\ task'[e].pc = "mark" /\ task'[e].todo = Grouped(task[e].group)
          /\ task'[e].group = task[e].group /\ task'[e].given = task[e].given
          /\ task'[e].cutoff = task[e].cutoff /\ task'[e].retries = task[e].retries
      BY <1>1, <3>2 DEF Task
    <3>4. OwnGroup(e)'
      BY <1>2, <1>4, <2>1, <3>3, TaskGroup DEF TaskTrue
    <3>5. OwnTargets(e)'
      BY <3>1, <3>3 DEF OwnTargets, Frame, Working
    <3>6. OldTargets(e)' /\ OwnBuild(e)'
      BY <3>3 DEF OldTargets, OwnBuild
    <3> QED
      BY <3>4, <3>5, <3>6 DEF TaskTrue
  <2>2. CASE ~(task[e].retries < MaxRetries)
    <3>1. task'[e] = NextRow(task[e])
      BY <1>1, <1>4, <2>2 DEF BuildFails
    <3> QED
      BY <1>3, <1>4, <3>1
  <2> QED
    BY <2>1, <2>2
<1>5. ASSUME task[e].pc \in Working, NEW step \in Working,
             task'[e] = [task[e] EXCEPT !.pc = step], step = "save" => FALSE
      PROVE  TaskTrue(e)'
  <2>1. /\ task'[e].pc = step /\ task'[e].todo = task[e].todo /\ task'[e].row = task[e].row
        /\ task'[e].group = task[e].group /\ task'[e].given = task[e].given
        /\ task'[e].cutoff = task[e].cutoff /\ task'[e].retries = task[e].retries
    BY <1>1, <1>5 DEF Task
  <2>2. OwnGroup(e)'
    BY <1>2, <1>5, <2>1, TaskGroup DEF TaskTrue, Working
  <2>3. OwnTargets(e)'
    BY <1>1, <1>2, <1>5, <2>1 DEF OwnTargets, Frame, Working
  <2>4. OldTargets(e)' /\ OwnBuild(e)'
    BY <1>5, <2>1 DEF OldTargets, OwnBuild, Working
  <2> QED
    BY <2>2, <2>3, <2>4 DEF TaskTrue
<1>6. ASSUME NEW r \in Rows, Skip(e, r) PROVE TaskTrue(e)'
  <2>1. /\ task[e].pc = "loop" /\ task[e].todo \ {r} \in SUBSET Rows
        /\ task'[e] = NextRow([task[e] EXCEPT !.todo = task[e].todo \ {r}])
    BY <1>1, <1>6 DEF Skip
  <2> QED
    BY <1>2, <2>1, TaskNext
<1>7. ASSUME NEW r \in Rows, Begin(e, r) PROVE TaskTrue(e)'
  <2>1. /\ task[e].pc = "loop" /\ r \in task[e].todo
        /\ task'[e] = [task[e] EXCEPT !.pc = "query", !.row = r, !.todo = task[e].todo \ {r}]
    BY <1>1, <1>7 DEF Begin
  <2>2. /\ task'[e].pc = "query" /\ task'[e].todo \subseteq task[e].todo /\ task'[e].row = r
        /\ task'[e].group = task[e].group /\ task'[e].given = task[e].given
        /\ task'[e].cutoff = task[e].cutoff /\ task'[e].retries = task[e].retries
    BY <1>1, <2>1 DEF Task
  <2>3. OwnGroup(e)'
    BY <1>2, <2>1, <2>2, TaskGroup DEF TaskTrue
  <2>4. OwnTargets(e)'
    BY <1>1, <1>2, <2>1, <2>2 DEF OwnTargets, Frame, Working
  <2>5. OldTargets(e)' /\ OwnBuild(e)'
    BY <2>2 DEF OldTargets, OwnBuild
  <2> QED
    BY <2>3, <2>4, <2>5 DEF TaskTrue
<1>8. CASE Query(e) \/ Ask(e) \/ SetPending(e)
  <2>1. task[e].pc \in Working
    BY <1>8 DEF Query, Ask, SetPending, Working
  <2>2. task'[e] \in {[task[e] EXCEPT !.pc = step] : step \in {"ask", "skip", "pend", "submit"}}
    BY <1>1, <1>8 DEF Query, Ask, SetPending
  <2> QED
    BY <1>5, <2>1, <2>2 DEF Working
<1>9. CASE SetSkipped(e) \/ SetTaskId(e)
  BY <1>1, <1>3, <1>9 DEF SetSkipped, SetTaskId, Working
<1>10. ASSUME NEW k \in KojiTasks, Submit(e, k) PROVE TaskTrue(e)'
  <2>1. /\ task[e].pc = "submit"
        /\ task'[e] = [task[e] EXCEPT !.pc = "save", !.id = k]
        /\ koji'[k].state = "open" /\ koji'[k].row = task[e].row
    BY <1>1, <1>10 DEF Submit, Accept, TypeOK
  <2>2. /\ task'[e].pc = "save" /\ task'[e].id = k /\ task'[e].todo = task[e].todo
        /\ task'[e].row = task[e].row
        /\ task'[e].group = task[e].group /\ task'[e].given = task[e].given
        /\ task'[e].cutoff = task[e].cutoff /\ task'[e].retries = task[e].retries
    BY <1>1, <2>1 DEF Task
  <2>3. OwnGroup(e)'
    BY <1>2, <2>1, <2>2, TaskGroup DEF TaskTrue, Working
  <2>4. OwnTargets(e)'
    BY <1>1, <1>2, <2>1, <2>2 DEF OwnTargets, Frame, Working
  <2>5. OldTargets(e)' /\ OwnBuild(e)'
    BY <2>1, <2>2 DEF OldTargets, OwnBuild
  <2> QED
    BY <2>3, <2>4, <2>5 DEF TaskTrue
<1>11. ASSUME SubmitFails(e) \/ \E k \in KojiTasks : AnswerLost(e, k) PROVE TaskTrue(e)'
  BY <1>4, <1>11 DEF SubmitFails, AnswerLost, Working
<1>12. ASSUME NEW r \in Rows, MarkRetry(e, r) PROVE TaskTrue(e)'
  <2>1. /\ task[e].pc = "mark"
        /\ task'[e] = [task[e] EXCEPT !.todo = task[e].todo \ {r},
                                      !.pc = IF task[e].todo = {r} THEN "retry" ELSE "mark"]
    BY <1>1, <1>12 DEF MarkRetry
  <2>2. /\ task'[e].pc \in {"mark", "retry"} /\ task'[e].todo \subseteq task[e].todo
        /\ task'[e].group = task[e].group /\ task'[e].given = task[e].given
        /\ task'[e].cutoff = task[e].cutoff /\ task'[e].retries = task[e].retries
    BY <1>1, <2>1 DEF Task
  <2>3. task[e].retries < MaxRetries
    BY <2>1 DEF TaskTrue, OwnGroup
  <2>4. OwnGroup(e)'
    BY <1>2, <2>1, <2>2, <2>3, TaskGroup DEF TaskTrue, Working
  <2>5. OwnTargets(e)'
    BY <1>1, <1>2, <2>1, <2>2 DEF OwnTargets, Frame, Working
  <2>6. OldTargets(e)' /\ OwnBuild(e)'
    BY <2>2 DEF OldTargets, OwnBuild
  <2> QED
    BY <2>4, <2>5, <2>6 DEF TaskTrue
<1>13. CASE Retry(e)
  <2>1. task[e].retries < MaxRetries
    BY <1>13 DEF Retry, TaskTrue, OwnGroup
  <2>2. task[e].retries + 1 \in 0..MaxRetries
    BY <1>1, <2>1, Constants
  <2>3. task'[e] = Fresh(task[e], task[e].group, task[e].retries + 1)
    BY <1>1, <1>13 DEF Retry
  <2> QED
    BY <2>2, <2>3, TaskFresh
<1>14. CASE Acknowledge(e)
  BY <1>1, <1>14, TaskFresh DEF Acknowledge
<1> QED
  BY <1>6, <1>7, <1>8, <1>9, <1>10, <1>11, <1>12, <1>13, <1>14 DEF Run

\* A step of one task changes no other.
LEMMA OtherTasks ==
    ASSUME TypeOK, NEW e \in Events, NEW d \in Events \ {e},
           (\E nvrs \in SUBSET Nvrs : Trigger(e, nvrs)) \/ Cancel(e) \/ Group(e) \/ Run(e) \/ Fail(e)
    PROVE  task'[d] = task[d]
BY DEF TypeOK, Trigger, Cancel, CancelRead, CancelInKoji, CancelMark, Group, GetGroup, CreateGroup,
   CreateRow, GroupFails, Run, Skip, Begin, Query, Ask, SetSkipped, SetPending, Submit, SetTaskId,
   SubmitFails, AnswerLost, BuildFails, MarkRetry, Retry, Acknowledge, Fail

LEMMA TaskStep == IInv /\ TypeOK' /\ Frame /\ [Next]_vars => TasksTrue'
<1> SUFFICES ASSUME IInv, TypeOK', Frame, [Next]_vars, NEW d \in Events PROVE TaskTrue(d)'
  BY DEF TasksTrue
<1>1. TypeOK /\ TaskTrue(d) /\ task \in [Events -> Task]
  BY DEF IInv, TasksTrue, TypeOK
<1>2. ASSUME NEW e \in Events,
             (\E nvrs \in SUBSET Nvrs : Trigger(e, nvrs)) \/ Cancel(e) \/ Group(e) \/ Run(e) \/ Fail(e)
      PROVE  TaskTrue(d)'
  <2>1. CASE d # e
    BY <1>1, <1>2, <2>1, OtherTasks, TaskKept
  <2>2. CASE d = e /\ Fail(e)
    <3>1. task[e].given \in {0, task[e].group} /\ task[e].retries \in 0..MaxRetries
      BY <1>1, <2>2 DEF TaskTrue, OwnGroup, Task
    <3>2. task[e].retries < MaxRetries => task[e].retries + 1 \in 0..MaxRetries
      BY <3>1, Constants
    <3>3. \/ task'[e] = Done
          \/ \E k \in 0..MaxRetries : task'[e] = Fresh(task[e], task[e].given, k)
      BY <1>1, <2>2, <3>1, <3>2 DEF Fail
    <3> QED
      BY <1>1, <2>2, <3>1, <3>3, TaskFresh
  <2> QED
    BY <1>1, <1>2, <2>1, <2>2, TaskCancel, TaskGroups, TaskRun
<1>3. CASE task' = task
  BY <1>1, <1>3, TaskKept
<1> QED
  BY <1>2, <1>3 DEF Next, KojiBegin, KojiEnd, Take, Store, StoreFails, vars

\* Only its event gives a task a cutoff, and only making a group gives it one.
LEMMA SameGroup ==
    ASSUME TypeOK, TasksTrue, NEW e \in Events,
           \/ Cancel(e) \/ Run(e) \/ Fail(e) \/ GetGroup(e) \/ GroupFails(e)
           \/ \E nvr \in Nvrs : CreateRow(e, nvr)
    PROVE  /\ task[e].pc # "absent" /\ task'[e].pc # "absent"
           /\ task'[e].group \in {0, task[e].group}
           /\ task'[e].cutoff \in {0, task[e].cutoff}
<1>1. task[e] \in Task /\ task \in [Events -> Task] /\ task[e].given \in {0, task[e].group}
  BY DEF TypeOK, TasksTrue, TaskTrue, OwnGroup
<1> DEFINE Same(t) == /\ t.pc # "absent" /\ t.group = task[e].group /\ t.cutoff = task[e].cutoff
           Goal == /\ task[e].pc # "absent" /\ task'[e].pc # "absent"
                   /\ task'[e].group \in {0, task[e].group}
                   /\ task'[e].cutoff \in {0, task[e].cutoff}
<1>2. Done.pc # "absent" /\ Done.group = 0 /\ Done.cutoff = 0
  BY DEF Done, Absent
<1>3. ASSUME NEW n \in {0, task[e].group}, NEW k \in Nat
      PROVE  /\ Fresh(task[e], n, k).pc # "absent" /\ Fresh(task[e], n, k).group = n
             /\ Fresh(task[e], n, k).cutoff = task[e].cutoff
  BY <1>1 DEF Fresh, Start, Task
<1>4. ASSUME NEW S \in SUBSET Rows
      PROVE  Same(NextRow([task[e] EXCEPT !.todo = S])) /\ Same(AfterCancel([task[e] EXCEPT !.todo = S]))
  BY <1>1 DEF NextRow, AfterCancel, Task
<1>5. Same(NextRow(task[e])) /\ Same(AfterCancel(task[e]))
  BY <1>1 DEF NextRow, AfterCancel, Task
<1>6. CASE Cancel(e)
  <2>1. RunningJobs(task[e]) \in SUBSET Rows
    BY DEF RunningJobs
  <2>2. CASE CancelRead(e) \/ CancelMark(e)
    BY <1>1, <1>4, <1>5, <2>1, <2>2 DEF CancelRead, CancelMark
  <2>3. ASSUME NEW r \in Rows, CancelInKoji(e, r) PROVE Goal
    <3>1. /\ task[e].pc = "cancelling"
          /\ task'[e] = [task[e] EXCEPT !.pc = "mark cancel", !.row = r, !.todo = task[e].todo \ {r}]
      BY <1>1, <2>3 DEF CancelInKoji
    <3> QED
      BY <1>1, <3>1 DEF Task
  <2> QED
    BY <1>6, <2>2, <2>3 DEF Cancel
<1>7. CASE GetGroup(e) \/ GroupFails(e)
  <2>1. Grouped(task[e].group) \in SUBSET Rows
    BY DEF Grouped
  <2> QED
    BY <1>1, <1>4, <1>7, <2>1 DEF GetGroup, GroupFails, Task
<1>8. ASSUME NEW nvr \in Nvrs, CreateRow(e, nvr) PROVE Goal
  <2>1. PICK r \in Rows :
          task'[e] = [task[e] EXCEPT !.left = task[e].left \ {nvr},
                                     !.todo = task[e].todo \cup {r},
                                     !.pc = IF task[e].left = {nvr} THEN "loop" ELSE "create"]
    BY <1>1, <1>8 DEF CreateRow
  <2>2. task[e].pc = "create"
    BY <1>8 DEF CreateRow
  <2> QED
    BY <1>1, <2>1, <2>2 DEF Task
<1>9. CASE Run(e)
  <2>1. ASSUME NEW r \in Rows, Skip(e, r) PROVE Goal
    <3>1. /\ task[e].pc = "loop" /\ task[e].todo \ {r} \in SUBSET Rows
          /\ task'[e] = NextRow([task[e] EXCEPT !.todo = task[e].todo \ {r}])
      BY <1>1, <2>1 DEF Skip, Task
    <3> QED
      BY <1>4, <3>1
  <2>2. ASSUME NEW r \in Rows, Begin(e, r) PROVE Goal
    <3>1. /\ task[e].pc = "loop"
          /\ task'[e] = [task[e] EXCEPT !.pc = "query", !.row = r, !.todo = task[e].todo \ {r}]
      BY <1>1, <2>2 DEF Begin
    <3> QED
      BY <1>1, <3>1 DEF Task
  <2>3. ASSUME NEW r \in Rows, MarkRetry(e, r) PROVE Goal
    <3>1. /\ task[e].pc = "mark"
          /\ task'[e] = [task[e] EXCEPT !.todo = task[e].todo \ {r},
                                        !.pc = IF task[e].todo = {r} THEN "retry" ELSE "mark"]
      BY <1>1, <2>3 DEF MarkRetry
    <3> QED
      BY <1>1, <3>1 DEF Task
  <2>4. CASE Query(e) \/ Ask(e) \/ SetPending(e)
    BY <1>1, <2>4 DEF Query, Ask, SetPending, Task
  <2>5. CASE SetSkipped(e) \/ SetTaskId(e)
    BY <1>1, <1>5, <2>5 DEF SetSkipped, SetTaskId
  <2>6. ASSUME NEW k \in KojiTasks, Submit(e, k) PROVE Goal
    <3>1. task[e].pc = "submit" /\ task'[e] = [task[e] EXCEPT !.pc = "save", !.id = k]
      BY <1>1, <2>6 DEF Submit
    <3> QED
      BY <1>1, <3>1 DEF Task
  <2>7. ASSUME SubmitFails(e) \/ \E k \in KojiTasks : AnswerLost(e, k) PROVE Goal
    <3>1. task[e].pc = "submit" /\ BuildFails(e)
      BY <2>7 DEF SubmitFails, AnswerLost
    <3>2. \/ task'[e] = NextRow(task[e])
          \/ task'[e] = [task[e] EXCEPT !.pc = "mark", !.todo = Grouped(task[e].group)]
      BY <1>1, <3>1 DEF BuildFails
    <3> QED
      BY <1>1, <1>5, <3>1, <3>2 DEF Task
  <2>8. CASE Retry(e) \/ Acknowledge(e)
    <3>1. task[e].retries + 1 \in Nat
      BY <1>1, Constants DEF Task
    <3> QED
      BY <1>1, <1>2, <1>3, <2>8, <3>1 DEF Retry, Acknowledge
  <2> QED
    BY <1>9, <2>1, <2>2, <2>3, <2>4, <2>5, <2>6, <2>7, <2>8 DEF Run
<1>10. CASE Fail(e)
  <2>1. task[e].retries \in Nat /\ task[e].retries + 1 \in Nat
    BY <1>1, Constants DEF Task
  <2> QED
    BY <1>1, <1>2, <1>3, <1>10, <2>1 DEF Fail
<1> QED
  BY <1>6, <1>7, <1>8, <1>9, <1>10

LEMMA GroupStep == IInv /\ TypeOK' /\ [Next]_vars => GroupsTrue'
<1> SUFFICES ASSUME IInv, TypeOK', [Next]_vars PROVE GroupsTrue'
  OBVIOUS
<1>1. TypeOK /\ TasksTrue /\ GroupsTrue /\ task \in [Events -> Task] /\ groups \in Nat
  BY Constants DEF IInv, TypeOK
<1>2. \A e \in Events : /\ task[e].group \in Nat /\ task[e].cutoff \in Nat
                        /\ task[e].group <= groups /\ task[e].cutoff <= groups
                        /\ task[e].pc = "absent" => task[e].group = 0
  BY <1>1, Constants DEF TasksTrue, TaskTrue, OwnGroup, Task
<1>3. ASSUME NEW e \in Events, NEW nvrs \in SUBSET Nvrs, Trigger(e, nvrs) PROVE GroupsTrue'
  <2>1. /\ task[e].pc = "absent" /\ \A d \in Events : d < e => task[d].pc # "absent"
        /\ task'[e] = [task[e] EXCEPT !.pc = Start, !.nvrs = nvrs, !.cutoff = groups]
        /\ \A d \in Events \ {e} : task'[d] = task[d]
    BY <1>1, <1>3, Constants DEF Trigger, Events
  <2>2. /\ task'[e].pc # "absent" /\ task'[e].group = 0 /\ task'[e].cutoff = groups
    BY <1>1, <1>2, <2>1 DEF Start, Task
  <2>3. \A d \in Events : d > e => task[d].pc = "absent"
    BY <1>1, <2>1, Constants DEF GroupsTrue
  <2>4. \A d \in Events : d >= e => task'[d].group = 0
    <3>1. \A d \in Events : d \in Nat
      BY Constants
    <3>2. \A d \in Events : d >= e => d = e \/ d > e
      BY <3>1
    <3> QED
      BY <1>2, <2>1, <2>2, <2>3, <3>2
  <2>5. (\A c, d \in Events : c < d /\ task[c].pc = "absent" => task[d].pc = "absent")'
    BY <1>1, <2>1, <2>2, <2>3, Constants DEF GroupsTrue
  <2>6. (\A c, d \in Events :
            task[d].group # 0 => /\ c # d => task[c].group # task[d].group
                                 /\ c <= d => task[d].group > task[c].cutoff)'
    BY <1>1, <2>1, <2>2, <2>4, Constants DEF GroupsTrue
  <2> QED
    BY <2>5, <2>6 DEF GroupsTrue
<1>4. ASSUME NEW e \in Events, CreateGroup(e) PROVE GroupsTrue'
  <2>1. task'[e] = [task[e] EXCEPT !.pc = "create", !.group = groups + 1, !.left = task[e].nvrs]
    BY <1>1, <1>4 DEF CreateGroup
  <2>2. /\ task[e].pc = "group" /\ task'[e].pc = "create" /\ task'[e].group = groups + 1
        /\ task'[e].cutoff = task[e].cutoff
    BY <1>1, <1>4, <2>1 DEF CreateGroup, Task
  <2>3. \A d \in Events : d # e => task'[d] = task[d]
    BY <1>1, <1>4 DEF CreateGroup
  <2>4. (\A c, d \in Events : c < d /\ task[c].pc = "absent" => task[d].pc = "absent")'
    BY <1>1, <2>2, <2>3 DEF GroupsTrue
  <2>5. (\A c, d \in Events :
            task[d].group # 0 => /\ c # d => task[c].group # task[d].group
                                 /\ c <= d => task[d].group > task[c].cutoff)'
    <3> SUFFICES ASSUME NEW c \in Events, NEW d \in Events, task'[d].group # 0
                 PROVE  /\ c # d => task'[c].group # task'[d].group
                        /\ c <= d => task'[d].group > task'[c].cutoff
      OBVIOUS
    <3>1. CASE d = e
      <4>1. /\ task'[c].cutoff = task[c].cutoff
            /\ c # d => task'[c].group = task[c].group
        BY <2>2, <2>3, <3>1
      <4>2. /\ task[c].group \in Nat /\ task[c].group <= groups
            /\ task[c].cutoff \in Nat /\ task[c].cutoff <= groups
        BY <1>2
      <4> QED
        BY <1>1, <2>2, <3>1, <4>1, <4>2
    <3>2. CASE d # e /\ c = e
      <4>1. /\ task[d].group \in Nat /\ task[d].group <= groups
        BY <1>2
      <4>2. task'[d].group = task[d].group /\ (c <= d => task[d].group > task[c].cutoff)
        BY <1>1, <2>3, <3>2 DEF GroupsTrue
      <4> QED
        BY <1>1, <2>2, <3>2, <4>1, <4>2
    <3>3. CASE d # e /\ c # e
      BY <1>1, <2>3, <3>3 DEF GroupsTrue
    <3> QED
      BY <3>1, <3>2, <3>3
  <2> QED
    BY <2>4, <2>5 DEF GroupsTrue
<1>5. ASSUME NEW e \in Events,
             \/ Cancel(e) \/ Run(e) \/ Fail(e) \/ GetGroup(e) \/ GroupFails(e)
             \/ \E nvr \in Nvrs : CreateRow(e, nvr)
      PROVE  GroupsTrue'
  <2>1. \A d \in Events \ {e} : task'[d] = task[d]
    BY <1>1, <1>5, OtherTasks DEF Group
  <2>2. /\ task[e].pc # "absent" /\ task'[e].pc # "absent"
        /\ task'[e].group \in {0, task[e].group} /\ task'[e].cutoff \in {0, task[e].cutoff}
    BY <1>1, <1>5, SameGroup
  <2> QED
    BY <1>1, <1>2, <2>1, <2>2, Constants DEF GroupsTrue
<1>6. CASE task' = task
  BY <1>1, <1>6 DEF GroupsTrue
<1> QED
  BY <1>3, <1>4, <1>5, <1>6 DEF Next, Group, KojiBegin, KojiEnd, Take, Store, StoreFails, vars

-----------------------------------------------------------------------------
(* The targets                                                             *)

\* A task changes the targets of its group only, makes new ones or cancels.
LEMMA OtherRows ==
    ASSUME TypeOK, TasksTrue, NEW e \in Events, NEW r \in Rows,
           (\E nvrs \in SUBSET Nvrs : Trigger(e, nvrs)) \/ Cancel(e) \/ Group(e) \/ Run(e) \/ Fail(e)
    PROVE  \/ rows'[r] = rows[r]
           \/ rows[r].status = "none"
           \/ task[e].group # 0 /\ rows[r].group = task[e].group
           \/ /\ cancelling /\ rows'[r].status = "canceled"
              /\ rows'[r].id = rows[r].id /\ rows'[r].again = rows[r].again
<1>1. /\ task[e].pc \in Working \cup {"loop", "mark"} => task[e].group # 0
      /\ task[e].pc \in Working => rows[task[e].row].group = task[e].group
      /\ task[e].pc \in {"loop", "mark"} => \A q \in task[e].todo : rows[q].group = task[e].group
      /\ rows \in [Rows -> Row]
  BY DEF TypeOK, TasksTrue, TaskTrue, OwnGroup, OwnTargets
<1>2. CASE UNCHANGED rows
  BY <1>2
<1>3. CASE CancelMark(e)
  <2>1. cancelling
    BY <1>3 DEF CancelMark, TasksTrue, TaskTrue, OldTargets
  <2> QED
    BY <1>1, <1>3, <2>1 DEF CancelMark, SetStatus, Row
<1>4. ASSUME NEW nvr \in Nvrs, CreateRow(e, nvr) PROVE rows'[r] = rows[r] \/ rows[r].status = "none"
  BY <1>1, <1>4 DEF CreateRow
<1>5. CASE SetSkipped(e) \/ SetPending(e) \/ SetTaskId(e)
  BY <1>1, <1>5 DEF SetSkipped, SetPending, SetTaskId, SetStatus, Working
<1>6. ASSUME SubmitFails(e) \/ \E k \in KojiTasks : AnswerLost(e, k)
      PROVE  rows'[r] = rows[r] \/ (task[e].group # 0 /\ rows[r].group = task[e].group)
  BY <1>1, <1>6 DEF SubmitFails, AnswerLost, BuildFails, SetStatus, Working
<1>7. ASSUME NEW q \in Rows, Begin(e, q) \/ MarkRetry(e, q)
      PROVE  rows'[r] = rows[r] \/ (task[e].group # 0 /\ rows[r].group = task[e].group)
  BY <1>1, <1>7 DEF Begin, MarkRetry, SetStatus
<1> QED
  BY <1>2, <1>3, <1>4, <1>5, <1>6, <1>7 DEF Trigger, Cancel, CancelRead, CancelInKoji, Group, GetGroup,
     CreateGroup, GroupFails, Run, Skip, Query, Ask, Submit, Retry, Acknowledge, Fail

\* The next target that a task works on is the last one, or one that begins.
LEMMA WorksOn ==
    ASSUME TypeOK, NEW e \in Events, task'[e].pc \in Working,
           (\E nvrs \in SUBSET Nvrs : Trigger(e, nvrs)) \/ Cancel(e) \/ Group(e) \/ Run(e) \/ Fail(e)
    PROVE  \/ \E r \in Rows : Begin(e, r) /\ task'[e].row = r
           \/ /\ Query(e) \/ Ask(e) \/ SetPending(e) \/ \E k \in KojiTasks : Submit(e, k)
              /\ task[e].pc \in Working /\ task'[e].row = task[e].row
<1>1. task[e] \in Task /\ task \in [Events -> Task]
  BY DEF TypeOK
<1>2. Done.pc \notin Working /\ \A n, k : Fresh(task[e], n, k).pc \notin Working
  BY <1>1 DEF Done, Absent, Fresh, Start, Working, Task
<1>3. /\ NextRow(task[e]).pc \notin Working
      /\ AfterCancel(task[e]).pc \notin Working
      /\ \A S \in SUBSET Rows : /\ NextRow([task[e] EXCEPT !.todo = S]).pc \notin Working
                                /\ AfterCancel([task[e] EXCEPT !.todo = S]).pc \notin Working
  BY <1>1 DEF NextRow, AfterCancel, Working, Task
<1>4. ASSUME NEW r \in Rows, Begin(e, r) PROVE task'[e].row = r
  <2>1. task'[e] = [task[e] EXCEPT !.pc = "query", !.row = r, !.todo = task[e].todo \ {r}]
    BY <1>1, <1>4 DEF Begin
  <2> QED
    BY <1>1, <2>1 DEF Task
<1>5. CASE Query(e) \/ Ask(e) \/ SetPending(e)
  BY <1>1, <1>5 DEF Query, Ask, SetPending, Working, Task
<1>6. ASSUME NEW k \in KojiTasks, Submit(e, k)
      PROVE  task[e].pc \in Working /\ task'[e].row = task[e].row
  <2>1. task[e].pc = "submit" /\ task'[e] = [task[e] EXCEPT !.pc = "save", !.id = k]
    BY <1>1, <1>6 DEF Submit
  <2> QED
    BY <1>1, <2>1 DEF Working, Task
<1>7. ~ \E nvrs \in SUBSET Nvrs : Trigger(e, nvrs)
  <2> SUFFICES ASSUME NEW nvrs \in SUBSET Nvrs, Trigger(e, nvrs) PROVE FALSE
    OBVIOUS
  <2>1. task'[e] = [task[e] EXCEPT !.pc = Start, !.nvrs = nvrs, !.cutoff = groups]
    BY <1>1 DEF Trigger
  <2> QED
    BY <1>1, <2>1 DEF Start, Working, Task
<1>8. ~ Cancel(e)
  <2>1. ~ CancelRead(e) /\ ~ CancelMark(e)
    BY <1>1, <1>3 DEF CancelRead, CancelMark, RunningJobs
  <2>2. ~ \E r \in Rows : CancelInKoji(e, r)
    <3> SUFFICES ASSUME NEW r \in Rows, CancelInKoji(e, r) PROVE FALSE
      OBVIOUS
    <3>1. task'[e] = [task[e] EXCEPT !.pc = "mark cancel", !.row = r, !.todo = task[e].todo \ {r}]
      BY <1>1 DEF CancelInKoji
    <3> QED
      BY <1>1, <3>1 DEF Working, Task
  <2> QED
    BY <2>1, <2>2 DEF Cancel
<1>9. ~ Group(e)
  <2>1. ~ GetGroup(e)
    BY <1>1, <1>3 DEF GetGroup, Grouped
  <2>2. ~ CreateGroup(e)
    <3> SUFFICES ASSUME CreateGroup(e) PROVE FALSE
      OBVIOUS
    <3>1. task'[e] = [task[e] EXCEPT !.pc = "create", !.group = groups + 1, !.left = task[e].nvrs]
      BY <1>1 DEF CreateGroup
    <3> QED
      BY <1>1, <3>1 DEF Working, Task
  <2>3. ~ GroupFails(e)
    BY <1>1 DEF GroupFails, Working, Task
  <2>4. ASSUME NEW nvr \in Nvrs, CreateRow(e, nvr) PROVE FALSE
    <3>1. PICK r \in Rows :
            task'[e] = [task[e] EXCEPT !.left = task[e].left \ {nvr},
                                       !.todo = task[e].todo \cup {r},
                                       !.pc = IF task[e].left = {nvr} THEN "loop" ELSE "create"]
      BY <1>1, <2>4 DEF CreateRow
    <3> QED
      BY <1>1, <3>1 DEF Working, Task
  <2> QED
    BY <2>1, <2>2, <2>3, <2>4 DEF Group
<1>10. ASSUME NEW r \in Rows, Skip(e, r) \/ MarkRetry(e, r) PROVE FALSE
  <2>1. CASE Skip(e, r)
    <3>1. /\ task[e].todo \ {r} \in SUBSET Rows
          /\ task'[e] = NextRow([task[e] EXCEPT !.todo = task[e].todo \ {r}])
      BY <1>1, <2>1 DEF Skip, Task
    <3> QED
      BY <1>3, <3>1
  <2>2. CASE MarkRetry(e, r)
    <3>1. task'[e] = [task[e] EXCEPT !.todo = task[e].todo \ {r},
                                     !.pc = IF task[e].todo = {r} THEN "retry" ELSE "mark"]
      BY <1>1, <2>2 DEF MarkRetry
    <3> QED
      BY <1>1, <3>1 DEF Working, Task
  <2> QED
    BY <1>10, <2>1, <2>2
<1>11. ~ BuildFails(e)
  <2>1. task'[e] # NextRow(task[e])
    BY <1>3
  <2>2. task'[e] # [task[e] EXCEPT !.pc = "mark", !.todo = Grouped(task[e].group)]
    BY <1>1 DEF Working, Task
  <2> QED
    BY <1>1, <2>1, <2>2 DEF BuildFails
<1>12. ~ SetSkipped(e) /\ ~ SetTaskId(e) /\ ~ Retry(e) /\ ~ Acknowledge(e) /\ ~ Fail(e)
  BY <1>1, <1>2, <1>3 DEF SetSkipped, SetTaskId, Retry, Acknowledge, Fail
<1> QED
  BY <1>4, <1>5, <1>6, <1>7, <1>8, <1>9, <1>10, <1>11, <1>12 DEF Run, SubmitFails, AnswerLost

LEMMA KeptStep == IInv /\ TypeOK' /\ Frame /\ TasksTrue' /\ [Next]_vars => Kept'
<1> SUFFICES ASSUME IInv, TypeOK', Frame, TasksTrue', [Next]_vars,
                    NEW d \in Events, task'[d].pc \in Working, ~rows'[task'[d].row].again
             PROVE  /\ rows'[task'[d].row].id = None
                    /\ ~cancelling' => rows'[task'[d].row].status \in Open
  BY DEF Kept
<1> DEFINE Goal == /\ rows'[task'[d].row].id = None
                   /\ ~cancelling => rows'[task'[d].row].status \in Open
<1>0. TypeOK /\ TasksTrue /\ GroupsTrue /\ Kept /\ HandlersTrue /\ rows \in [Rows -> Row]
  BY DEF IInv, TypeOK
<1>1. ASSUME task'[d] = task[d]
      PROVE  /\ task[d].pc \in Working /\ task[d].row \in Rows
             /\ rows[task[d].row].status # "none"
             /\ rows[task[d].row].group = task[d].group /\ task[d].group # 0
             /\ ~rows[task[d].row].again /\ rows[task[d].row].id = None
             /\ ~cancelling => rows[task[d].row].status \in Open
  <2>1. /\ task[d].pc \in Working /\ task[d].row \in Rows
        /\ rows[task[d].row].status # "none"
        /\ rows[task[d].row].group = task[d].group /\ task[d].group # 0
    BY <1>0, <1>1 DEF TasksTrue, TaskTrue, OwnTargets, OwnGroup
  <2>2. ~rows[task[d].row].again
    BY <1>1, <2>1 DEF Frame
  <2> QED
    BY <1>0, <2>1, <2>2 DEF Kept
<1>2. ASSUME task'[d] = task[d], rows'[task[d].row] = rows[task[d].row] PROVE Goal
  BY <1>1, <1>2
<1>3. ASSUME NEW e \in Events,
             (\E nvrs \in SUBSET Nvrs : Trigger(e, nvrs)) \/ Cancel(e) \/ Group(e) \/ Run(e) \/ Fail(e)
      PROVE  Goal
  <2>1. CASE d # e
    <3>1. task'[d] = task[d]
      BY <1>0, <1>3, <2>1, OtherTasks
    <3>2. task[d].group # task[e].group
      BY <1>0, <1>1, <2>1, <3>1 DEF GroupsTrue
    <3> QED
      BY <1>0, <1>1, <1>2, <1>3, <3>1, <3>2, OtherRows
  <2>2. ASSUME d = e, NEW r \in Rows, Begin(e, r), task'[e].row = r PROVE Goal
    <3>1. rows'[r].id = rows[r].id /\ rows'[r].status \in Open
      BY <1>0, <2>2 DEF Begin, Row
    <3>2. rows'[r].again <=> rows[r].again \/ rows[r].id # None
      BY <1>0, <2>2 DEF Begin, Row
    <3> QED
      BY <2>2, <3>1, <3>2
  <2>3. ASSUME d = e, task[e].pc \in Working, task'[e].row = task[e].row,
               Query(e) \/ Ask(e) \/ SetPending(e) \/ \E k \in KojiTasks : Submit(e, k)
        PROVE  Goal
    <3>1. task[e].row \in Rows
      BY <1>0, <2>3 DEF TasksTrue, TaskTrue, OwnTargets
    <3>2. /\ rows'[task[e].row].again = rows[task[e].row].again
          /\ rows'[task[e].row].id = rows[task[e].row].id
          /\ \/ rows'[task[e].row].status = rows[task[e].row].status
             \/ rows'[task[e].row].status = "pending"
      BY <1>0, <2>3, <3>1 DEF Query, Ask, SetPending, SetStatus, Submit, Row
    <3> QED
      BY <1>0, <2>3, <3>2 DEF Kept, Open
  <2> QED
    BY <1>0, <1>3, <2>1, <2>2, <2>3, WorksOn
<1>4. ASSUME NEW h \in storing, Store(h) PROVE Goal
  <2>1. task'[d] = task[d]
    BY <1>4 DEF Store
  <2>2. rows[h.row].id # None /\ h.row \in Rows
    BY <1>0 DEF HandlersTrue, TypeOK
  <2>3. task[d].row # h.row
    BY <1>1, <2>1, <2>2
  <2>4. rows'[task[d].row] = rows[task[d].row]
    BY <1>0, <1>1, <1>4, <2>1, <2>3 DEF Store, SetStatus
  <2> QED
    BY <1>2, <2>1, <2>4
<1>5. ASSUME task' = task, rows' = rows PROVE Goal
  <2>1. task'[d] = task[d] /\ rows'[task[d].row] = rows[task[d].row]
    BY <1>5
  <2> QED
    BY <1>2, <2>1
<1>6. Goal
  BY <1>3, <1>4, <1>5 DEF Next, KojiBegin, KojiEnd, Take, StoreFails, vars
<1> QED
  BY <1>6 DEF Frame

\* The rest of a target's invariant, of a target that is left as it is ...
LEMMA RowKept ==
    ASSUME IInv, TypeOK', Frame, NEW r \in Rows, rows'[r] = rows[r]
    PROVE  RowTrue(r)'
<1>1. /\ RowTrue(r) /\ rows[r].id \in KojiTasks \cup {None}
      /\ rows[r].group \in Nat /\ groups \in Nat /\ groups' \in Nat /\ groups <= groups'
  BY Constants DEF IInv, RowsTrue, TypeOK, Row, Frame
<1> QED
  BY <1>1 DEF RowTrue, Frame

\* ... or gets another status.
LEMMA RowStatus ==
    ASSUME IInv, TypeOK', Frame, NEW r \in Rows, NEW status \in Status \ {"none"},
           rows[r].status # "none", rows'[r] = [rows[r] EXCEPT !.status = status],
           ~cancelling /\ ~rows[r].again /\ rows[r].id # None /\ koji[rows[r].id].state \in Live
               => status \in InProgress
    PROVE  RowTrue(r)'
<1>1. /\ RowTrue(r) /\ rows[r].id \in KojiTasks \cup {None}
      /\ rows[r].group \in Nat /\ groups \in Nat /\ groups' \in Nat /\ groups <= groups'
  BY Constants DEF IInv, RowsTrue, TypeOK, Row, Frame
<1>2. /\ rows'[r].status = status /\ rows'[r].id = rows[r].id /\ rows'[r].nvr = rows[r].nvr
      /\ rows'[r].group = rows[r].group /\ rows'[r].again = rows[r].again
  BY DEF IInv, TypeOK, Row
<1>3. rows[r].id # None => /\ koji[rows[r].id].row = r /\ koji[rows[r].id].state # "none"
                           /\ koji'[rows[r].id].row = r /\ koji'[rows[r].id].state # "none"
                           /\ koji'[rows[r].id].state \in Live => koji[rows[r].id].state \in Live
  BY <1>1 DEF RowTrue, Frame
<1>4. cancelling' <=> cancelling
  BY DEF Frame
<1> QED
  BY <1>1, <1>2, <1>3, <1>4 DEF RowTrue

LEMMA RowsStep == IInv /\ TypeOK' /\ Frame /\ [Next]_vars => RowsTrue'
<1> SUFFICES ASSUME IInv, TypeOK', Frame, [Next]_vars, NEW q \in Rows PROVE RowTrue(q)'
  BY DEF RowsTrue
<1>0. /\ TypeOK /\ TasksTrue /\ Kept /\ HandlersTrue /\ RowsTrue
      /\ task \in [Events -> Task] /\ rows \in [Rows -> Row] /\ rows[q] \in Row
  BY DEF IInv, TypeOK
<1>1. ASSUME NEW r \in Rows, NEW status \in Status \ {"none"}, rows[r].status # "none",
             SetStatus(r, status),
             ~cancelling /\ ~rows[r].again /\ rows[r].id # None /\ koji[rows[r].id].state \in Live
                 => status \in InProgress
      PROVE  RowTrue(q)'
  <2>1. CASE q # r
    <3>1. rows'[q] = rows[q]
      BY <1>0, <1>1, <2>1 DEF SetStatus
    <3> QED
      BY <3>1, RowKept
  <2>2. CASE q = r
    <3>1. rows'[q] = [rows[q] EXCEPT !.status = status]
      BY <1>0, <1>1, <2>2 DEF SetStatus
    <3> QED
      BY <1>1, <2>2, <3>1, RowStatus
  <2> QED
    BY <2>1, <2>2
<1>2. ASSUME NEW e \in Events, CancelMark(e) PROVE RowTrue(q)'
  <2>1. /\ task[e].row \in Rows /\ rows[task[e].row].status # "none" /\ cancelling
        /\ "canceled" \in Status \ {"none"}
    BY <1>0, <1>2 DEF CancelMark, TasksTrue, TaskTrue, OldTargets, Status
  <2> QED
    BY <1>1, <1>2, <2>1 DEF CancelMark
<1>3. ASSUME NEW e \in Events, task[e].pc \in Working,
             NEW status \in {"skipped", "pending", "error"}, SetStatus(task[e].row, status)
      PROVE  RowTrue(q)'
  <2>1. task[e].row \in Rows /\ rows[task[e].row].status # "none"
    BY <1>0, <1>3 DEF TasksTrue, TaskTrue, OwnTargets
  <2>2. ~rows[task[e].row].again => rows[task[e].row].id = None
    BY <1>0, <1>3 DEF Kept
  <2>3. status \in Status \ {"none"}
    BY DEF Status, InProgress, Open, Final
  <2> QED
    BY <1>1, <1>3, <2>1, <2>2, <2>3
<1>4. ASSUME NEW e \in Events, SetTaskId(e) PROVE RowTrue(q)'
  <2>1. /\ task[e].row \in Rows /\ rows[task[e].row].status # "none"
        /\ task[e].id \in KojiTasks /\ koji[task[e].id].row = task[e].row
        /\ koji[task[e].id].state # "none" /\ koji' = koji
        /\ rows' = [rows EXCEPT ![task[e].row].id = task[e].id]
    BY <1>0, <1>4 DEF SetTaskId, TasksTrue, TaskTrue, OwnTargets, OwnBuild, Working
  <2>2. ~cancelling /\ ~rows[task[e].row].again => rows[task[e].row].status \in Open
    BY <1>0, <1>4 DEF Kept, SetTaskId, Working
  <2>3. CASE q = task[e].row
    <3>1. /\ rows'[q].status = rows[q].status /\ rows'[q].id = task[e].id
          /\ rows'[q].nvr = rows[q].nvr /\ rows'[q].group = rows[q].group
          /\ rows'[q].again = rows[q].again
      BY <1>0, <2>1, <2>3 DEF Row
    <3>2. RowTrue(q) /\ groups' = groups /\ (cancelling' <=> cancelling)
      BY <1>0, <1>4 DEF RowsTrue, SetTaskId
    <3> QED
      BY <2>1, <2>2, <2>3, <3>1, <3>2 DEF RowTrue, InProgress
  <2>4. CASE q # task[e].row
    <3>1. rows'[q] = rows[q]
      BY <1>0, <2>1, <2>4
    <3> QED
      BY <3>1, RowKept
  <2> QED
    BY <2>3, <2>4
<1>5. ASSUME NEW e \in Events, NEW r \in Rows, Begin(e, r) PROVE RowTrue(q)'
  <2>1. /\ rows'[q].status = rows[q].status /\ rows'[q].id = rows[q].id
        /\ rows'[q].nvr = rows[q].nvr /\ rows'[q].group = rows[q].group
        /\ rows[q].again => rows'[q].again
    BY <1>0, <1>5 DEF Begin, Row
  <2>2. RowTrue(q) /\ groups' = groups /\ (cancelling' <=> cancelling) /\ koji' = koji
    BY <1>0, <1>5 DEF RowsTrue, Begin
  <2> QED
    BY <2>1, <2>2 DEF RowTrue
<1>6. ASSUME NEW e \in Events, NEW nvr \in Nvrs, CreateRow(e, nvr) PROVE RowTrue(q)'
  <2>1. PICK r \in Rows :
          rows' = [rows EXCEPT ![r] = [status |-> "queued", nvr |-> nvr, group |-> task[e].group,
                                       id |-> None, again |-> FALSE]]
    BY <1>6 DEF CreateRow
  <2>2. /\ task[e].group # 0 /\ task[e].group <= groups /\ groups' = groups
    BY <1>0, <1>6 DEF CreateRow, TasksTrue, TaskTrue, OwnGroup
  <2>3. CASE q = r
    <3>1. /\ rows'[q].status = "queued" /\ rows'[q].nvr = nvr /\ rows'[q].group = task[e].group
          /\ rows'[q].id = None
      BY <1>0, <2>1, <2>3
    <3> QED
      BY <2>2, <3>1 DEF RowTrue
  <2>4. CASE q # r
    <3>1. rows'[q] = rows[q]
      BY <1>0, <2>1, <2>4
    <3> QED
      BY <3>1, RowKept
  <2> QED
    BY <2>3, <2>4
<1>7. ASSUME NEW e \in Events, NEW r \in Rows, MarkRetry(e, r) PROVE RowTrue(q)'
  <2>1. rows[r].status # "none"
    BY <1>0, <1>7 DEF MarkRetry, TasksTrue, TaskTrue, OwnTargets
  <2>2. "retry" \in Status \ {"none"} /\ "retry" \in InProgress
    BY DEF Status, InProgress, Open
  <2> QED
    BY <1>1, <1>7, <2>1, <2>2 DEF MarkRetry
<1>8. ASSUME NEW h \in storing, Store(h) PROVE RowTrue(q)'
  <2>1. /\ h.row \in Rows /\ h.id \in KojiTasks /\ h.state \in States /\ Said(h.id, h.state)
        /\ rows[h.row].status # "none" /\ (~rows[h.row].again => rows[h.row].id = h.id)
    BY <1>0 DEF HandlersTrue, TypeOK
  <2>2. /\ NewStatus(h.state) \in Status \ {"none"}
        /\ NewStatus(h.state) \notin InProgress => h.state \in {"failed", "canceled", "deleted"}
    BY <2>1 DEF States, NewStatus, Status, InProgress, Open, Final
  <2>3. koji[h.id].state \in Live => NewStatus(h.state) \in InProgress
    BY <2>1, <2>2 DEF Said, Live
  <2> QED
    BY <1>1, <1>8, <2>1, <2>2, <2>3 DEF Store
<1>9. CASE rows' = rows
  <2>1. rows'[q] = rows[q]
    BY <1>9
  <2> QED
    BY <2>1, RowKept
<1>10. ASSUME NEW e \in Events, Run(e) PROVE RowTrue(q)'
  <2>1. CASE SetSkipped(e) \/ SetPending(e)
    BY <1>3, <2>1 DEF SetSkipped, SetPending, Working
  <2>2. ASSUME SubmitFails(e) \/ \E k \in KojiTasks : AnswerLost(e, k) PROVE RowTrue(q)'
    BY <1>3, <1>9, <2>2 DEF SubmitFails, AnswerLost, BuildFails, Working
  <2> QED
    BY <1>4, <1>5, <1>7, <1>9, <1>10, <2>1, <2>2
       DEF Run, Skip, Query, Ask, Submit, Retry, Acknowledge
<1> QED
  BY <1>2, <1>6, <1>8, <1>9, <1>10
     DEF Next, Trigger, Cancel, CancelRead, CancelInKoji, Group, GetGroup, CreateGroup, GroupFails,
         Fail, KojiBegin, KojiEnd, Take, StoreFails, vars

-----------------------------------------------------------------------------
(* Koji and its messages                                                   *)

LEMMA KojiStep == IInv /\ TypeOK' /\ Frame /\ [Next]_vars => KojiTrue'
<1> SUFFICES ASSUME IInv, TypeOK', Frame, [Next]_vars,
                    NEW k \in KojiTasks, koji'[k].state # "none"
             PROVE  koji'[k].row \in Rows /\ rows'[koji'[k].row].status # "none"
  BY DEF KojiTrue
<1>0. TypeOK /\ TasksTrue /\ KojiTrue /\ RowsTrue /\ koji \in [KojiTasks -> Build]
  BY DEF IInv, TypeOK
<1>1. CASE koji[k].state # "none"
  BY <1>0, <1>1 DEF KojiTrue, Frame
<1>2. ASSUME NEW e \in Events, task[e].pc = "submit", NEW l \in KojiTasks,
             Accept(l, task[e].row), koji[k].state = "none"
      PROVE  koji'[k].row \in Rows /\ rows'[koji'[k].row].status # "none"
  <2>1. task[e].row \in Rows /\ rows[task[e].row].status # "none"
    BY <1>0, <1>2 DEF TasksTrue, TaskTrue, OwnTargets, Working
  <2>2. koji'[k].row = task[e].row
    BY <1>0, <1>2 DEF Accept
  <2> QED
    BY <2>1, <2>2 DEF Frame
<1>3. ASSUME NEW e \in Events, NEW r \in Rows, CancelInKoji(e, r), koji[k].state = "none"
      PROVE  FALSE
  <2>1. \/ koji' = koji
        \/ /\ rows[r].id \in KojiTasks /\ koji[rows[r].id].state \in {"open", "building"}
           /\ koji' = [koji EXCEPT ![rows[r].id].state = "canceled"]
    BY <1>0, <1>3 DEF CancelInKoji, TypeOK, Row
  <2> QED
    BY <1>0, <1>3, <2>1
<1>4. ASSUME NEW l \in KojiTasks, KojiBegin(l) \/ KojiEnd(l), koji[k].state = "none" PROVE FALSE
  BY <1>0, <1>4 DEF KojiBegin, KojiEnd
<1>5. CASE koji' = koji
  BY <1>1, <1>5
<1> QED
  BY <1>1, <1>2, <1>3, <1>4, <1>5, ZenonT(60)
     DEF Next, Trigger, Cancel, CancelRead, CancelMark, Group, GetGroup, CreateGroup, CreateRow,
         GroupFails, Run, Skip, Begin, Query, Ask, SetSkipped, SetPending, Submit, SetTaskId,
         SubmitFails, AnswerLost, MarkRetry, Retry, Acknowledge, Fail, Take, Store, StoreFails, vars

LEMMA ReportsStep == IInv /\ TypeOK' /\ Frame /\ [Next]_vars => ReportsTrue'
<1> SUFFICES ASSUME IInv, TypeOK', Frame, [Next]_vars, NEW m \in reports' PROVE Said(m.id, m.state)'
  BY DEF ReportsTrue
<1>0. /\ TypeOK /\ HandlersTrue /\ ReportsTrue /\ koji \in [KojiTasks -> Build]
      /\ koji' \in [KojiTasks -> Build] /\ m.id \in KojiTasks /\ m.state \in States
  BY DEF IInv, TypeOK
<1>1. CASE m \in reports
  BY <1>0, <1>1 DEF ReportsTrue, Frame
<1>2. ASSUME NEW e \in Events, NEW r \in Rows, CancelInKoji(e, r), m \notin reports
      PROVE  Said(m.id, m.state)'
  <2>1. rows[r].id # None => rows[r].id \in KojiTasks
    BY <1>0 DEF TypeOK, Row
  <2> QED
    BY <1>0, <1>2, <2>1 DEF CancelInKoji, Said
<1>3. ASSUME NEW k \in KojiTasks, KojiBegin(k) \/ KojiEnd(k), m \notin reports
      PROVE  Said(m.id, m.state)'
  <2>1. /\ m.id = k /\ koji'[k].state = m.state
        /\ m.state \in {"building", "complete", "failed", "canceled", "deleted"}
    <3>1. CASE KojiBegin(k)
      <4>1. m = [id |-> k, state |-> "building"] /\ koji' = [koji EXCEPT ![k].state = "building"]
        BY <1>3, <3>1 DEF KojiBegin
      <4> QED
        BY <1>0, <4>1 DEF Build
    <3>2. CASE KojiEnd(k)
      BY <1>0, <1>3, <3>2 DEF KojiEnd
    <3> QED
      BY <1>3, <3>1, <3>2
  <2> QED
    BY <2>1 DEF Said
<1>4. ASSUME NEW h \in storing, StoreFails(h), m \notin reports PROVE Said(m.id, m.state)'
  <2>1. m.id = h.id /\ m.state = h.state
    BY <1>4 DEF StoreFails
  <2> QED
    BY <1>0, <2>1 DEF HandlersTrue, Frame
<1> QED
  BY <1>1, <1>2, <1>3, <1>4, ZenonT(60)
     DEF Next, Trigger, Cancel, CancelRead, CancelMark, Group, GetGroup, CreateGroup, CreateRow,
         GroupFails, Run, Skip, Begin, Query, Ask, SetSkipped, SetPending, Submit, SetTaskId,
         SubmitFails, AnswerLost, MarkRetry, Retry, Acknowledge, Fail, Take, Store, vars

LEMMA HandlersStep == IInv /\ TypeOK' /\ Frame /\ [Next]_vars => HandlersTrue'
<1> SUFFICES ASSUME IInv, TypeOK', Frame, [Next]_vars, NEW h \in storing'
             PROVE  (/\ Said(h.id, h.state)
                     /\ koji[h.id].row = h.row
                     /\ rows[h.row].status # "none"
                     /\ rows[h.row].id # None
                     /\ ~rows[h.row].again => rows[h.row].id = h.id)'
  BY DEF HandlersTrue
<1>0. /\ TypeOK /\ HandlersTrue /\ ReportsTrue /\ RowsTrue
      /\ h.id \in KojiTasks /\ h.state \in States /\ h.row \in Rows
  BY DEF IInv, TypeOK
<1>1. ASSUME Said(h.id, h.state), koji[h.id].row = h.row, rows[h.row].status # "none",
             rows[h.row].id # None, ~rows[h.row].again => rows[h.row].id = h.id
      PROVE  (/\ Said(h.id, h.state)
              /\ koji[h.id].row = h.row
              /\ rows[h.row].status # "none"
              /\ rows[h.row].id # None
              /\ ~rows[h.row].again => rows[h.row].id = h.id)'
  <2>1. koji[h.id].state # "none"
    BY <1>1 DEF Said
  <2>2. Said(h.id, h.state)'
    BY <1>0, <1>1 DEF Frame
  <2>3. koji'[h.id].row = h.row
    BY <1>0, <1>1, <2>1 DEF Frame
  <2>4. /\ rows'[h.row].status # "none" /\ rows'[h.row].id # None
        /\ rows[h.row].again => rows'[h.row].again
        /\ ~rows[h.row].again => rows'[h.row].id = rows[h.row].id
    BY <1>0, <1>1 DEF Frame
  <2> QED
    BY <1>1, <2>2, <2>3, <2>4
<1>2. CASE h \in storing
  BY <1>0, <1>1, <1>2 DEF HandlersTrue
<1>3. ASSUME NEW m \in reports, Take(m), h \notin storing
      PROVE  /\ Said(h.id, h.state) /\ koji[h.id].row = h.row /\ rows[h.row].status # "none"
             /\ rows[h.row].id # None /\ rows[h.row].id = h.id
  <2>1. h.id = m.id /\ h.state = m.state /\ rows[h.row].id = m.id
    BY <1>3 DEF Take, ToStore
  <2>2. h.id # None
    BY <1>0, Constants
  <2>3. RowTrue(h.row) /\ Said(m.id, m.state)
    BY <1>0 DEF RowsTrue, ReportsTrue
  <2> QED
    BY <2>1, <2>2, <2>3 DEF RowTrue
<1> QED
  BY <1>1, <1>2, <1>3, ZenonT(60)
     DEF Next, Trigger, Cancel, CancelRead, CancelInKoji, CancelMark, Group, GetGroup, CreateGroup,
         CreateRow, GroupFails, Run, Skip, Begin, Query, Ask, SetSkipped, SetPending, Submit,
         SetTaskId, SubmitFails, AnswerLost, MarkRetry, Retry, Acknowledge, Fail, KojiBegin,
         KojiEnd, Store, StoreFails, vars

-----------------------------------------------------------------------------
(* The statuses of targets                                                 *)

LEMMA StatusStep == IInv /\ TypeOK' /\ Frame /\ [Next]_vars => StatusTrue'
<1> SUFFICES ASSUME IInv, TypeOK', Frame, [Next]_vars, NEW r \in Rows
             PROVE  (/\ rows[r].status = "success" =>
                          \E k \in KojiTasks : koji[k].row = r /\ koji[k].state \in {"complete", "deleted"}
                     /\ rows[r].status = "failure" =>
                          \E k \in KojiTasks : koji[k].row = r /\ koji[k].state = "failed")'
  BY DEF StatusTrue
<1> DEFINE Succeeded == \E k \in KojiTasks : koji[k].row = r /\ koji[k].state \in {"complete", "deleted"}
           Failed    == \E k \in KojiTasks : koji[k].row = r /\ koji[k].state = "failed"
<1>0. /\ TypeOK /\ TasksTrue /\ HandlersTrue /\ StatusTrue
      /\ rows \in [Rows -> Row] /\ rows' \in [Rows -> Row]
  BY DEF IInv, TypeOK
<1>1. ASSUME NEW k \in KojiTasks
      PROVE  /\ koji[k].state \in {"complete", "deleted"} =>
                    koji'[k].row = koji[k].row /\ koji'[k].state \in {"complete", "deleted"}
             /\ koji[k].state = "failed" => koji'[k].row = koji[k].row /\ koji'[k].state = "failed"
  <2>1. /\ Said(k, "complete") => Said(k, "complete")'
        /\ Said(k, "failed") => Said(k, "failed")'
    BY DEF Frame, States
  <2>2. koji[k].state # "none" => koji'[k].row = koji[k].row
    BY DEF Frame
  <2>3. /\ koji[k].state \in {"complete", "deleted"} => Said(k, "complete")
        /\ koji[k].state = "failed" => Said(k, "failed")
        /\ Said(k, "complete")' => koji'[k].state \in {"complete", "deleted"}
        /\ Said(k, "failed")' => koji'[k].state = "failed"
    BY DEF Said
  <2> QED
    BY <2>1, <2>2, <2>3
<1>2. (Succeeded => Succeeded') /\ (Failed => Failed')
  BY <1>1
<1>3. /\ rows[r].status = "success" => Succeeded
      /\ rows[r].status = "failure" => Failed
  BY <1>0 DEF StatusTrue
<1>4. CASE rows'[r].status = rows[r].status \/ rows'[r].status \notin {"success", "failure"}
  BY <1>2, <1>3, <1>4
<1>5. ASSUME NEW q \in Rows, NEW status, SetStatus(q, status), status \notin {"success", "failure"}
      PROVE  rows'[r].status = rows[r].status \/ rows'[r].status \notin {"success", "failure"}
  BY <1>0, <1>5 DEF SetStatus, Row
<1>6. ASSUME NEW h \in storing, Store(h)
      PROVE  \/ rows'[r].status = rows[r].status \/ rows'[r].status \notin {"success", "failure"}
             \/ rows'[r].status = "success" /\ Succeeded
             \/ rows'[r].status = "failure" /\ Failed
  <2>1. CASE h.row # r
    BY <1>0, <1>6, <2>1 DEF Store, SetStatus
  <2>2. CASE h.row = r
    <3>1. /\ h.id \in KojiTasks /\ h.state \in States /\ koji[h.id].row = r
          /\ Said(h.id, h.state)
      BY <1>0, <2>2 DEF HandlersTrue, TypeOK
    <3>2. rows'[r].status = NewStatus(h.state)
      BY <1>0, <1>6, <2>2 DEF Store, SetStatus, Row
    <3>3. CASE h.state = "complete"
      BY <3>1, <3>2, <3>3 DEF NewStatus, Said
    <3>4. CASE h.state = "failed"
      BY <3>1, <3>2, <3>4 DEF NewStatus, Said
    <3>5. CASE h.state \in {"building", "canceled", "deleted"}
      BY <3>2, <3>5 DEF NewStatus
    <3> QED
      BY <3>1, <3>3, <3>4, <3>5 DEF States
  <2> QED
    BY <2>1, <2>2
<1>7. ASSUME NEW e \in Events, Run(e)
      PROVE  rows'[r].status = rows[r].status \/ rows'[r].status \notin {"success", "failure"}
  <2>1. task[e].pc \in Working => task[e].row \in Rows
    BY <1>0 DEF TasksTrue, TaskTrue, OwnTargets
  <2>2. CASE SetSkipped(e) \/ SetPending(e)
    BY <1>5, <2>1, <2>2 DEF SetSkipped, SetPending, Working
  <2>3. ASSUME SubmitFails(e) \/ \E k \in KojiTasks : AnswerLost(e, k)
        PROVE  rows'[r].status = rows[r].status \/ rows'[r].status \notin {"success", "failure"}
    <3>1. task[e].row \in Rows /\ (UNCHANGED rows \/ SetStatus(task[e].row, "error"))
      BY <2>1, <2>3 DEF SubmitFails, AnswerLost, BuildFails, Working
    <3> QED
      BY <1>5, <3>1
  <2>4. CASE SetTaskId(e)
    BY <1>0, <2>1, <2>4 DEF SetTaskId, Working, Row
  <2>5. ASSUME NEW q \in Rows, Begin(e, q) PROVE rows'[r].status = rows[r].status
    BY <1>0, <2>5 DEF Begin, Row
  <2>6. ASSUME NEW q \in Rows, MarkRetry(e, q)
        PROVE  rows'[r].status = rows[r].status \/ rows'[r].status \notin {"success", "failure"}
    BY <1>5, <2>6 DEF MarkRetry
  <2> QED
    BY <1>7, <2>2, <2>3, <2>4, <2>5, <2>6 DEF Run, Skip, Query, Ask, Submit, Retry, Acknowledge
<1>8. ASSUME NEW e \in Events, CancelMark(e) \/ \E nvr \in Nvrs : CreateRow(e, nvr)
      PROVE  rows'[r].status = rows[r].status \/ rows'[r].status \notin {"success", "failure"}
  <2>1. CASE CancelMark(e)
    <3>1. task[e].row \in Rows
      BY <1>0, <2>1 DEF CancelMark, TasksTrue, TaskTrue, OldTargets
    <3>2. SetStatus(task[e].row, "canceled")
      BY <2>1 DEF CancelMark
    <3> QED
      BY <1>5, <3>1, <3>2
  <2>2. ASSUME NEW nvr \in Nvrs, CreateRow(e, nvr)
        PROVE  rows'[r].status = rows[r].status \/ rows'[r].status \notin {"success", "failure"}
    BY <1>0, <2>2 DEF CreateRow
  <2> QED
    BY <1>8, <2>1, <2>2
<1>9. \/ rows'[r].status = rows[r].status \/ rows'[r].status \notin {"success", "failure"}
      \/ rows'[r].status = "success" /\ Succeeded
      \/ rows'[r].status = "failure" /\ Failed
  BY <1>6, <1>7, <1>8 DEF Next, Trigger, Cancel, CancelRead, CancelInKoji, Group, GetGroup,
     CreateGroup, GroupFails, Fail, KojiBegin, KojiEnd, Take, StoreFails, vars
<1> QED
  BY <1>2, <1>4, <1>9

\* Making a target or beginning with one submits none.
LEMMA Unsubmitted ==
    ASSUME TypeOK, NEW e \in Events, NEW r \in Rows,
           (\E nvr \in Nvrs : CreateRow(e, nvr)) \/ \E q \in Rows : Begin(e, q)
    PROVE  /\ rows'[r].status \in {rows[r].status, "queued"}
           /\ rows'[r].id \in {rows[r].id, None}
<1>1. rows[r] \in Row /\ rows \in [Rows -> Row]
  BY DEF TypeOK
<1>2. ASSUME NEW nvr \in Nvrs, CreateRow(e, nvr)
      PROVE  rows'[r].status \in {rows[r].status, "queued"} /\ rows'[r].id \in {rows[r].id, None}
  <2>1. PICK q \in Rows :
          rows' = [rows EXCEPT ![q] = [status |-> "queued", nvr |-> nvr, group |-> task[e].group,
                                       id |-> None, again |-> FALSE]]
    BY <1>2 DEF CreateRow
  <2> QED
    BY <1>1, <2>1
<1>3. ASSUME NEW q \in Rows, Begin(e, q)
      PROVE  rows'[r].status = rows[r].status /\ rows'[r].id = rows[r].id
  BY <1>1, <1>3 DEF Begin, Row
<1> QED
  BY <1>2, <1>3

\* A target is claimed by a task that finds no other of its NVR.
LEMMA NewClaim ==
    ASSUME IInv, TypeOK', TasksTrue', Frame, [Next]_vars, NEW r \in Rows,
           Claimed(r)', ~rows'[r].again
    PROVE  \/ Claimed(r)
           \/ \E e \in Events : Query(e) /\ task[e].row = r /\ ExistingModels(r) = {}
<1>0. /\ TypeOK /\ TasksTrue /\ HandlersTrue /\ RowsTrue /\ KojiTrue /\ task \in [Events -> Task]
      /\ rows \in [Rows -> Row] /\ rows' \in [Rows -> Row] /\ koji \in [KojiTasks -> Build]
  BY DEF IInv, TypeOK
<1> DEFINE Goal == \/ Claimed(r)
                   \/ \E e \in Events : Query(e) /\ task[e].row = r /\ ExistingModels(r) = {}
<1>1. ASSUME NEW e \in Events, task'[e].row = r, task'[e].pc \in {"ask", "pend", "submit", "save"}
      PROVE  Goal
  <2>1. CASE task'[e] = task[e]
    BY <1>1, <2>1 DEF Claimed
  <2>2. CASE task'[e] # task[e]
    <3>1. \/ (\E nvrs \in SUBSET Nvrs : Trigger(e, nvrs)) \/ Cancel(e) \/ Group(e) \/ Run(e)
          \/ Fail(e)
      <4>1. task' # task
        BY <2>2
      <4>2. PICK d \in Events :
              (\E nvrs \in SUBSET Nvrs : Trigger(d, nvrs)) \/ Cancel(d) \/ Group(d) \/ Run(d) \/ Fail(d)
        BY <4>1 DEF Next, KojiBegin, KojiEnd, Take, Store, StoreFails, vars
      <4>3. d = e
        BY <1>0, <2>2, <4>2, OtherTasks
      <4> QED
        BY <4>2, <4>3
    <3>2. task'[e].pc \in Working
      BY <1>1 DEF Working
    <3>3. \/ \E q \in Rows : Begin(e, q) /\ task'[e].row = q
          \/ /\ Query(e) \/ Ask(e) \/ SetPending(e) \/ \E k \in KojiTasks : Submit(e, k)
             /\ task[e].pc \in Working /\ task'[e].row = task[e].row
      BY <1>0, <3>1, <3>2, WorksOn
    <3>4. ~ \E q \in Rows : Begin(e, q)
      <4> SUFFICES ASSUME NEW q \in Rows, Begin(e, q) PROVE FALSE
        OBVIOUS
      <4>1. task'[e] = [task[e] EXCEPT !.pc = "query", !.row = q, !.todo = task[e].todo \ {q}]
        BY <1>0 DEF Begin
      <4> QED
        BY <1>0, <1>1, <4>1 DEF Task
    <3>5. CASE Query(e)
      <4>1. task[e].row = r
        BY <1>1, <3>3, <3>4
      <4>2. ExistingModels(r) = {}
        BY <1>0, <1>1, <3>5, <4>1 DEF Query, Task
      <4> QED
        BY <3>5, <4>1, <4>2
    <3>6. ASSUME Ask(e) \/ SetPending(e) \/ \E k \in KojiTasks : Submit(e, k) PROVE Claimed(r)
      <4>1. task[e].row = r
        BY <1>1, <3>3, <3>4
      <4>2. task[e].pc \in {"ask", "pend", "submit"}
        BY <3>6 DEF Ask, SetPending, Submit
      <4> QED
        BY <4>1, <4>2 DEF Claimed
    <3> QED
      BY <3>3, <3>4, <3>5, <3>6
  <2> QED
    BY <2>1, <2>2
<1>2. CASE rows'[r].status = "pending" /\ rows[r].status # "pending"
  <2>1. ASSUME NEW q \in Rows, NEW status, SetStatus(q, status), status # "pending" PROVE FALSE
    BY <1>0, <1>2, <2>1 DEF SetStatus, Row
  <2>2. ASSUME NEW e \in Events, CancelMark(e) \/ Group(e) PROVE FALSE
    <3>1. ~ CancelMark(e)
      BY <1>0, <2>1 DEF CancelMark, TasksTrue, TaskTrue, OldTargets
    <3>2. ~ \E nvr \in Nvrs : CreateRow(e, nvr)
      BY <1>0, <1>2, Unsubmitted
    <3> QED
      BY <1>2, <2>2, <3>1, <3>2 DEF Group, GetGroup, CreateGroup, GroupFails
  <2>3. ASSUME NEW e \in Events, Run(e) PROVE Claimed(r)
    <3>1. task[e].pc \in Working => task[e].row \in Rows
      BY <1>0 DEF TasksTrue, TaskTrue, OwnTargets
    <3>2. CASE SetPending(e)
      <4>1. task[e].row = r
        BY <1>0, <1>2, <3>2 DEF SetPending, SetStatus
      <4> QED
        BY <3>2, <4>1 DEF SetPending, Claimed
    <3>3. ~ SetSkipped(e)
      BY <2>1, <3>1 DEF SetSkipped, Working
    <3>4. ~ SubmitFails(e) /\ ~ \E k \in KojiTasks : AnswerLost(e, k)
      BY <1>2, <2>1, <3>1 DEF SubmitFails, AnswerLost, BuildFails, Working
    <3>5. ~ SetTaskId(e)
      BY <1>0, <1>2, <3>1 DEF SetTaskId, Working, Row
    <3>6. ~ \E q \in Rows : Begin(e, q)
      BY <1>0, <1>2, Unsubmitted
    <3>7. ~ \E q \in Rows : MarkRetry(e, q)
      BY <2>1 DEF MarkRetry
    <3> QED
      BY <1>2, <2>3, <3>2, <3>3, <3>4, <3>5, <3>6, <3>7
         DEF Run, Skip, Query, Ask, Submit, Retry, Acknowledge
  <2>4. ASSUME NEW h \in storing, Store(h) PROVE FALSE
    <3>1. h.row \in Rows /\ NewStatus(h.state) # "pending"
      BY <1>0 DEF TypeOK, States, NewStatus
    <3> QED
      BY <2>1, <2>4, <3>1 DEF Store
  <2> QED
    BY <1>2, <2>2, <2>3, <2>4 DEF Next, Trigger, Cancel, CancelRead, CancelInKoji, Fail, KojiBegin,
       KojiEnd, Take, StoreFails, vars
<1>3. CASE rows'[r].id # None /\ koji'[rows'[r].id].state \in Live
  <2>1. CASE rows'[r].id = rows[r].id
    <3>1. rows[r].id \in KojiTasks /\ koji[rows[r].id].state # "none"
      BY <1>0, <1>3, <2>1 DEF RowsTrue, RowTrue, Row
    <3> QED
      BY <1>3, <2>1, <3>1 DEF Frame, Claimed
  <2>2. CASE rows'[r].id # rows[r].id
    <3>1. ASSUME NEW q \in Rows, NEW status, SetStatus(q, status) PROVE FALSE
      BY <1>0, <2>2, <3>1 DEF SetStatus, Row
    <3>2. ASSUME NEW e \in Events, CancelMark(e) \/ Group(e) PROVE FALSE
      <4>1. ~ CancelMark(e)
        BY <1>0, <3>1 DEF CancelMark, TasksTrue, TaskTrue, OldTargets
      <4>2. ~ \E nvr \in Nvrs : CreateRow(e, nvr)
        BY <1>0, <1>3, <2>2, Unsubmitted
      <4> QED
        BY <2>2, <3>2, <4>1, <4>2 DEF Group, GetGroup, CreateGroup, GroupFails
    <3>3. ASSUME NEW e \in Events, Run(e) PROVE Claimed(r)
      <4>1. task[e].pc \in Working => task[e].row \in Rows
        BY <1>0 DEF TasksTrue, TaskTrue, OwnTargets
      <4>2. CASE SetTaskId(e)
        <5>1. task[e].row = r
          BY <1>0, <2>2, <4>2 DEF SetTaskId
        <5> QED
          BY <4>2, <5>1 DEF SetTaskId, Claimed
      <4>3. ~ SetSkipped(e) /\ ~ SetPending(e)
        BY <3>1, <4>1 DEF SetSkipped, SetPending, Working
      <4>4. ~ SubmitFails(e) /\ ~ \E k \in KojiTasks : AnswerLost(e, k)
        BY <2>2, <3>1, <4>1 DEF SubmitFails, AnswerLost, BuildFails, Working
      <4>5. ~ \E q \in Rows : Begin(e, q)
        BY <1>0, <1>3, <2>2, Unsubmitted
      <4>6. ~ \E q \in Rows : MarkRetry(e, q)
        BY <3>1 DEF MarkRetry
      <4> QED
        BY <2>2, <3>3, <4>2, <4>3, <4>4, <4>5, <4>6
           DEF Run, Skip, Query, Ask, Submit, Retry, Acknowledge
    <3>4. ASSUME NEW h \in storing, Store(h) PROVE FALSE
      BY <1>0, <3>1, <3>4 DEF Store, TypeOK
    <3> QED
      BY <2>2, <3>2, <3>3, <3>4 DEF Next, Trigger, Cancel, CancelRead, CancelInKoji, Fail, KojiBegin,
         KojiEnd, Take, StoreFails, vars
  <2> QED
    BY <2>1, <2>2
<1> QED
  BY <1>1, <1>2, <1>3 DEF Claimed

\* The query finds a claimed target.
LEMMA ClaimedFound ==
    ASSUME IInv, NEW r \in Rows, Claimed(r)
    PROVE  /\ rows[r].status # "none"
           /\ ~cancelling /\ ~rows[r].again => rows[r].status \in InProgress
<1>1. TasksTrue /\ Kept /\ RowTrue(r)
  BY DEF IInv, RowsTrue
<1>2. CASE rows[r].status = "pending"
  BY <1>2 DEF InProgress, Open
<1>3. CASE rows[r].id # None /\ koji[rows[r].id].state \in Live
  BY <1>1, <1>3 DEF RowTrue
<1>4. ASSUME NEW e \in Events, task[e].row = r, task[e].pc \in {"ask", "pend", "submit", "save"}
      PROVE  /\ rows[r].status # "none"
             /\ ~cancelling /\ ~rows[r].again => rows[r].status \in InProgress
  <2>1. task[e].pc \in Working
    BY <1>4 DEF Working
  <2> QED
    BY <1>1, <1>4, <2>1 DEF TasksTrue, TaskTrue, OwnTargets, Kept, InProgress
<1> QED
  BY <1>2, <1>3, <1>4 DEF Claimed

LEMMA OnceStep == IInv /\ TypeOK' /\ TasksTrue' /\ Frame /\ [Next]_vars => OncePerNvr'
<1> SUFFICES ASSUME IInv, TypeOK', TasksTrue', Frame, [Next]_vars, ~cancelling',
                    NEW r \in Rows, NEW s \in Rows, r # s, rows'[r].nvr = rows'[s].nvr,
                    Claimed(r)', Claimed(s)', ~rows'[r].again, ~rows'[s].again
             PROVE  FALSE
  BY DEF OncePerNvr
<1> DEFINE New(q) == \E e \in Events : Query(e) /\ task[e].row = q /\ ExistingModels(q) = {}
<1>1. TypeOK /\ TasksTrue /\ OncePerNvr /\ ~cancelling
  BY DEF IInv, Frame
<1>2. (Claimed(r) \/ New(r)) /\ (Claimed(s) \/ New(s))
  BY NewClaim
<1>3. ASSUME NEW q \in Rows, New(q) PROVE rows[q].status # "none"
  BY <1>1, <1>3 DEF Query, TasksTrue, TaskTrue, OwnTargets, Working
<1>4. rows[r].status # "none" /\ rows[s].status # "none"
  BY <1>2, <1>3, ClaimedFound
<1>5. rows[r].nvr = rows[s].nvr /\ ~rows[r].again /\ ~rows[s].again
  BY <1>4 DEF Frame
<1>6. ~ (Claimed(r) /\ Claimed(s))
  BY <1>1, <1>5 DEF OncePerNvr
<1>7. ASSUME NEW q \in Rows, NEW p \in Rows \ {q}, rows[q].nvr = rows[p].nvr, ~rows[p].again,
             New(q), Claimed(p)
      PROVE  FALSE
  <2>1. rows[p].status \in InProgress
    BY <1>1, <1>7, ClaimedFound
  <2>2. p \in ExistingModels(q)
    BY <1>7, <2>1 DEF ExistingModels
  <2> QED
    BY <1>7, <2>2
<1>8. ~ (New(r) /\ New(s))
  <2> SUFFICES ASSUME NEW e \in Events, NEW d \in Events, Query(e), Query(d),
                      task[e].row = r, task[d].row = s
               PROVE  FALSE
    OBVIOUS
  <2>1. d # e
    OBVIOUS
  <2>2. task'[d] = task[d] /\ task[d].pc = "query"
    BY <1>1, <2>1 DEF Query, TypeOK
  <2>3. task'[d].pc # "query"
    BY <1>1 DEF Query, TypeOK, Task
  <2> QED
    BY <2>2, <2>3
<1> QED
  BY <1>2, <1>5, <1>6, <1>7, <1>8

-----------------------------------------------------------------------------
(* Nothing is left over                                                    *)

LEMMA SavedStep == IInv /\ Saved /\ TypeOK' /\ Frame /\ [Next]_vars => Saved'
<1> SUFFICES ASSUME IInv, Saved, TypeOK', Frame, [Next]_vars,
                    NEW d \in Events, task'[d].pc \in {"submit", "save"}
             PROVE  rows'[task'[d].row].status \notin {"queued", "retry"}
  BY DEF Saved
<1> DEFINE Goal == rows'[task'[d].row].status \notin {"queued", "retry"}
<1>0. /\ TypeOK /\ TasksTrue /\ GroupsTrue /\ rows \in [Rows -> Row] /\ task \in [Events -> Task]
      /\ task'[d].pc \in Working
  BY DEF IInv, TypeOK, Working
<1>1. ASSUME task'[d] = task[d]
      PROVE  /\ task[d].row \in Rows /\ rows[task[d].row].status \notin {"none", "queued", "retry"}
             /\ rows[task[d].row].group = task[d].group /\ task[d].group # 0
  BY <1>0, <1>1 DEF TasksTrue, TaskTrue, OwnTargets, OwnGroup, Saved
<1>2. ASSUME task'[d] = task[d], rows'[task[d].row] = rows[task[d].row] PROVE Goal
  BY <1>1, <1>2
<1>3. ASSUME NEW e \in Events,
             (\E nvrs \in SUBSET Nvrs : Trigger(e, nvrs)) \/ Cancel(e) \/ Group(e) \/ Run(e) \/ Fail(e)
      PROVE  Goal
  <2>1. CASE d # e
    <3>1. task'[d] = task[d]
      BY <1>0, <1>3, <2>1, OtherTasks
    <3>2. task[d].group # task[e].group
      BY <1>0, <1>1, <2>1, <3>1 DEF GroupsTrue
    <3>3. rows'[task[d].row] = rows[task[d].row] \/ rows'[task[d].row].status = "canceled"
      BY <1>0, <1>1, <1>3, <3>1, <3>2, OtherRows
    <3> QED
      BY <1>2, <3>1, <3>3
  <2>2. ASSUME d = e, NEW r \in Rows, Begin(e, r) PROVE FALSE
    <3>1. task'[e] = [task[e] EXCEPT !.pc = "query", !.row = r, !.todo = task[e].todo \ {r}]
      BY <1>0, <2>2 DEF Begin
    <3> QED
      BY <1>0, <2>2, <3>1 DEF Task
  <2>3. ASSUME d = e, Query(e) \/ Ask(e) PROVE FALSE
    BY <1>0, <2>3 DEF Query, Ask, Task
  <2>4. ASSUME d = e, task'[e].row = task[e].row, SetPending(e) PROVE Goal
    <3>1. task[e].row \in Rows
      BY <1>0, <2>4 DEF SetPending, Working, TasksTrue, TaskTrue, OwnTargets
    <3> QED
      BY <1>0, <2>4, <3>1 DEF SetPending, SetStatus, Row
  <2>5. ASSUME d = e, task'[e].row = task[e].row, NEW k \in KojiTasks, Submit(e, k) PROVE Goal
    BY <2>5 DEF Submit, Saved
  <2> QED
    BY <1>0, <1>3, <2>1, <2>2, <2>3, <2>4, <2>5, WorksOn
<1>4. ASSUME NEW h \in storing, Store(h) PROVE Goal
  <2>1. task'[d] = task[d]
    BY <1>4 DEF Store
  <2>2. h.row \in Rows /\ NewStatus(h.state) \notin {"queued", "retry"}
    BY <1>0 DEF TypeOK, States, NewStatus
  <2>3. \/ rows'[task[d].row] = rows[task[d].row]
        \/ rows'[task[d].row].status = NewStatus(h.state)
    BY <1>0, <1>1, <1>4, <2>1, <2>2 DEF Store, SetStatus, Row
  <2> QED
    BY <1>2, <2>1, <2>2, <2>3
<1>5. ASSUME task' = task, rows' = rows PROVE Goal
  <2>1. task'[d] = task[d] /\ rows'[task[d].row] = rows[task[d].row]
    BY <1>5
  <2> QED
    BY <1>2, <2>1
<1> QED
  BY <1>3, <1>4, <1>5 DEF Next, KojiBegin, KojiEnd, Take, StoreFails, vars

\* The branches of a task are those of its event, and fewer are left each time.
LEMMA LeftKept ==
    ASSUME TypeOK, NEW e \in Events, Cancel(e) \/ Group(e) \/ Run(e) \/ Fail(e)
    PROVE  /\ task'[e].nvrs \in {task[e].nvrs, {}}
           /\ task'[e].left \subseteq task[e].nvrs \/ task'[e].left \subseteq task[e].left
<1>1. task[e] \in Task /\ task \in [Events -> Task]
  BY DEF TypeOK
<1> DEFINE Same(t) == t.nvrs = task[e].nvrs /\ t.left = task[e].left
           Goal == /\ task'[e].nvrs \in {task[e].nvrs, {}}
                   /\ task'[e].left \subseteq task[e].nvrs \/ task'[e].left \subseteq task[e].left
<1>2. /\ Done.nvrs = {} /\ Done.left = {}
      /\ \A n, k : Fresh(task[e], n, k).nvrs = task[e].nvrs /\ Fresh(task[e], n, k).left = {}
  BY <1>1 DEF Done, Absent, Fresh, Task
<1>3. /\ Same(NextRow(task[e])) /\ Same(AfterCancel(task[e]))
      /\ \A S \in SUBSET Rows : /\ Same(NextRow([task[e] EXCEPT !.todo = S]))
                                /\ Same(AfterCancel([task[e] EXCEPT !.todo = S]))
                                /\ Same([task[e] EXCEPT !.pc = "mark", !.todo = S])
      /\ \A pc \in Steps : Same([task[e] EXCEPT !.pc = pc])
  BY <1>1 DEF NextRow, AfterCancel, Task
<1>4. CASE Cancel(e)
  <2>1. CASE CancelRead(e)
    BY <1>1, <1>3, <2>1 DEF CancelRead, RunningJobs
  <2>2. CASE CancelMark(e)
    BY <1>1, <1>3, <2>2 DEF CancelMark
  <2>3. ASSUME NEW r \in Rows, CancelInKoji(e, r) PROVE Goal
    <3>1. task'[e] = [task[e] EXCEPT !.pc = "mark cancel", !.row = r, !.todo = task[e].todo \ {r}]
      BY <1>1, <2>3 DEF CancelInKoji
    <3> QED
      BY <1>1, <3>1 DEF Task
  <2> QED
    BY <1>4, <2>1, <2>2, <2>3 DEF Cancel
<1>5. CASE Group(e)
  <2>1. CASE GetGroup(e)
    BY <1>1, <1>3, <2>1 DEF GetGroup, Grouped
  <2>2. CASE CreateGroup(e)
    <3>1. task'[e] = [task[e] EXCEPT !.pc = "create", !.group = groups + 1, !.left = task[e].nvrs]
      BY <1>1, <2>2 DEF CreateGroup
    <3> QED
      BY <1>1, <3>1 DEF Task
  <2>3. CASE GroupFails(e)
    BY <1>1, <2>3 DEF GroupFails, Task
  <2>4. ASSUME NEW nvr \in Nvrs, CreateRow(e, nvr) PROVE Goal
    <3>1. PICK r \in Rows :
            task'[e] = [task[e] EXCEPT !.left = task[e].left \ {nvr},
                                       !.todo = task[e].todo \cup {r},
                                       !.pc = IF task[e].left = {nvr} THEN "loop" ELSE "create"]
      BY <1>1, <2>4 DEF CreateRow
    <3> QED
      BY <1>1, <3>1 DEF Task
  <2> QED
    BY <1>5, <2>1, <2>2, <2>3, <2>4 DEF Group
<1>6. CASE Run(e)
  <2>1. ASSUME NEW r \in Rows, Skip(e, r) PROVE Goal
    <3>1. /\ task[e].todo \ {r} \in SUBSET Rows
          /\ task'[e] = NextRow([task[e] EXCEPT !.todo = task[e].todo \ {r}])
      BY <1>1, <2>1 DEF Skip, Task
    <3> QED
      BY <1>3, <3>1
  <2>2. ASSUME NEW r \in Rows, Begin(e, r) PROVE Goal
    <3>1. task'[e] = [task[e] EXCEPT !.pc = "query", !.row = r, !.todo = task[e].todo \ {r}]
      BY <1>1, <2>2 DEF Begin
    <3> QED
      BY <1>1, <3>1 DEF Task
  <2>3. ASSUME NEW r \in Rows, MarkRetry(e, r) PROVE Goal
    <3>1. task'[e] = [task[e] EXCEPT !.todo = task[e].todo \ {r},
                                     !.pc = IF task[e].todo = {r} THEN "retry" ELSE "mark"]
      BY <1>1, <2>3 DEF MarkRetry
    <3> QED
      BY <1>1, <3>1 DEF Task
  <2>4. ASSUME NEW k \in KojiTasks, Submit(e, k) PROVE Goal
    <3>1. task'[e] = [task[e] EXCEPT !.pc = "save", !.id = k]
      BY <1>1, <2>4 DEF Submit
    <3> QED
      BY <1>1, <3>1 DEF Task
  <2>5. ASSUME BuildFails(e) PROVE Goal
    <3>1. \/ task'[e] = NextRow(task[e])
          \/ task'[e] = [task[e] EXCEPT !.pc = "mark", !.todo = Grouped(task[e].group)]
      BY <1>1, <2>5 DEF BuildFails
    <3>2. Grouped(task[e].group) \in SUBSET Rows
      BY DEF Grouped
    <3> QED
      BY <1>3, <3>1, <3>2
  <2>6. CASE Query(e) \/ Ask(e) \/ SetPending(e)
    BY <1>1, <2>6 DEF Query, Ask, SetPending, Task
  <2>7. CASE SetSkipped(e) \/ SetTaskId(e) \/ Retry(e) \/ Acknowledge(e)
    BY <1>1, <1>2, <1>3, <2>7 DEF SetSkipped, SetTaskId, Retry, Acknowledge
  <2> QED
    BY <1>6, <2>1, <2>2, <2>3, <2>4, <2>5, <2>6, <2>7 DEF Run, SubmitFails, AnswerLost
<1>7. CASE Fail(e)
  BY <1>1, <1>2, <1>7 DEF Fail
<1> QED
  BY <1>4, <1>5, <1>6, <1>7

LEMMA LeftStep == TypeOK /\ OneLeft /\ [Next]_vars => OneLeft'
<1> SUFFICES ASSUME TypeOK, OneLeft, [Next]_vars, MaxBranches = 1, NEW d \in Events
             PROVE  /\ \A m, n \in task'[d].nvrs : m = n
                    /\ \A m, n \in task'[d].left : m = n
  BY DEF OneLeft
<1>1. /\ \A m, n \in task[d].nvrs : m = n
      /\ \A m, n \in task[d].left : m = n
  BY DEF OneLeft
<1>2. CASE task'[d] = task[d]
  BY <1>1, <1>2
<1>3. ASSUME NEW nvrs \in SUBSET Nvrs, Trigger(d, nvrs)
      PROVE  /\ \A m, n \in task'[d].nvrs : m = n
             /\ \A m, n \in task'[d].left : m = n
  <2>1. IsFiniteSet(nvrs) /\ Cardinality(nvrs) \in Nat /\ Cardinality(nvrs) <= 1 /\ nvrs # {}
    BY <1>3, BoundsAssumption, FS_Subset, FS_CardinalityType DEF Trigger
  <2>2. Cardinality(nvrs) = 1
    BY <2>1, FS_EmptySet
  <2>3. \A m, n \in nvrs : m = n
    BY <2>1, <2>2, FS_Singleton
  <2>4. task'[d] = [task[d] EXCEPT !.pc = Start, !.nvrs = nvrs, !.cutoff = groups]
    BY <1>3 DEF Trigger, TypeOK
  <2>5. task'[d].nvrs = nvrs /\ task'[d].left = task[d].left
    BY <2>4 DEF TypeOK, Task
  <2> QED
    BY <1>1, <2>3, <2>5
<1>4. CASE Cancel(d) \/ Group(d) \/ Run(d) \/ Fail(d)
  BY <1>1, <1>4, LeftKept
<1>5. ASSUME NEW e \in Events \ {d},
             (\E nvrs \in SUBSET Nvrs : Trigger(e, nvrs)) \/ Cancel(e) \/ Group(e) \/ Run(e) \/ Fail(e)
      PROVE  task'[d] = task[d]
  BY <1>5, OtherTasks
<1>6. CASE task' = task
  BY <1>2, <1>6
<1> QED
  BY <1>2, <1>3, <1>4, <1>5, <1>6 DEF Next, KojiBegin, KojiEnd, Take, Store, StoreFails, vars

\* A step of a task leaves none of its targets that are still to be done: what it
\* makes needy it covers, and what it covered it covers as long as it is needy.
LEMMA CoverCancel ==
    ASSUME IInv, TypeOK', NEW e \in Events, NEW r \in Rows, Needy(r)',
           Cancel(e) \/ \E nvrs \in SUBSET Nvrs : Trigger(e, nvrs)
    PROVE  Needy(r) /\ (Covers(e, r) => Covers(e, r)')
<1>1. /\ task[e] \in Task /\ task \in [Events -> Task] /\ rows \in [Rows -> Row] /\ TasksTrue
  BY DEF IInv, TypeOK
<1>2. ASSUME NEW nvrs \in SUBSET Nvrs, Trigger(e, nvrs) PROVE Needy(r) /\ ~Covers(e, r)
  BY <1>2 DEF Trigger, Needy, Covers, Working
<1>3. ASSUME NEW S \in SUBSET Rows, task'[e] = AfterCancel([task[e] EXCEPT !.todo = S])
      PROVE  /\ task'[e].pc \in {"group", "cancelling"} /\ task'[e].group = task[e].group
  BY <1>1, <1>3 DEF AfterCancel, Task
<1>4. CASE CancelRead(e)
  <2>1. task'[e] = AfterCancel([task[e] EXCEPT !.todo = RunningJobs(task[e])])
    BY <1>1, <1>4 DEF CancelRead
  <2>2. task'[e].pc \in {"group", "cancelling"} /\ task'[e].group = task[e].group
    BY <1>3, <2>1 DEF RunningJobs
  <2> QED
    BY <1>4, <2>2 DEF CancelRead, Needy, Covers
<1>5. CASE CancelMark(e)
  <2>1. task[e].row \in Rows /\ SetStatus(task[e].row, "canceled")
    BY <1>1, <1>5 DEF CancelMark, TasksTrue, TaskTrue, OldTargets
  <2>2. r # task[e].row
    BY <1>1, <2>1 DEF SetStatus, Needy, Open, Row
  <2>3. rows'[r] = rows[r]
    BY <1>1, <2>1, <2>2 DEF SetStatus
  <2>4. task'[e] = AfterCancel([task[e] EXCEPT !.todo = task[e].todo])
    BY <1>1, <1>5 DEF CancelMark, AfterCancel, Task
  <2>5. task'[e].pc \in {"group", "cancelling"} /\ task'[e].group = task[e].group
    BY <1>1, <1>3, <2>4 DEF Task
  <2> QED
    BY <2>3, <2>5 DEF Needy, Covers
<1>6. ASSUME NEW q \in Rows, CancelInKoji(e, q) PROVE Needy(r) /\ (Covers(e, r) => Covers(e, r)')
  <2>1. task'[e] = [task[e] EXCEPT !.pc = "mark cancel", !.row = q, !.todo = task[e].todo \ {q}]
    BY <1>1, <1>6 DEF CancelInKoji
  <2>2. task'[e].pc = "mark cancel" /\ task'[e].group = task[e].group
    BY <1>1, <2>1 DEF Task
  <2> QED
    BY <1>6, <2>2 DEF CancelInKoji, Needy, Covers
<1> QED
  BY <1>2, <1>4, <1>5, <1>6 DEF Cancel

LEMMA CoverGroup ==
    ASSUME IInv, OneLeft, MaxBranches = 1, TypeOK', NEW e \in Events, NEW r \in Rows, Needy(r)',
           Group(e)
    PROVE  Covers(e, r)' \/ (Needy(r) /\ ~Covers(e, r))
<1>1. /\ task[e] \in Task /\ task \in [Events -> Task] /\ rows \in [Rows -> Row] /\ RowTrue(r)
  BY DEF IInv, TypeOK, RowsTrue
<1>2. CASE GetGroup(e)
  <2>1. /\ rows' = rows /\ Grouped(task[e].group) \in SUBSET Rows
        /\ task'[e] = NextRow([task[e] EXCEPT !.todo = Grouped(task[e].group)])
    BY <1>1, <1>2 DEF GetGroup, Grouped
  <2>2. CASE r \in Grouped(task[e].group)
    <3>1. /\ task'[e].pc = "loop" /\ task'[e].todo = Grouped(task[e].group)
          /\ task'[e].group = task[e].group
      BY <1>1, <2>1, <2>2 DEF NextRow, Task
    <3> QED
      BY <2>1, <2>2, <3>1 DEF Covers, Grouped
  <2>3. CASE r \notin Grouped(task[e].group)
    BY <2>1, <2>3 DEF Covers, Grouped, Needy, Open
  <2> QED
    BY <2>2, <2>3
<1>3. CASE CreateGroup(e)
  <2>1. Needy(r) /\ rows[r].group # 0
    BY <1>1, <1>3 DEF CreateGroup, Needy, Open, RowTrue
  <2> QED
    BY <1>3, <2>1 DEF CreateGroup, Covers, None
<1>4. CASE GroupFails(e)
  BY <1>4 DEF GroupFails, Needy, Covers, Working
<1>5. ASSUME NEW nvr \in Nvrs, CreateRow(e, nvr)
      PROVE  Covers(e, r)' \/ (Needy(r) /\ ~Covers(e, r))
  <2>1. PICK q \in Rows :
          /\ rows' = [rows EXCEPT ![q] = [status |-> "queued", nvr |-> nvr, group |-> task[e].group,
                                          id |-> None, again |-> FALSE]]
          /\ task' = [task EXCEPT ![e] =
                [task[e] EXCEPT !.left = task[e].left \ {nvr}, !.todo = task[e].todo \cup {q},
                          !.pc = IF task[e].left = {nvr} THEN "loop" ELSE "create"]]
    BY <1>5 DEF CreateRow
  <2>2. task[e].pc = "create" /\ task[e].left = {nvr}
    BY <1>5 DEF CreateRow, OneLeft
  <2>3. CASE r = q
    <3>1. task'[e] = [task[e] EXCEPT !.left = task[e].left \ {nvr}, !.todo = task[e].todo \cup {q},
                                     !.pc = "loop"]
      BY <1>1, <2>1, <2>2
    <3>2. task'[e].pc = "loop" /\ r \in task'[e].todo /\ task'[e].group = task[e].group
      BY <1>1, <2>3, <3>1 DEF Task
    <3>3. rows'[r].group = task[e].group
      BY <1>1, <2>1, <2>3
    <3> QED
      BY <3>2, <3>3 DEF Covers
  <2>4. CASE r # q
    BY <1>1, <2>1, <2>2, <2>4 DEF Needy, Covers, Working
  <2> QED
    BY <2>3, <2>4
<1> QED
  BY <1>2, <1>3, <1>4, <1>5 DEF Group

LEMMA CoverRun ==
    ASSUME IInv, Saved, TypeOK', NEW e \in Events, NEW r \in Rows, Needy(r)', Run(e),
           \A k \in KojiTasks : ~AnswerLost(e, k)
    PROVE  Covers(e, r)' \/ (Needy(r) /\ ~Covers(e, r))
<1> DEFINE Goal == Covers(e, r)' \/ (Needy(r) /\ ~Covers(e, r))
<1>1. /\ task[e] \in Task /\ task \in [Events -> Task] /\ rows \in [Rows -> Row]
      /\ task[e].todo \subseteq Rows /\ OwnTargets(e) /\ OwnBuild(e)
  BY DEF IInv, TypeOK, TasksTrue, TaskTrue, Task
<1>2. task[e].pc \in Working => task[e].row \in Rows /\ rows[task[e].row].group = task[e].group
  BY <1>1 DEF OwnTargets
\* A step that does not touch the target and keeps it on the list.
<1>3. ASSUME rows'[r] = rows[r], task'[e].group = task[e].group, Covers(e, r) => Covers(e, r)'
      PROVE  Goal
  BY <1>3 DEF Needy
<1>4. ASSUME NEW q \in Rows, Skip(e, q) PROVE Goal
  <2>1. /\ rows' = rows /\ task[e].pc = "loop" /\ rows[q].status \notin Open
        /\ task[e].todo \ {q} \in SUBSET Rows
        /\ task'[e] = NextRow([task[e] EXCEPT !.todo = task[e].todo \ {q}])
    BY <1>1, <1>4 DEF Skip
  <2>2. /\ task'[e].pc = IF task[e].todo \ {q} = {} THEN "end" ELSE "loop"
        /\ task'[e].todo = task[e].todo \ {q} /\ task'[e].group = task[e].group
    BY <1>1, <2>1 DEF NextRow, Task
  <2>3. r # q
    BY <2>1 DEF Needy
  <2> QED
    BY <2>1, <2>2, <2>3 DEF Needy, Covers, Working
<1>5. ASSUME NEW q \in Rows, Begin(e, q) PROVE Goal
  <2>1. /\ task[e].pc = "loop"
        /\ task'[e] = [task[e] EXCEPT !.pc = "query", !.row = q, !.todo = task[e].todo \ {q}]
    BY <1>1, <1>5 DEF Begin
  <2>2. /\ task'[e].pc = "query" /\ task'[e].row = q /\ task'[e].todo = task[e].todo \ {q}
        /\ task'[e].group = task[e].group
    BY <1>1, <2>1 DEF Task
  <2>3. /\ rows'[r].status = rows[r].status /\ rows'[r].id = rows[r].id
        /\ rows'[r].group = rows[r].group
    BY <1>1, <1>5 DEF Begin, Row
  <2> QED
    BY <2>1, <2>2, <2>3 DEF Needy, Covers, Working
<1>6. CASE Query(e) \/ Ask(e)
  <2>1. /\ task[e].pc \in Working /\ task'[e].pc \in Working /\ task'[e].row = task[e].row
        /\ task'[e].todo = task[e].todo /\ task'[e].group = task[e].group
    BY <1>1, <1>6 DEF Query, Ask, Task, Working
  <2> QED
    BY <1>6, <2>1 DEF Query, Ask, Needy, Covers, Working
<1>7. ASSUME task[e].pc \in Working, task'[e] = NextRow(task[e]), rows'[r] = rows[r],
             r # task[e].row
      PROVE  Goal
  <2>1. /\ task'[e].pc = IF task[e].todo = {} THEN "end" ELSE "loop"
        /\ task'[e].todo = task[e].todo /\ task'[e].group = task[e].group
    BY <1>1, <1>7 DEF NextRow, Task
  <2> QED
    BY <1>7, <2>1 DEF Needy, Covers, Working
<1>8. ASSUME NEW status \in Status \ Open, task[e].pc \in Working,
             SetStatus(task[e].row, status), task'[e] = NextRow(task[e])
      PROVE  Goal
  <2>1. r # task[e].row
    BY <1>1, <1>8 DEF SetStatus, Needy, Row
  <2>2. rows'[r] = rows[r]
    BY <1>1, <1>2, <1>8, <2>1 DEF SetStatus
  <2> QED
    BY <1>7, <1>8, <2>1, <2>2
<1>9. CASE SetSkipped(e)
  BY <1>1, <1>8, <1>9 DEF SetSkipped, Working, Status, Open
<1>10. CASE SetPending(e)
  <2>1. /\ task[e].pc \in Working /\ task'[e].pc \in Working /\ task'[e].row = task[e].row
        /\ task'[e].todo = task[e].todo /\ task'[e].group = task[e].group
    BY <1>1, <1>10 DEF SetPending, Task, Working
  <2>2. CASE r = task[e].row
    <3>1. rows'[r].group = rows[r].group
      BY <1>1, <1>10, <2>2 DEF SetPending, SetStatus, Row
    <3> QED
      BY <1>2, <2>1, <2>2, <3>1 DEF Covers
  <2>3. CASE r # task[e].row
    <3>1. rows'[r] = rows[r]
      BY <1>1, <1>2, <1>10, <2>1, <2>3 DEF SetPending, SetStatus
    <3> QED
      BY <2>1, <3>1 DEF Needy, Covers, Working
  <2> QED
    BY <2>2, <2>3
<1>11. ASSUME NEW k \in KojiTasks, Submit(e, k) PROVE Goal
  <2>1. rows' = rows /\ task[e].pc = "submit" /\ task'[e] = [task[e] EXCEPT !.pc = "save", !.id = k]
    BY <1>1, <1>11 DEF Submit
  <2>2. /\ task'[e].pc = "save" /\ task'[e].row = task[e].row /\ task'[e].todo = task[e].todo
        /\ task'[e].group = task[e].group
    BY <1>1, <2>1 DEF Task
  <2> QED
    BY <2>1, <2>2 DEF Needy, Covers, Working
<1>12. CASE SetTaskId(e)
  <2>1. /\ task[e].pc = "save" /\ task[e].row \in Rows /\ task[e].id # None
        /\ task'[e] = NextRow(task[e])
    BY <1>1, <1>2, <1>12, Constants DEF SetTaskId, OwnBuild, Working
  <2>2. ASSUME r = task[e].row PROVE FALSE
    <3>1. rows[r].status \notin {"queued", "retry"}
      BY <2>1, <2>2 DEF Saved
    <3>2. rows'[r].id # None /\ rows'[r].status = rows[r].status
      BY <1>1, <1>12, <2>1, <2>2 DEF SetTaskId, Row
    <3> QED
      BY <3>1, <3>2 DEF Needy, Open
  <2>3. rows'[r] = rows[r]
    BY <1>1, <1>12, <2>1, <2>2 DEF SetTaskId
  <2> QED
    BY <1>7, <2>1, <2>2, <2>3 DEF Working
<1>13. CASE SubmitFails(e)
  <2>1. task[e].pc \in Working
    BY <1>13 DEF SubmitFails, Working
  <2>2. CASE task[e].retries < MaxRetries
    <3>1. /\ rows' = rows /\ Grouped(task[e].group) \in SUBSET Rows
          /\ task'[e] = [task[e] EXCEPT !.pc = "mark", !.todo = Grouped(task[e].group)]
      BY <1>1, <1>13, <2>2 DEF SubmitFails, BuildFails, Grouped
    <3>2. task'[e].pc = "mark" /\ task'[e].group = task[e].group
      BY <1>1, <3>1 DEF Task
    <3> QED
      BY <3>1, <3>2 DEF Needy, Covers
  <2>3. CASE ~(task[e].retries < MaxRetries)
    <3>1. "error" \in Status \ Open
      BY DEF Status, Open, Final
    <3>2. SetStatus(task[e].row, "error") /\ task'[e] = NextRow(task[e])
      BY <1>1, <1>13, <2>3 DEF SubmitFails, BuildFails
    <3> QED
      BY <1>8, <2>1, <3>1, <3>2
  <2> QED
    BY <2>2, <2>3
<1>14. ASSUME NEW q \in Rows, MarkRetry(e, q) PROVE Goal
  <2>1. /\ task[e].pc = "mark" /\ q \in task[e].todo
        /\ task'[e] = [task[e] EXCEPT !.todo = task[e].todo \ {q},
                                      !.pc = IF task[e].todo = {q} THEN "retry" ELSE "mark"]
    BY <1>1, <1>14 DEF MarkRetry
  <2>2. task'[e].pc \in {"mark", "retry"} /\ task'[e].group = task[e].group
    BY <1>1, <2>1 DEF Task
  <2>3. rows[q].group = task[e].group
    BY <1>1, <2>1 DEF OwnTargets
  <2>4. rows'[r].group = rows[r].group /\ (r # q => rows'[r] = rows[r])
    BY <1>1, <1>14 DEF MarkRetry, SetStatus, Row
  <2>5. CASE r = q
    BY <2>2, <2>3, <2>4, <2>5 DEF Covers
  <2>6. CASE r # q
    BY <2>1, <2>2, <2>4, <2>6 DEF Needy, Covers
  <2> QED
    BY <2>5, <2>6
<1>15. CASE Retry(e)
  <2>1. /\ rows' = rows
        /\ task'[e] = Fresh(task[e], task[e].group, task[e].retries + 1)
    BY <1>1, <1>15 DEF Retry
  <2>2. task'[e].pc \in {"start", "group"} /\ task'[e].group = task[e].group
    BY <1>1, <2>1 DEF Fresh, Start, Task
  <2> QED
    BY <2>1, <2>2 DEF Needy, Covers
<1>16. CASE Acknowledge(e)
  BY <1>16 DEF Acknowledge, Needy, Covers, Working
<1> QED
  BY <1>4, <1>5, <1>6, <1>9, <1>10, <1>11, <1>12, <1>13, <1>14, <1>15, <1>16 DEF Run

LEMMA CoveredStep ==
    IInv /\ Saved /\ OneLeft /\ Covered /\ TypeOK' /\ Frame /\ [Next]_vars => Covered'
<1> SUFFICES ASSUME IInv, Saved, OneLeft, Covered, TypeOK', Frame, [Next]_vars,
                    faults' = 0, MaxBranches = 1, NEW r \in Rows, Needy(r)'
             PROVE  \E e \in Events : Covers(e, r)'
  BY DEF Covered
<1>1. TypeOK /\ rows \in [Rows -> Row] /\ faults \in Nat
  BY Constants DEF IInv, TypeOK
<1>2. ASSUME Fault PROVE FALSE
  BY <1>1, <1>2 DEF Fault
<1>3. ASSUME NEW d \in Events, Needy(r), Covers(d, r), task'[d] = task[d] PROVE Covers(d, r)'
  <2>1. rows'[r].group = rows[r].group
    BY <1>3 DEF Frame, Needy, Open
  <2> QED
    BY <1>3, <2>1 DEF Covers
<1>4. ASSUME faults' = faults, Needy(r) PROVE \E d \in Events : Covers(d, r)
  BY <1>4 DEF Covered
<1>5. ASSUME NEW e \in Events,
             (\E nvrs \in SUBSET Nvrs : Trigger(e, nvrs)) \/ Cancel(e) \/ Group(e) \/ Run(e)
      PROVE  \E d \in Events : Covers(d, r)'
  <2>1. \A k \in KojiTasks : ~AnswerLost(e, k)
    BY <1>2 DEF AnswerLost
  <2>2. faults' = faults
    BY <1>5, <2>1 DEF Trigger, Cancel, CancelRead, CancelInKoji, CancelMark, Group, GetGroup,
       CreateGroup, CreateRow, GroupFails, Run, Skip, Begin, Query, Ask, SetSkipped, SetPending,
       Submit, SetTaskId, SubmitFails, MarkRetry, Retry, Acknowledge
  <2>3. Covers(e, r)' \/ (Needy(r) /\ ~Covers(e, r))
    BY <1>5, <2>1, CoverCancel, CoverGroup, CoverRun
  <2>4. ASSUME Needy(r), ~Covers(e, r) PROVE \E d \in Events : Covers(d, r)'
    <3>1. PICK d \in Events : Covers(d, r)
      BY <1>4, <2>2, <2>4
    <3>2. task'[d] = task[d]
      BY <1>1, <1>5, <2>4, <3>1, OtherTasks
    <3> QED
      BY <1>3, <2>4, <3>1, <3>2
  <2> QED
    BY <2>3, <2>4
<1>6. ASSUME task' = task, faults' = faults, Needy(r) PROVE \E d \in Events : Covers(d, r)'
  <2>1. PICK d \in Events : Covers(d, r)
    BY <1>4, <1>6
  <2>2. task'[d] = task[d]
    BY <1>6
  <2> QED
    BY <1>3, <1>6, <2>1, <2>2
<1>7. ASSUME NEW h \in storing, Store(h) PROVE \E d \in Events : Covers(d, r)'
  <2>1. h.row \in Rows /\ NewStatus(h.state) \notin Open
    BY <1>1 DEF TypeOK, States, NewStatus, Open
  <2>2. r # h.row
    BY <1>1, <1>7, <2>1 DEF Store, SetStatus, Needy, Row
  <2>3. rows'[r] = rows[r]
    BY <1>1, <1>7, <2>1, <2>2 DEF Store, SetStatus
  <2>4. task' = task /\ faults' = faults /\ Needy(r)
    BY <1>7, <2>3 DEF Store, Needy
  <2> QED
    BY <1>6, <2>4
<1>8. CASE task' = task /\ faults' = faults /\ rows' = rows
  <2>1. Needy(r)
    BY <1>8 DEF Needy
  <2> QED
    BY <1>6, <1>8, <2>1
<1>9. ASSUME NEW e \in Events, Fail(e) PROVE FALSE
  BY <1>2, <1>9 DEF Fail
<1>10. ASSUME NEW h \in storing, StoreFails(h) PROVE FALSE
  BY <1>2, <1>10 DEF StoreFails
<1> QED
  BY <1>5, <1>7, <1>8, <1>9, <1>10 DEF Next, KojiBegin, KojiEnd, Take, vars

-----------------------------------------------------------------------------
(* Theorems                                                                *)

LEMMA InitIInv == Init => IInv
<1> SUFFICES ASSUME Init PROVE IInv
  OBVIOUS
<1>1. Absent \in Task /\ Absent.pc = "absent" /\ Absent.group = 0 /\ Absent.given = 0
      /\ Absent.cutoff = 0 /\ Absent.row = None /\ Absent.todo = {}
  <2>1. 0 \in 0..MaxGroups /\ 0 \in 0..MaxRetries /\ "absent" \in Steps
    BY Constants DEF Steps
  <2> QED
    BY <2>1 DEF Absent, Task
<1>2. TypeOK
  <2>1. 0 \in 0..MaxGroups /\ 0 \in 0..MaxFaults
    BY Constants
  <2>2. /\ task \in [Events -> Task] /\ rows \in [Rows -> Row] /\ koji \in [KojiTasks -> Build]
    BY <1>1, <2>1 DEF Init, Row, Build, Status
  <2> QED
    BY <2>1, <2>2 DEF Init, TypeOK
<1>3. TasksTrue
  <2> SUFFICES ASSUME NEW e \in Events PROVE TaskTrue(e)
    BY DEF TasksTrue
  <2>1. task[e] = Absent /\ groups = 0
    BY DEF Init
  <2>2. OwnGroup(e)
    BY <1>1, <2>1 DEF OwnGroup, Working
  <2>3. OwnTargets(e) /\ OldTargets(e) /\ OwnBuild(e)
    BY <1>1, <2>1 DEF OwnTargets, OldTargets, OwnBuild, Working
  <2> QED
    BY <2>2, <2>3 DEF TaskTrue
<1>4. GroupsTrue /\ Kept
  BY <1>1 DEF Init, GroupsTrue, Kept, Working
<1>5. RowsTrue /\ KojiTrue /\ ReportsTrue /\ HandlersTrue /\ StatusTrue
  BY DEF Init, RowsTrue, RowTrue, KojiTrue, ReportsTrue, HandlersTrue, StatusTrue
<1>6. \A r \in Rows : ~Claimed(r)
  BY <1>1 DEF Init, Claimed
<1> QED
  BY <1>2, <1>3, <1>4, <1>5, <1>6 DEF IInv, OncePerNvr

LEMMA StepIInv == IInv /\ [Next]_vars => IInv'
<1> SUFFICES ASSUME IInv, [Next]_vars PROVE IInv'
  OBVIOUS
<1>1. TypeOK'
  BY TypeStep DEF IInv
<1>2. Frame
  BY <1>1, FrameStep
<1>3. TasksTrue'
  BY <1>1, <1>2, TaskStep
<1> QED
  BY <1>1, <1>2, <1>3, GroupStep, KeptStep, RowsStep, KojiStep, ReportsStep, HandlersStep,
     StatusStep, OnceStep DEF IInv

LEMMA InitBInv == Init => BInv
<1> SUFFICES ASSUME Init PROVE BInv
  OBVIOUS
<1>1. /\ Absent.pc = "absent" /\ Absent.nvrs = {} /\ Absent.left = {}
      /\ "none" \notin Open
  BY DEF Absent, Open
<1>2. Saved /\ OneLeft /\ Covered
  BY <1>1 DEF Init, Saved, OneLeft, Covered, Needy
<1> QED
  BY <1>2, InitIInv DEF BInv

LEMMA StepBInv == BInv /\ [Next]_vars => BInv'
<1> SUFFICES ASSUME BInv, [Next]_vars PROVE BInv'
  OBVIOUS
<1>1. IInv /\ IInv' /\ TypeOK /\ TypeOK'
  BY StepIInv DEF BInv, IInv
<1>2. Frame
  BY <1>1, FrameStep
<1> QED
  BY <1>1, <1>2, SavedStep, LeftStep, CoveredStep DEF BInv

LEMMA Invariant == Spec => []IInv
  BY InitIInv, StepIInv, PTL DEF Spec

\* Every variable has its type.
THEOREM TypeCorrect == Spec => []TypeOK
<1>1. IInv => TypeOK
  BY DEF IInv
<1> QED
  BY <1>1, Invariant, PTL

\* An NVR is never on its way to Koji, or built there, for two targets, unless one
\* of them is built again after it was submitted: for all interleavings of any
\* number of tasks, their retries and crashes.
THEOREM NvrOnce == Spec => []OncePerNvr
<1>1. IInv => OncePerNvr
  BY DEF IInv
<1> QED
  BY <1>1, Invariant, PTL

\* No order of messages makes a target succeed or fail when its builds did not.
THEOREM StatusIsTrue == Spec => []StatusTrue
<1>1. IInv => StatusTrue
  BY DEF IInv
<1> QED
  BY <1>1, Invariant, PTL

\* A task never cancels targets of its own or of a newer event.
THEOREM BatchKept == Spec => []CurrentBatchKept
<1>1. ASSUME IInv, NEW e \in Events, NEW r \in Rows, rows[r].group <= task[e].cutoff,
             NEW d \in Events, task[d].group > task[e].cutoff
      PROVE  rows[r].group # task[d].group
  <2>1. task[e] \in Task /\ task[d] \in Task /\ rows[r] \in Row
    BY <1>1 DEF IInv, TypeOK
  <2>2. rows[r].group \in Nat /\ task[d].group \in Nat /\ task[e].cutoff \in Nat
    BY <2>1, Constants DEF Task, Row
  <2> QED
    BY <1>1, <2>2
<1>2. IInv => CurrentBatchKept
  <2> SUFFICES ASSUME IInv, NEW e \in Events, task[e].pc \in {"cancelling", "mark cancel"},
                      NEW r \in task[e].todo \cup ({task[e].row} \ {None}),
                      NEW d \in Events, d >= e, task[d].group # None
               PROVE  rows[r].group # task[d].group
    BY DEF CurrentBatchKept
  <2>1. r \in Rows
    BY DEF IInv, TypeOK, Task
  <2>2. rows[r].group <= task[e].cutoff
    BY DEF IInv, TasksTrue, TaskTrue, OldTargets
  <2>3. task[d].group > task[e].cutoff
    BY Constants DEF IInv, GroupsTrue
  <2> QED
    BY <1>1, <2>1, <2>2, <2>3
<1> QED
  BY <1>2, Invariant, PTL

\* Without faults, and with one branch for each event, no target keeps others from
\* building its NVR while nobody works on it: for all interleavings of any number
\* of tasks, their retries, and those that cancel them.
THEOREM NothingBlocked == Spec => []NotBlocked
<1>1. BInv => NotBlocked
  <2> SUFFICES ASSUME BInv, faults = 0, MaxBranches = 1, NEW r \in Rows,
                      ~(rows[r].status = "pending" /\ rows[r].id # None), rows[r].status \in Open
               PROVE  \E e \in Events : /\ task[e].group = rows[r].group
                                        /\ task[e].pc \notin {"absent", "end", "done"}
    BY DEF NotBlocked
  <2>1. PICK e \in Events : Covers(e, r)
    BY DEF BInv, Covered, Needy
  <2>2. task[e].pc \notin {"absent", "end", "done"}
    BY <2>1 DEF Covers, Working
  <2> QED
    BY <2>1, <2>2 DEF Covers
<1>2. Spec => []BInv
  BY InitBInv, StepBInv, PTL DEF Spec
<1> QED
  BY <1>1, <1>2, PTL
===============================================================================
