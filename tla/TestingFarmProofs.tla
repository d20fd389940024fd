------------------------- MODULE TestingFarmProofs -------------------------
(***************************************************************************)
(* Proofs about TestingFarm, for any targets, events, runs, requests,      *)
(* retries and faults.                                                     *)
(*                                                                         *)
(* Messages, handlers and tasks carry what they read when it was true.     *)
(* The invariant says why it still is when they write: requests that have  *)
(* ended stay as they are and keep their run, a row keeps its batch and    *)
(* its time, and a pipeline is not older than its batch.                   *)
(*                                                                         *)
(* Requests are counted by who may make them: a run has one task that      *)
(* works on it, through retries and crashes, and this task asks again only *)
(* when a fault has paid for it.                                           *)
(***************************************************************************)
EXTENDS TestingFarm, FiniteSetTheorems, TLAPS

\* Testing Farm has accepted q for r.
Accepted(q, r) == q \in Requests /\ farm[q].state # "none" /\ farm[q].run = r

\* What was said of a request is still true, or was, and is no more than "queued"
\* or "running".
Said(q, result) ==
    /\ farm[q].state # "none"
    /\ result = "running" => farm[q].state # "queued"
    /\ result \in Results => farm[q].state = result

RequestsKnown ==
    /\ \A q \in Requests : farm[q].state = "none" => farm[q].run = None
    /\ \A r \in Runs : runs[r].request # None =>
          Accepted(runs[r].request, r) /\ runs[r].status # "none"

MessagesTrue == \A m \in results : Said(m.request, m.result)

HandlersTrue ==
    \A h \in storing : /\ Said(h.request, h.result)
                       /\ farm[h.request].run = h.run
                       /\ runs[h.run].status # "none"

\* A row made at `time' for batch b is not older than the batch.
NotOlder(b, time) == b \in Pushes /\ batches[b].time # 0 /\ batches[b].time <= time

\* Pipelines in the order in which they were made.
Ages ==
    /\ pushed <= triggers
    /\ \A b \in Pushes : /\ batches[b].time <= now
                         /\ b > pushed => batches[b].time = 0
    /\ \A p \in sending : p.batch <= pushed
    /\ \A r \in Runs : runs[r].status # "none" => NotOlder(runs[r].batch, runs[r].time)

\* A task has a run to work on and a retry left; the tests it makes are not older
\* than its batch, and those it cancels are of other batches, if it spares siblings.
TaskTrue(t) ==
    /\ t.pc \in {"posted", "pid", "report", "retrying"} =>
          t.run \in Runs /\ runs[t.run].status # "none"
    /\ t.pc = "posted" => Accepted(t.request, t.run)
    /\ t.pc = "retrying" => t.retries < MaxRetries
    /\ t.pc \notin {"cancel", "cancelling"} => t.kind # "push"
    /\ t.pc = "cancel" => t.run = None
    /\ t.batch <= pushed
    /\ t.cutoff <= now
    /\ t.kind # "push" => batches[t.batch].time # 0
    /\ t.kind = "build" => t.cutoff < batches[t.batch].time
    /\ t.pc = "create" => batches[t.batch].time <= t.time
    /\ t.pc = "cancelling" =>
          \A r \in t.todo \cup ({t.run} \ {None}) :
              runs[r].status # "none" /\ (SparesSiblings(t) => runs[r].batch # t.batch)

TasksTrue == \A t \in tasks : TaskTrue(t)

IInv == /\ TypeOK /\ RequestsKnown /\ MessagesTrue /\ HandlersTrue
        /\ Ages /\ TasksTrue /\ ResultsTrue

-----------------------------------------------------------------------------
(* Types                                                                   *)

LEMMA Constants ==
    /\ MaxTriggers \in Nat /\ MaxRetries \in Nat /\ MaxFaults \in Nat
    /\ None \notin Runs /\ None \notin Requests
  BY BoundsAssumption DEF Runs, Requests, None

\* The tasks that a step leaves or makes are well-typed.
LEMMA TaskTypes ==
    ASSUME NEW t \in Task
    PROVE  /\ Fresh(t) \in Task
           /\ t.retries < MaxRetries => [Fresh(t) EXCEPT !.retries = @ + 1] \in Task
           /\ \A r \in Runs : /\ AfterRun(t, r) \subseteq Task
                             /\ [t EXCEPT !.todo = @ \ {r}, !.run = r] \in Task
                             /\ [t EXCEPT !.pc = "retrying", !.run = r] \in Task
           /\ AfterCancel(t) \subseteq Task
           /\ \A S \in SUBSET Runs : [t EXCEPT !.pc = "cancelling", !.todo = S] \in Task
           /\ [t EXCEPT !.run = None] \in Task
           /\ \A k \in Nat : [t EXCEPT !.pc = "create", !.left = t.only, !.time = k] \in Task
           /\ [t EXCEPT !.pc = "pid"] \in Task
           /\ [t EXCEPT !.pc = "report"] \in Task
<1>0. MaxRetries \in Nat
  BY Constants
<1>1. Fresh(t) \in Task
  BY DEF Task, Fresh
<1>2. ASSUME t.retries < MaxRetries PROVE [Fresh(t) EXCEPT !.retries = @ + 1] \in Task
  <2>1. ASSUME NEW u \in Task, u.retries < MaxRetries PROVE [u EXCEPT !.retries = @ + 1] \in Task
    BY <1>0, <2>1 DEF Task
  <2>2. Fresh(t).retries = t.retries
    BY DEF Task, Fresh
  <2> QED
    BY <1>1, <1>2, <2>1, <2>2
<1>3. ASSUME NEW r \in Runs PROVE AfterRun(t, r) \subseteq Task
  <2>1. [t EXCEPT !.pc = "loop", !.todo = @ \ {r}, !.run = None, !.request = None] \in Task
    BY DEF Task
  <2> QED
    BY <2>1 DEF AfterRun
<1>4. AfterCancel(t) \subseteq Task
  <2>1. [t EXCEPT !.pc = "group"] \in Task
    BY DEF Task
  <2>2. ASSUME t.target # None PROVE [t EXCEPT !.pc = "loop", !.todo = {t.target}] \in Task
    BY <2>2 DEF Task
  <2> QED
    BY <2>1, <2>2 DEF AfterCancel
<1>5. ASSUME NEW S \in SUBSET Runs PROVE [t EXCEPT !.pc = "cancelling", !.todo = S] \in Task
  BY DEF Task
<1>6. [t EXCEPT !.run = None] \in Task
  BY DEF Task
<1>7. ASSUME NEW r \in Runs
      PROVE  /\ [t EXCEPT !.todo = @ \ {r}, !.run = r] \in Task
             /\ [t EXCEPT !.pc = "retrying", !.run = r] \in Task
  BY DEF Task
<1>8. ASSUME NEW k \in Nat PROVE [t EXCEPT !.pc = "create", !.left = t.only, !.time = k] \in Task
  BY DEF Task
<1>9. [t EXCEPT !.pc = "pid"] \in Task /\ [t EXCEPT !.pc = "report"] \in Task
  BY DEF Task
<1> QED
  BY <1>1, <1>2, <1>3, <1>4, <1>5, <1>6, <1>7, <1>8, <1>9

LEMMA StatusTypes ==
    ASSUME TypeOK, NEW r \in Runs, NEW status \in Status, SetStatus(r, status)
    PROVE  runs' \in [Runs -> Run]
  BY ZenonT(60) DEF TypeOK, SetStatus, Run

\* Events ...
LEMMA TypeEvent == TypeOK /\ Ages /\ Event => TypeOK'
<1> SUFFICES ASSUME TypeOK, Ages, Event PROVE TypeOK'
  OBVIOUS
<1> USE Constants DEF Pushes
<1>1. ASSUME NEW kind \in {"push", "build", "comment"}, NEW b \in Pushes, NEW k \in Nat,
             NEW S \in SUBSET Targets, Trigger(kind, b, k, S)
      PROVE  /\ tasks' \subseteq Task
             /\ triggers' \in 0..MaxTriggers
             /\ UNCHANGED <<runs, farm, results, storing, pushed, sending, now, faults>>
  BY <1>1 DEF Trigger, NextTrigger, NewTask, TypeOK, Task
<1>2. CASE Push
  BY <1>2 DEF Push, NextTrigger, TypeOK, Ages
<1>6. ASSUME NEW p \in sending, SendPush(p) PROVE TypeOK'
  <2>1. NewTask("push", p.batch, p.trigger, now, Targets) \in Task
    BY DEF NewTask, Task, TypeOK
  <2> QED
    BY <1>6, <2>1 DEF SendPush, TypeOK
<1>3. CASE Comment
  BY <1>1, <1>3 DEF Comment, TypeOK
<1>4. ASSUME NEW b \in Pushes, NewBatch(b) PROVE TypeOK'
  BY <1>4 DEF NewBatch, TypeOK, Batch
<1>5. ASSUME NEW b \in Pushes, NEW x \in Targets, BuildEnd(b, x) PROVE TypeOK'
  <2>1. batches[b].time - 1 \in Nat
    BY <1>5 DEF BuildEnd, TypeOK, Batch
  <2>2. batches' \in [Pushes -> Batch]
    BY <1>5 DEF BuildEnd, TypeOK, Batch
  <2> QED
    BY <1>1, <1>5, <2>1, <2>2 DEF BuildEnd, TypeOK
<1> QED
  BY <1>2, <1>3, <1>4, <1>5, <1>6 DEF Event

\* ... steps of tasks that go well ...
LEMMA TypeTask == ASSUME TypeOK, TasksTrue, NEW t \in tasks, Step(t) PROVE TypeOK'
<1>0. t \in Task /\ t.batch \in Pushes /\ t.todo \subseteq Runs /\ t.left \subseteq Targets
  BY DEF TypeOK, Task
<1>1. ASSUME NEW S \in SUBSET Task, Becomes(t, S) PROVE tasks' \subseteq Task
  BY <1>1 DEF Becomes, TypeOK
<1>a. ASSUME NEW u \in Task, Becomes(t, {u}) PROVE tasks' \subseteq Task
  BY <1>a DEF Becomes, TypeOK
<1>2. CASE CancelRead(t)
  <2>1. [t EXCEPT !.pc = "cancelling", !.todo = Cancellable(t)] \in Task
    BY <1>0, TaskTypes DEF Cancellable
  <2> QED
    BY <1>0, <1>1, <1>2, <2>1, TaskTypes DEF CancelRead, TypeOK
<1>3. ASSUME NEW r \in Runs, CancelInFarm(t, r) PROVE TypeOK'
  <2>1. farm' \in [Requests -> [state : {"none"} \cup Running \cup Results, run : Runs \cup {None}]]
    BY <1>3 DEF CancelInFarm, TypeOK, Results, Run
  <2>2. [t EXCEPT !.todo = @ \ {r}, !.run = r] \in Task
    BY <1>0, TaskTypes
  <2>3. tasks' \subseteq Task
    BY <1>3, <1>a, <2>2 DEF CancelInFarm
  <2> QED
    BY <1>3, <2>1, <2>3 DEF CancelInFarm, TypeOK
<1>4. CASE CancelMark(t)
  <2>1. t.run \in Runs
    BY <1>0, <1>4 DEF CancelMark, Task
  <2>2. runs' \in [Runs -> Run]
    BY <1>4, <2>1, StatusTypes DEF CancelMark, Status, NotCompleted
  <2> QED
    BY <1>0, <1>1, <1>4, <2>2, TaskTypes DEF CancelMark, TypeOK
<1>5. CASE CreateGroup(t)
  <2>1. batches' \in [Pushes -> Batch]
    <3>1. batches[t.batch] \in Batch
      BY <1>0 DEF TypeOK
    <3>2. [batches[t.batch] EXCEPT !.bare = FALSE] \in Batch
      BY <3>1 DEF Batch
    <3> QED
      BY <1>0, <1>5, <3>2 DEF CreateGroup, TypeOK
  <2>2. now' \in Nat /\ (IF batches[t.batch].bare THEN batches[t.batch].time ELSE now + 1) \in Nat
    BY <1>0, <1>5 DEF CreateGroup, TypeOK, Batch
  <2>3. [t EXCEPT !.pc = "create", !.left = t.only,
                  !.time = IF batches[t.batch].bare THEN batches[t.batch].time ELSE now + 1] \in Task
    BY <1>0, <2>2, TaskTypes
  <2>4. tasks' \subseteq Task
    BY <1>5, <1>a, <2>3 DEF CreateGroup
  <2> QED
    BY <1>5, <2>1, <2>2, <2>4 DEF CreateGroup, TypeOK
<1>6. ASSUME NEW x \in Targets, CreateTarget(t, x) PROVE TypeOK'
  <2>1. PICK r \in Runs :
          /\ runs' = [runs EXCEPT ![r] =
                [status |-> "new", request |-> None, target |-> x, batch |-> t.batch,
                 trigger |-> t.trigger, time |-> t.time]]
          /\ Becomes(t, {[t EXCEPT !.left = @ \ {x}, !.todo = @ \cup {r},
                                    !.pc = IF t.left = {x} THEN "loop" ELSE "create"]})
    BY <1>6 DEF CreateTarget
  <2>2. runs' \in [Runs -> Run]
    <3>1. t.trigger \in 0..MaxTriggers /\ t.time \in Nat
      BY <1>0, Constants DEF Task
    <3>2. [status |-> "new", request |-> None, target |-> x, batch |-> t.batch,
           trigger |-> t.trigger, time |-> t.time] \in Run
      BY <1>0, <3>1 DEF Run, Status, NotCompleted
    <3> QED
      BY <2>1, <3>2 DEF TypeOK
  <2>3. [t EXCEPT !.left = @ \ {x}, !.todo = @ \cup {r},
                  !.pc = IF t.left = {x} THEN "loop" ELSE "create"] \in Task
    BY <1>0 DEF Task
  <2> QED
    BY <1>1, <1>6, <2>1, <2>2, <2>3 DEF CreateTarget, TypeOK
<1>7. ASSUME NEW r \in Runs, Skip(t, r) \/ NotSubmitted(t, r) \/ PostRefused(t, r) PROVE TypeOK'
  <2>1. tasks' \subseteq Task
    BY <1>0, <1>1, <1>7, TaskTypes DEF Skip, NotSubmitted, PostRefused
  <2>2. runs' \in [Runs -> Run]
    BY <1>7, StatusTypes DEF Skip, NotSubmitted, PostRefused, Status, Final, TypeOK
  <2> QED
    BY <1>7, <2>1, <2>2, Constants DEF Skip, NotSubmitted, PostRefused, Fault, TypeOK
<1>8. ASSUME NEW r \in Runs, NEW q \in Requests, Post(t, r, q) PROVE TypeOK'
  <2>1. [t EXCEPT !.pc = "posted", !.run = r, !.request = q] \in Task
    BY <1>0 DEF Task
  <2>2. farm' \in [Requests -> [state : {"none"} \cup Running \cup Results, run : Runs \cup {None}]]
    BY <1>8 DEF Post, Accept, TypeOK, Running
  <2> QED
    BY <1>1, <1>8, <2>1, <2>2 DEF Post, TypeOK
<1>9. ASSUME NEW r \in Runs, PostFails(t, r) PROVE TypeOK'
  <2>1. tasks' \subseteq Task
    BY <1>0, <1>1, <1>9, TaskTypes DEF PostFails, RetryLater
  <2>2. runs' \in [Runs -> Run]
    BY <1>9, StatusTypes DEF PostFails, RetryLater, Status, Final
  <2> QED
    BY <1>9, <2>1, <2>2 DEF PostFails, TypeOK
<1>10. CASE SetPipelineId(t)
  <2>1. t.run \in Runs /\ t.request \in Requests
    BY <1>10 DEF SetPipelineId, TasksTrue, TaskTrue, Accepted
  <2>2. runs' \in [Runs -> Run]
    <3>1. [runs[t.run] EXCEPT !.request = t.request] \in Run
      BY <2>1 DEF TypeOK, Run
    <3> QED
      BY <1>10, <2>1, <3>1 DEF SetPipelineId, TypeOK
  <2> QED
    BY <1>0, <1>1, <1>10, <2>2, TaskTypes DEF SetPipelineId, TypeOK
<1>11. CASE SetQueued(t)
  <2>1. t.run \in Runs
    BY <1>11 DEF SetQueued, TasksTrue, TaskTrue, Accepted
  <2>2. runs' \in [Runs -> Run]
    BY <1>11, <2>1, StatusTypes DEF SetQueued, Status, NotCompleted
  <2> QED
    BY <1>0, <1>1, <1>11, <2>2, TaskTypes DEF SetQueued, TypeOK
<1>12. CASE Reported(t)
  <2>1. t.run \in Runs
    BY <1>12 DEF Reported, TasksTrue, TaskTrue, Accepted
  <2> QED
    BY <1>0, <1>1, <1>12, <2>1, TaskTypes DEF Reported, TypeOK
<1>13. CASE Retry(t)
  <2>1. t.run \in Runs /\ t.retries < MaxRetries
    BY <1>13 DEF Retry, TasksTrue, TaskTrue, Accepted
  <2>2. RetryTask(t) \in Task
    <3>1. [Fresh(t) EXCEPT !.retries = @ + 1] \in Task
      BY <1>0, <2>1, TaskTypes
    <3>2. ASSUME NEW u \in Task PROVE [u EXCEPT !.target = t.run] \in Task
      BY <2>1 DEF Task
    <3>3. RetryTask(t) = [[Fresh(t) EXCEPT !.retries = @ + 1] EXCEPT !.target = t.run]
      BY <1>0 DEF RetryTask, Fresh, Task
    <3> QED
      BY <3>1, <3>2, <3>3
  <2>3. AfterRun(t, t.run) \cup {RetryTask(t)} \subseteq Task
    BY <1>0, <2>1, <2>2, TaskTypes
  <2> QED
    BY <1>1, <1>13, <2>3 DEF Retry, TypeOK
<1> QED
  BY <1>2, <1>3, <1>4, <1>5, <1>6, <1>7, <1>8, <1>9, <1>10, <1>11, <1>12, <1>13 DEF Step, Submit

\* ... or fail ...
LEMMA TypeFault == ASSUME TypeOK, TasksTrue, NEW t \in tasks, TaskFault(t) PROVE TypeOK'
<1>0. t \in Task
  BY DEF TypeOK
<1>1. ASSUME NEW S \in SUBSET Task, Becomes(t, S) PROVE tasks' \subseteq Task
  BY <1>1 DEF Becomes, TypeOK
<1>2. ASSUME Fault PROVE faults' \in 0..MaxFaults
  BY <1>2, Constants DEF Fault, TypeOK
<1>3. ASSUME NEW r \in Runs, RetryLater(t, r)
      PROVE  tasks' \subseteq Task /\ runs' \in [Runs -> Run]
  <2>1. tasks' \subseteq Task
    BY <1>0, <1>1, <1>3, TaskTypes DEF RetryLater
  <2>2. runs' \in [Runs -> Run]
    BY <1>3, StatusTypes DEF RetryLater, Status, Final
  <2> QED
    BY <2>1, <2>2
<1>4. CASE ReportFails(t)
  <2>1. t.run \in Runs
    BY <1>4 DEF ReportFails, TasksTrue, TaskTrue, Accepted
  <2> QED
    BY <1>2, <1>3, <1>4, <2>1 DEF ReportFails, TypeOK
<1>5. ASSUME NEW r \in Runs, Raises(t, r) PROVE TypeOK'
  <2>1. farm' \in [Requests -> [state : {"none"} \cup Running \cup Results, run : Runs \cup {None}]]
    BY <1>5 DEF Raises, Accept, TypeOK, Running
  <2> QED
    BY <1>2, <1>3, <1>5, <2>1 DEF Raises, TypeOK
<1>6. CASE Escape(t)
  BY <1>0, <1>1, <1>2, <1>6, TaskTypes DEF Escape, TypeOK
<1>7. CASE Crash(t)
  BY <1>0, <1>1, <1>2, <1>7, TaskTypes DEF Crash, TypeOK
<1> QED
  BY <1>4, <1>5, <1>6, <1>7 DEF TaskFault

\* ... and the others preserve the types.
LEMMA TypeStep == TypeOK /\ TasksTrue /\ Ages /\ [Next]_vars => TypeOK'
<1> SUFFICES ASSUME TypeOK, TasksTrue, Ages, [Next]_vars PROVE TypeOK'
  OBVIOUS
<1> USE Constants
<1>1. CASE Farm
  BY <1>1 DEF TypeOK, Farm, FarmStart, FarmEnd, Notify, Running, Results
<1>2. ASSUME NEW m \in results, Take(m) PROVE TypeOK'
  BY <1>2 DEF TypeOK, Take, ToStore
<1>3. ASSUME NEW h \in storing, Store(h) PROVE TypeOK'
  <2>1. h.run \in Runs /\ h.result \in Status
    BY DEF TypeOK, Status, Final, NotCompleted, Running
  <2>2. runs' \in [Runs -> Run]
    BY <1>3, <2>1, StatusTypes DEF Store
  <2> QED
    BY <1>3, <2>2 DEF Store, TypeOK
<1>4. ASSUME NEW h \in storing, StoreFails(h) PROVE TypeOK'
  BY <1>4 DEF TypeOK, StoreFails, Fault
<1>5. ASSUME NEW r \in Runs, Babysit(r) PROVE TypeOK'
  BY <1>5 DEF TypeOK, Babysit, Run
<1>6. ASSUME NEW r \in Runs, TimeOut(r) PROVE TypeOK'
  <2>1. runs' \in [Runs -> Run]
    BY <1>6, StatusTypes DEF TimeOut, Status, Final
  <2> QED
    BY <1>6, <2>1 DEF TimeOut, Fault, TypeOK
<1> QED
  BY <1>1, <1>2, <1>3, <1>4, <1>5, <1>6, TypeEvent, TypeTask, TypeFault
     DEF Next, ResultsHandler, vars, TypeOK

-----------------------------------------------------------------------------
(* What a step does to a request, a batch and a row                        *)

RequestStep(q) ==
    /\ farm[q].state # "none" => farm'[q].state # "none" /\ farm'[q].run = farm[q].run
    /\ farm[q].state \notin {"none", "queued"} => farm'[q].state # "queued"
    /\ farm[q].state \in Results => farm'[q].state = farm[q].state
    /\ farm'[q].state = "none" => farm'[q].run = farm[q].run /\ farm[q].state = "none"

BatchStep(b) ==
    \/ batches'[b].time = batches[b].time
    \/ batches[b].time = 0 /\ b <= pushed /\ batches'[b].time = now + 1 /\ now' = now + 1

RowStep(r) ==
    /\ runs[r].status # "none" =>
          runs'[r].status # "none" /\ runs'[r].batch = runs[r].batch /\ runs'[r].time = runs[r].time
    /\ runs[r].status = "none" /\ runs'[r].status # "none" => NotOlder(runs'[r].batch, runs'[r].time)
    /\ \/ runs'[r].request \in {runs[r].request, None}
       \/ runs[r].status # "none" /\ Accepted(runs'[r].request, r)
    /\ runs'[r].status \in Results \cup {"running"} /\ runs'[r].status # runs[r].status =>
          \E q \in Requests : Said(q, runs'[r].status) /\ farm[q].run = r

\* Requests end once, and a row of Testing Farm's keeps its run.
LEMMA Request == TypeOK /\ [Next]_vars => \A q \in Requests : RequestStep(q)
<1> SUFFICES ASSUME TypeOK, [Next]_vars, NEW q \in Requests PROVE RequestStep(q)
  OBVIOUS
<1> USE DEF RequestStep
<1>1. CASE UNCHANGED farm
  BY <1>1
<1>2. ASSUME NEW p \in Requests, NEW r \in Runs, Accept(p, r) PROVE RequestStep(q)
  BY <1>2 DEF Accept, TypeOK, Results
<1>3. ASSUME NEW p \in Requests, FarmStart(p) \/ FarmEnd(p) \/ Notify(p) PROVE RequestStep(q)
  BY <1>3 DEF FarmStart, FarmEnd, Notify, TypeOK, Results
<1>4. ASSUME NEW t \in tasks, NEW r \in Runs, CancelInFarm(t, r) PROVE RequestStep(q)
  BY <1>4 DEF CancelInFarm, TypeOK, Run, Running, Results
<1>5. ASSUME NEW t \in tasks, Step(t) PROVE RequestStep(q)
  BY <1>1, <1>2, <1>4, <1>5
     DEF Step, Submit, CancelRead, CancelMark, CreateGroup, CreateTarget, Post, PostRefused,
         PostFails, NotSubmitted, Skip, SetPipelineId, SetQueued, Reported, Retry
<1>6. ASSUME NEW t \in tasks, TaskFault(t) PROVE RequestStep(q)
  BY <1>1, <1>2, <1>6 DEF TaskFault, ReportFails, Escape, Crash, Raises
<1> QED
  BY <1>1, <1>3, <1>5, <1>6
     DEF Next, vars, Event, Push, SendPush, Comment, NewBatch, BuildEnd, Trigger, Farm, ResultsHandler,
         Take, Store, StoreFails, Babysit, TimeOut

\* The time of a batch is set once, when it is the newest.
LEMMA Batches ==
    TypeOK /\ TasksTrue /\ [Next]_vars =>
        /\ now' \in Nat /\ now <= now' /\ pushed <= pushed'
        /\ \A b \in Pushes : BatchStep(b)
<1> SUFFICES ASSUME TypeOK, TasksTrue, [Next]_vars
             PROVE  /\ now' \in Nat /\ now <= now' /\ pushed <= pushed'
                    /\ \A b \in Pushes : BatchStep(b)
  OBVIOUS
<1>0. now \in Nat /\ pushed \in Nat
  BY Constants DEF TypeOK
<1> USE <1>0 DEF BatchStep
<1>1. CASE UNCHANGED <<batches, now, pushed>>
  BY <1>1
<1>2. ASSUME NEW b \in Pushes, NewBatch(b)
      PROVE  now' = now + 1 /\ pushed' = pushed /\ \A c \in Pushes : BatchStep(c)
  BY <1>2 DEF NewBatch, TypeOK, Batch
<1>3. ASSUME NEW b \in Pushes, NEW x \in Targets, BuildEnd(b, x)
      PROVE  UNCHANGED <<now, pushed>> /\ \A c \in Pushes : BatchStep(c)
  BY <1>3 DEF BuildEnd, Trigger, TypeOK, Batch
<1>4. CASE Push \/ \E p \in sending : SendPush(p)
  BY <1>4 DEF Push, SendPush
<1>5. CASE Comment
  BY <1>1, <1>5 DEF Comment, Trigger
<1>6. ASSUME NEW t \in tasks, CreateGroup(t)
      PROVE  now' \in Nat /\ now <= now' /\ pushed' = pushed /\ \A c \in Pushes : BatchStep(c)
  <2>1. now' \in {now, now + 1}
    BY <1>6 DEF CreateGroup
  <2> QED
    BY <1>6, <2>1 DEF CreateGroup, TypeOK, Batch
<1>7. ASSUME NEW t \in tasks, Step(t), ~CreateGroup(t) PROVE UNCHANGED <<batches, now, pushed>>
  BY <1>7 DEF Step, Submit, CancelRead, CancelInFarm, CancelMark, CreateTarget, Post, PostRefused,
              PostFails, NotSubmitted, Skip, SetPipelineId, SetQueued, Reported, Retry
<1>8. ASSUME NEW t \in tasks, TaskFault(t) PROVE UNCHANGED <<batches, now, pushed>>
  BY <1>8 DEF TaskFault, ReportFails, Escape, Crash, Raises
<1>9. CASE Farm \/ ResultsHandler \/ \E r \in Runs : Babysit(r) \/ TimeOut(r)
  BY <1>9 DEF Farm, FarmStart, FarmEnd, Notify, ResultsHandler, Take, Store, StoreFails, Babysit,
              TimeOut
<1>10. CASE \E t \in tasks : Step(t) \/ TaskFault(t)
  BY <1>1, <1>6, <1>7, <1>8, <1>10
<1>11. CASE Event
  BY <1>2, <1>3, <1>4, <1>5, <1>11 DEF Event
<1> QED
  BY <1>1, <1>9, <1>10, <1>11 DEF Next, vars

\* A status can be set on a row that exists; a result or "running" if it was said.
LEMMA SetRow ==
    ASSUME TypeOK, NEW r \in Runs, runs[r].status # "none", NEW s \in Status, SetStatus(r, s),
           s \in Results \cup {"running"} => \E q \in Requests : Said(q, s) /\ farm[q].run = r
    PROVE  \A x \in Runs : RowStep(x)
<1>1. s # "none"
  BY DEF Status, NotCompleted, Final, Results
<1> QED
  BY <1>1 DEF SetStatus, RowStep, TypeOK, Run

LEMMA RowSame == ASSUME UNCHANGED runs PROVE \A x \in Runs : RowStep(x)
  BY DEF RowStep

\* A row, once made, keeps its batch and its time, gets a request that Testing
\* Farm has accepted for it, and a result that Testing Farm has given.
LEMMA Rows == IInv /\ [Next]_vars => \A x \in Runs : RowStep(x)
<1> SUFFICES ASSUME IInv, [Next]_vars PROVE \A x \in Runs : RowStep(x)
  OBVIOUS
<1> USE DEF IInv
<1>0. /\ \A s \in {"cancel-requested", "error", "retry", "queued"} :
             s \in Status /\ s \notin Results \cup {"running"}
      /\ \A s \in Results \cup Running : s \in Status /\ s # "none"
  BY DEF Status, NotCompleted, Final, Results, Running
<1>1. ASSUME NEW t \in tasks, NEW r \in Runs, r \in t.todo, ToRun(t, r)
      PROVE  runs[r].status # "none"
  BY <1>1 DEF ToRun
<1>2. ASSUME NEW t \in tasks, NEW r \in Runs, runs[r].status # "none", RetryLater(t, r)
      PROVE  \A x \in Runs : RowStep(x)
  BY <1>0, <1>2, SetRow DEF RetryLater
<1>3. ASSUME NEW t \in tasks, CancelMark(t) PROVE \A x \in Runs : RowStep(x)
  <2>1. t.run \in Runs /\ runs[t.run].status # "none"
    BY <1>3 DEF CancelMark, TasksTrue, TaskTrue, TypeOK, Task
  <2> QED
    BY <1>0, <1>3, <2>1, SetRow DEF CancelMark
<1>4. ASSUME NEW t \in tasks, NEW y \in Targets, CreateTarget(t, y) PROVE \A x \in Runs : RowStep(x)
  <2>1. PICK r \in Runs :
          /\ runs[r].status = "none"
          /\ runs' = [runs EXCEPT ![r] =
                [status |-> "new", request |-> None, target |-> y, batch |-> t.batch,
                 trigger |-> t.trigger, time |-> t.time]]
    BY <1>4 DEF CreateTarget
  <2>2. NotOlder(t.batch, t.time)
    BY <1>4 DEF CreateTarget, TasksTrue, TaskTrue, NotOlder, TypeOK, Task
  <2>3. RowStep(r)
    BY <2>1, <2>2 DEF RowStep, TypeOK, Results
  <2>4. ASSUME NEW x \in Runs, x # r PROVE RowStep(x)
    BY <2>1, <2>4 DEF RowStep, TypeOK
  <2> QED
    BY <2>3, <2>4
<1>5. ASSUME NEW t \in tasks, NEW r \in Runs, PostRefused(t, r) \/ PostFails(t, r)
      PROVE  \A x \in Runs : RowStep(x)
  BY <1>0, <1>1, <1>2, <1>5, SetRow DEF PostRefused, PostFails
<1>6. ASSUME NEW t \in tasks, SetPipelineId(t) PROVE \A x \in Runs : RowStep(x)
  <2>1. t.run \in Runs /\ runs[t.run].status # "none" /\ Accepted(t.request, t.run)
    BY <1>6 DEF SetPipelineId, TasksTrue, TaskTrue
  <2> QED
    BY <1>6, <2>1 DEF SetPipelineId, RowStep, TypeOK, Run
<1>7. ASSUME NEW t \in tasks, SetQueued(t) PROVE \A x \in Runs : RowStep(x)
  BY <1>0, <1>7, SetRow DEF SetQueued, TasksTrue, TaskTrue
<1>8. ASSUME NEW t \in tasks, Step(t) PROVE \A x \in Runs : RowStep(x)
  BY <1>3, <1>4, <1>5, <1>6, <1>7, <1>8, RowSame
     DEF Step, Submit, CancelRead, CancelInFarm, CreateGroup, Post, NotSubmitted, Skip, Reported, Retry
<1>9. ASSUME NEW t \in tasks, TaskFault(t) PROVE \A x \in Runs : RowStep(x)
  <2>1. CASE ReportFails(t)
    BY <1>2, <2>1 DEF ReportFails, TasksTrue, TaskTrue
  <2>2. ASSUME NEW r \in Runs, Raises(t, r) PROVE \A x \in Runs : RowStep(x)
    BY <1>1, <1>2, <2>2 DEF Raises
  <2> QED
    BY <1>9, <2>1, <2>2, RowSame DEF TaskFault, Escape, Crash
<1>10. ASSUME NEW h \in storing, Store(h) PROVE \A x \in Runs : RowStep(x)
  <2>1. h.run \in Runs /\ h.request \in Requests /\ h.result \in Results \cup Running
    BY DEF TypeOK
  <2>2. runs[h.run].status # "none" /\ Said(h.request, h.result) /\ farm[h.request].run = h.run
    BY DEF HandlersTrue
  <2> QED
    BY <1>0, <1>10, <2>1, <2>2, SetRow DEF Store
<1>11. ASSUME NEW r \in Runs, TimeOut(r) PROVE \A x \in Runs : RowStep(x)
  <2>1. runs[r].status # "none"
    BY <1>11 DEF TimeOut, NotCompleted
  <2> QED
    BY <1>0, <1>11, <2>1, SetRow DEF TimeOut
<1>12. CASE Event \/ Farm
  BY <1>12, RowSame DEF Event, Push, SendPush, Comment, NewBatch, BuildEnd, Trigger, Farm, FarmStart, FarmEnd,
                        Notify
<1> QED
  BY <1>8, <1>9, <1>10, <1>11, <1>12, RowSame
     DEF Next, vars, ResultsHandler, Take, StoreFails, Babysit

-----------------------------------------------------------------------------
(* Tasks                                                                   *)

\* What is true of a task stays true, ...
LEMMA TaskStable ==
    ASSUME IInv, [Next]_vars, NEW t \in Task, TaskTrue(t) PROVE TaskTrue(t)'
<1>0. t.batch \in Pushes /\ t.cutoff \in Nat /\ t.time \in Nat /\ t.todo \subseteq Runs
      /\ t.run \in Runs \cup {None}
  BY DEF Task
<1>1. /\ now \in Nat /\ now' \in Nat /\ now <= now' /\ pushed <= pushed'
      /\ pushed \in Nat /\ pushed' \in Nat
  <2>1. TypeOK'
    BY TypeStep DEF IInv
  <2> QED
    BY <2>1, Batches, Constants DEF IInv, TypeOK
<1>2. BatchStep(t.batch)
  BY <1>0, Batches DEF IInv
<1>3. \A r \in Runs : RowStep(r)
  BY Rows
<1>4. batches[t.batch].time \in Nat
  BY <1>0 DEF IInv, TypeOK, Batch
<1>5. t.batch <= pushed' /\ t.cutoff <= now'
  BY <1>0, <1>1 DEF TaskTrue, Pushes
<1>6. /\ t.kind # "push" => batches'[t.batch].time # 0
      /\ t.kind = "build" => t.cutoff < batches'[t.batch].time
      /\ t.pc = "create" => batches'[t.batch].time <= t.time
  BY <1>0, <1>1, <1>2, <1>4 DEF TaskTrue, BatchStep
<1>7. t.pc = "posted" => Accepted(t.request, t.run)'
  BY Request DEF TaskTrue, Accepted, RequestStep, IInv
<1>8. t.pc \in {"posted", "pid", "report", "retrying"} => t.run \in Runs /\ runs'[t.run].status # "none"
  BY <1>3 DEF TaskTrue, RowStep
<1>9. t.pc = "cancelling" =>
          \A r \in t.todo \cup ({t.run} \ {None}) :
              runs'[r].status # "none" /\ (SparesSiblings(t)' => runs'[r].batch # t.batch)
  <2> SUFFICES ASSUME t.pc = "cancelling", NEW r \in t.todo \cup ({t.run} \ {None})
               PROVE  runs'[r].status # "none" /\ (SparesSiblings(t)' => runs'[r].batch # t.batch)
    OBVIOUS
  <2>1. r \in Runs /\ runs[r].status # "none" /\ (SparesSiblings(t) => runs[r].batch # t.batch)
    BY <1>0 DEF TaskTrue
  <2>2. runs'[r].status # "none" /\ runs'[r].batch = runs[r].batch
    BY <1>3, <2>1 DEF RowStep
  <2>3. ASSUME SparesSiblings(t)', ~SparesSiblings(t) PROVE batches[t.batch].time = 0
    BY <1>2, <2>3 DEF SparesSiblings, BatchStep
  <2>4. batches[runs[r].batch].time # 0
    BY <2>1 DEF IInv, Ages, NotOlder
  <2> QED
    BY <2>1, <2>2, <2>3, <2>4
<1> QED
  BY <1>5, <1>6, <1>7, <1>8, <1>9 DEF TaskTrue

\* ... and holds of the task that it becomes.
LEMMA TaskLater ==
    ASSUME NEW t, TaskTrue(t), NEW u, u.kind = t.kind, u.batch = t.batch, u.cutoff = t.cutoff,
           \/ u.pc = "cancel" /\ u.run = None
           \/ u.pc \in {"group", "loop"} /\ t.kind # "push"
    PROVE  TaskTrue(u)
  BY DEF TaskTrue, SparesSiblings

LEMMA TaskAgain ==
    ASSUME NEW t \in Task, TaskTrue(t)
    PROVE  /\ TaskTrue(Fresh(t))
           /\ TaskTrue([Fresh(t) EXCEPT !.retries = @ + 1])
           /\ TaskTrue(RetryTask(t))
<1>1. ASSUME NEW u, u \in {Fresh(t), [Fresh(t) EXCEPT !.retries = @ + 1], RetryTask(t)}
      PROVE  u.kind = t.kind /\ u.batch = t.batch /\ u.cutoff = t.cutoff
             /\ u.pc = "cancel" /\ u.run = None
  BY <1>1 DEF Fresh, RetryTask, Task
<1> QED
  BY <1>1, TaskLater

LEMMA TaskAfterRun ==
    ASSUME NEW t \in Task, TaskTrue(t), t.kind # "push", NEW r, NEW u \in AfterRun(t, r)
    PROVE  TaskTrue(u)
<1>1. /\ u = [t EXCEPT !.pc = "loop", !.todo = @ \ {r}, !.run = None, !.request = None]
  BY DEF AfterRun
<1>2. u.kind = t.kind /\ u.batch = t.batch /\ u.cutoff = t.cutoff /\ u.pc = "loop"
  BY <1>1 DEF Task
<1> QED
  BY <1>2, TaskLater

LEMMA TaskAfterCancel ==
    ASSUME NEW t \in Task, TaskTrue(t), NEW u \in AfterCancel(t)
    PROVE  TaskTrue(u)
<1>1. CASE u = t
  BY <1>1
<1>2. CASE t.kind # "push" /\ u \in {[t EXCEPT !.pc = "group"],
                                      [t EXCEPT !.pc = "loop", !.todo = {t.target}]}
  <2>1. u.kind = t.kind /\ u.batch = t.batch /\ u.cutoff = t.cutoff /\ u.pc \in {"group", "loop"}
    BY <1>2 DEF Task
  <2> QED
    BY <1>2, <2>1, TaskLater
<1> QED
  BY <1>1, <1>2 DEF AfterCancel

\* What get_running gives to the task of a push or a build is of other batches.
LEMMA TaskCancels ==
    ASSUME IInv, NEW t \in tasks, CancelRead(t),
           NEW u \in AfterCancel([t EXCEPT !.pc = "cancelling", !.todo = Cancellable(t)])
    PROVE  TaskTrue(u)
<1> DEFINE c == [t EXCEPT !.pc = "cancelling", !.todo = Cancellable(t)]
<1>0. t \in Task /\ TaskTrue(t) /\ Cancellable(t) \subseteq Runs
  BY DEF IInv, TypeOK, TasksTrue, Cancellable
<1>1. /\ c.kind = t.kind /\ c.batch = t.batch /\ c.cutoff = t.cutoff /\ c.pc = "cancelling"
      /\ c.todo = Cancellable(t) /\ c.run = None /\ c \in Task
  <2>1. t.run = None
    BY <1>0 DEF CancelRead, TaskTrue, SparesSiblings
  <2>2. c \in Task
    BY <1>0, TaskTypes
  <2> QED
    BY <1>0, <2>1, <2>2 DEF Task
<1>2. ASSUME NEW r \in Cancellable(t)
      PROVE  runs[r].status # "none" /\ (SparesSiblings(t) => runs[r].batch # t.batch)
  <2>1. r \in Runs /\ runs[r].status # "none" /\ runs[r].time <= t.cutoff
    BY <1>2 DEF Cancellable, Running
  <2>2. NotOlder(runs[r].batch, runs[r].time) /\ runs[r].time \in Nat
    BY <2>1 DEF IInv, Ages, TypeOK, Run
  <2>3. t.batch \in Pushes /\ t.cutoff \in Nat /\ batches[t.batch].time \in Nat
    BY <1>0 DEF IInv, TypeOK, Task, Batch
  <2> QED
    BY <1>0, <2>1, <2>2, <2>3 DEF NotOlder, TaskTrue, SparesSiblings
<1>3. TaskTrue(c)
  BY <1>0, <1>1, <1>2 DEF TaskTrue, SparesSiblings
<1> QED
  BY <1>1, <1>3, TaskAfterCancel

\* The tasks of the next state.
LEMMA Tasks == IInv /\ [Next]_vars => TasksTrue'
<1> SUFFICES ASSUME IInv, [Next]_vars, NEW u \in tasks' PROVE TaskTrue(u)'
  BY DEF TasksTrue
<1> USE DEF IInv
<1>0. u \in Task
  BY TypeStep DEF TypeOK
<1>1. TaskTrue(u) => TaskTrue(u)'
  BY <1>0, TaskStable
<1>2. u \in tasks => TaskTrue(u)
  BY DEF TasksTrue
<1>3. ASSUME NEW t \in tasks, NEW S, Becomes(t, S), \A v \in S : TaskTrue(v) PROVE TaskTrue(u)'
  BY <1>1, <1>2, <1>3 DEF Becomes
<1>4. ASSUME NEW t \in tasks
      PROVE  /\ t \in Task /\ TaskTrue(t)
             /\ t.pc \notin {"cancel", "cancelling"} => t.kind # "push"
  BY DEF TypeOK, TasksTrue, TaskTrue, SparesSiblings
<1>5. ASSUME NEW t \in tasks, NEW r, t.pc \in {"loop", "report", "retrying"}, Becomes(t, AfterRun(t, r))
      PROVE  TaskTrue(u)'
  BY <1>3, <1>4, <1>5, TaskAfterRun
<1>6. ASSUME NEW t \in tasks, NEW r \in Runs, t.pc \in {"loop", "report"}, runs[r].status # "none",
             RetryLater(t, r)
      PROVE  TaskTrue(u)'
  <2>1. CASE t.retries = MaxRetries
    BY <1>5, <1>6, <2>1 DEF RetryLater
  <2>2. CASE t.retries # MaxRetries
    <3> DEFINE v == [t EXCEPT !.pc = "retrying", !.run = r]
    <3>1. /\ v.kind = t.kind /\ v.batch = t.batch /\ v.cutoff = t.cutoff /\ v.pc = "retrying"
          /\ v.run = r /\ v.retries = t.retries /\ t.retries < MaxRetries
      BY <1>4, <2>2, Constants DEF Task
    <3>2. TaskTrue(v)
      BY <1>4, <1>6, <3>1 DEF TaskTrue, SparesSiblings
    <3> QED
      BY <1>3, <1>6, <2>2, <3>2 DEF RetryLater
  <2> QED
    BY <2>1, <2>2
<1>7. ASSUME NEW t \in tasks, NEW r \in Runs, ToRun(t, r) PROVE runs[r].status # "none"
  BY <1>7 DEF ToRun
<1>8. CASE Event
  <2>1. ASSUME NEW kind \in {"push", "build", "comment"}, NEW b \in Pushes, NEW k \in Nat,
               NEW S \in SUBSET Targets, Trigger(kind, b, k, S), u \notin tasks,
               b <= pushed', k <= now', kind # "push" => batches'[b].time # 0,
               kind = "build" => k < batches'[b].time
        PROVE  TaskTrue(u)'
    <3>1. u.kind = kind /\ u.batch = b /\ u.cutoff = k /\ u.pc = "cancel" /\ u.run = None
      BY <2>1 DEF Trigger, NewTask
    <3> QED
      BY <2>1, <3>1 DEF TaskTrue, SparesSiblings
  <2>2. ASSUME NEW p \in sending, SendPush(p) PROVE TaskTrue(u)'
    <3>1. p.batch <= pushed /\ now <= now /\ UNCHANGED <<batches, pushed, now>>
      BY <2>2 DEF SendPush, Ages, TypeOK
    <3>2. ASSUME u \notin tasks
          PROVE  u.kind = "push" /\ u.batch = p.batch /\ u.cutoff = now /\ u.pc = "cancel" /\ u.run = None
      BY <2>2, <3>2 DEF SendPush, NewTask
    <3>3. ASSUME u \notin tasks PROVE TaskTrue(u)'
      BY <3>1, <3>2, <3>3 DEF TaskTrue, SparesSiblings
    <3> QED
      BY <1>1, <1>2, <3>3
  <2>3. CASE Comment
    <3>1. pushed \in Pushes /\ now \in Nat
      BY <2>3, Constants DEF Comment, TypeOK, Pushes
    <3>2. /\ Trigger("comment", pushed, now, Targets) /\ batches'[pushed].time # 0
          /\ pushed' = pushed /\ now' = now
      BY <2>3 DEF Comment, Trigger
    <3>3. pushed <= pushed' /\ now <= now'
      BY <3>1, <3>2 DEF Pushes
    <3> QED
      BY <1>1, <1>2, <2>1, <3>1, <3>2, <3>3
  <2>4. ASSUME NEW b \in Pushes, NewBatch(b) PROVE TaskTrue(u)'
    BY <1>1, <1>2, <2>4 DEF NewBatch
  <2>5. ASSUME NEW b \in Pushes, NEW x \in Targets, BuildEnd(b, x) PROVE TaskTrue(u)'
    <3>1. batches[b].time \in Nat \ {0} /\ batches[b].time <= now /\ b <= pushed /\ now \in Nat
      BY <2>5, Constants DEF BuildEnd, TypeOK, Batch, Ages, Pushes
    <3>2. batches'[b].time = batches[b].time /\ UNCHANGED <<now, pushed>>
      BY <2>5 DEF BuildEnd, Trigger, TypeOK, Batch
    <3>3. Trigger("build", b, batches[b].time - 1, {x}) /\ batches[b].time - 1 \in Nat
      BY <2>5, <3>1 DEF BuildEnd
    <3>4. batches[b].time - 1 <= now' /\ batches[b].time - 1 < batches'[b].time /\ b <= pushed'
          /\ batches'[b].time # 0
      BY <3>1, <3>2
    <3> QED
      BY <1>1, <1>2, <2>1, <3>3, <3>4
  <2>6. CASE Push
    BY <1>1, <1>2, <2>6 DEF Push
  <2> QED
    BY <1>8, <2>2, <2>3, <2>4, <2>5, <2>6 DEF Event
<1>9. ASSUME NEW t \in tasks, CancelRead(t) PROVE TaskTrue(u)'
  BY <1>3, <1>9, TaskCancels DEF CancelRead
<1>10. ASSUME NEW t \in tasks, NEW r \in Runs, CancelInFarm(t, r) PROVE TaskTrue(u)'
  <2> DEFINE v == [t EXCEPT !.todo = @ \ {r}, !.run = r]
  <2>1. /\ v.kind = t.kind /\ v.batch = t.batch /\ v.cutoff = t.cutoff /\ v.pc = "cancelling"
        /\ v.todo = t.todo \ {r} /\ v.run = r /\ r \in t.todo /\ t.pc = "cancelling"
    BY <1>4, <1>10 DEF CancelInFarm, Task
  <2>2. TaskTrue(v)
    BY <1>4, <2>1 DEF TaskTrue, SparesSiblings
  <2> QED
    BY <1>3, <1>10, <2>2 DEF CancelInFarm
<1>11. ASSUME NEW t \in tasks, CancelMark(t) PROVE TaskTrue(u)'
  <2> DEFINE v == [t EXCEPT !.run = None]
  <2>1. /\ v.kind = t.kind /\ v.batch = t.batch /\ v.cutoff = t.cutoff /\ v.pc = "cancelling"
        /\ v.todo = t.todo /\ v.run = None /\ t.pc = "cancelling" /\ v \in Task
    <3>1. v \in Task
      BY <1>4, TaskTypes
    <3> QED
      BY <1>4, <1>11, <3>1 DEF CancelMark, Task
  <2>2. TaskTrue(v)
    BY <1>4, <2>1 DEF TaskTrue, SparesSiblings
  <2> QED
    BY <1>3, <1>11, <2>1, <2>2, TaskAfterCancel DEF CancelMark
<1>12. ASSUME NEW t \in tasks, CreateGroup(t) PROVE TaskTrue(u)'
  <2> DEFINE k == IF batches[t.batch].bare THEN batches[t.batch].time ELSE now + 1
             v == [t EXCEPT !.pc = "create", !.left = t.only, !.time = k]
  <2>1. /\ v.kind = t.kind /\ v.batch = t.batch /\ v.cutoff = t.cutoff /\ v.pc = "create"
        /\ v.time = k /\ t.kind # "push"
    BY <1>4, <1>12 DEF CreateGroup, Task
  <2>2. batches[t.batch].time <= k
    BY <1>4 DEF TypeOK, Batch, Task, Ages
  <2>3. TaskTrue(v)
    <3> HIDE DEF k
    <3> QED
      BY <1>4, <2>1, <2>2 DEF TaskTrue, SparesSiblings
  <2> QED
    BY <1>3, <1>12, <2>3 DEF CreateGroup
<1>13. ASSUME NEW t \in tasks, NEW x \in Targets, CreateTarget(t, x) PROVE TaskTrue(u)'
  <2>1. PICK r \in Runs :
          Becomes(t, {[t EXCEPT !.left = @ \ {x}, !.todo = @ \cup {r},
                                !.pc = IF t.left = {x} THEN "loop" ELSE "create"]})
    BY <1>13 DEF CreateTarget
  <2> DEFINE v == [t EXCEPT !.left = @ \ {x}, !.todo = @ \cup {r},
                            !.pc = IF t.left = {x} THEN "loop" ELSE "create"]
  <2>2. /\ v.kind = t.kind /\ v.batch = t.batch /\ v.cutoff = t.cutoff /\ v.pc \in {"create", "loop"}
        /\ v.time = t.time /\ t.pc = "create"
    BY <1>4, <1>13 DEF CreateTarget, Task
  <2>3. TaskTrue(v) /\ Becomes(t, {v})
    BY <1>4, <2>1, <2>2 DEF TaskTrue, SparesSiblings
  <2> HIDE DEF v
  <2> QED
    BY <1>3, <2>3
<1>14. ASSUME NEW t \in tasks, NEW r \in Runs, NEW q \in Requests, Post(t, r, q) PROVE TaskTrue(u)'
  <2> DEFINE v == [t EXCEPT !.pc = "posted", !.run = r, !.request = q]
  <2>1. /\ v.kind = t.kind /\ v.batch = t.batch /\ v.cutoff = t.cutoff /\ v.pc = "posted"
        /\ v.run = r /\ v.request = q /\ t.kind # "push"
    BY <1>4, <1>14 DEF Post, Task
  <2>2. runs[r].status # "none" /\ UNCHANGED <<runs, batches, pushed, now>>
    BY <1>7, <1>14 DEF Post
  <2>3. Accepted(q, r)'
    BY <1>14 DEF Post, Accept, Accepted, TypeOK
  <2>4. TaskTrue(v)'
    BY <1>4, <2>1, <2>2, <2>3 DEF TaskTrue, SparesSiblings
  <2> QED
    BY <1>1, <1>2, <1>14, <2>4 DEF Post, Becomes
<1>15. ASSUME NEW t \in tasks, NEW r \in Runs,
              PostRefused(t, r) \/ PostFails(t, r) \/ NotSubmitted(t, r) \/ Skip(t, r) \/ Raises(t, r)
       PROVE  TaskTrue(u)'
  BY <1>5, <1>6, <1>7, <1>15 DEF PostRefused, PostFails, NotSubmitted, Skip, Raises
<1>16. ASSUME NEW t \in tasks, SetPipelineId(t) \/ SetQueued(t) PROVE TaskTrue(u)'
  <2> DEFINE v(pc) == [t EXCEPT !.pc = pc]
  <2>1. ASSUME NEW pc \in {"pid", "report"}, t.pc \in {"posted", "pid"} PROVE TaskTrue(v(pc))
    <3>1. /\ v(pc).kind = t.kind /\ v(pc).batch = t.batch /\ v(pc).cutoff = t.cutoff
          /\ v(pc).pc = pc /\ v(pc).run = t.run
      BY <1>4 DEF Task
    <3> HIDE DEF v
    <3> QED
      BY <1>4, <2>1, <3>1 DEF TaskTrue, SparesSiblings
  <2> QED
    BY <1>3, <1>16, <2>1 DEF SetPipelineId, SetQueued
<1>17. ASSUME NEW t \in tasks, Reported(t) \/ Retry(t) PROVE TaskTrue(u)'
  BY <1>3, <1>4, <1>5, <1>17, TaskAfterRun, TaskAgain DEF Reported, Retry
<1>18. ASSUME NEW t \in tasks, ReportFails(t) PROVE TaskTrue(u)'
  BY <1>4, <1>6, <1>18 DEF ReportFails, TaskTrue, SparesSiblings
<1>19. ASSUME NEW t \in tasks, Escape(t) \/ Crash(t) PROVE TaskTrue(u)'
  <2> DEFINE v == [Fresh(t) EXCEPT !.retries = @ + 1]
  <2>1. TaskTrue(Fresh(t)) /\ TaskTrue(v)
    BY <1>4, TaskAgain
  <2>2. Becomes(t, {}) \/ Becomes(t, {Fresh(t)}) \/ Becomes(t, {v})
    BY <1>19 DEF Escape, Crash
  <2> HIDE DEF v
  <2> QED
    BY <1>3, <2>1, <2>2
<1>20. CASE tasks' = tasks
  BY <1>1, <1>2, <1>20
<1> QED
  BY <1>8, <1>9, <1>10, <1>11, <1>12, <1>13, <1>14, <1>15, <1>16, <1>17, <1>18, <1>19, <1>20
     DEF Next, vars, Step, Submit, TaskFault, Farm, FarmStart, FarmEnd, Notify, ResultsHandler,
         Take, Store, StoreFails, Babysit, TimeOut

-----------------------------------------------------------------------------
(* Messages, rows and pipelines                                            *)

\* What has been said stays true.
LEMMA SaidStable ==
    ASSUME NEW q \in Requests, RequestStep(q), NEW result, Said(q, result) PROVE Said(q, result)'
  BY DEF RequestStep, Said, Results

LEMMA MessagesNext == IInv /\ [Next]_vars => MessagesTrue'
<1> SUFFICES ASSUME IInv, [Next]_vars, NEW m \in results' PROVE Said(m.request, m.result)'
  BY DEF MessagesTrue
<1> USE DEF IInv
<1>1. ASSUME m.request \in Requests, Said(m.request, m.result) PROVE Said(m.request, m.result)'
  BY <1>1, Request, SaidStable
<1>2. CASE m \in results
  BY <1>1, <1>2 DEF MessagesTrue, TypeOK
<1>3. ASSUME NEW q \in Requests, farm[q].state # "none", m = [request |-> q, result |-> farm[q].state]
      PROVE  Said(m.request, m.result)'
  BY <1>1, <1>3 DEF Said
<1>4. ASSUME NEW q \in Requests, Notify(q) PROVE Said(m.request, m.result)'
  BY <1>2, <1>3, <1>4 DEF Notify
<1>5. ASSUME NEW r \in Runs, Babysit(r) PROVE Said(m.request, m.result)'
  <2>1. runs[r].request \in Requests
    BY <1>5 DEF Babysit, TypeOK, Run
  <2> QED
    BY <1>2, <1>3, <1>5, <2>1 DEF Babysit, Results
<1>6. ASSUME NEW h \in storing, StoreFails(h) PROVE Said(m.request, m.result)'
  BY <1>1, <1>2, <1>6 DEF StoreFails, HandlersTrue, TypeOK
<1>7. CASE results' \subseteq results
  BY <1>2, <1>7
<1>8. ASSUME NEW t \in tasks, Step(t) \/ TaskFault(t) PROVE results' = results
  BY <1>8 DEF Step, Submit, CancelRead, CancelInFarm, CancelMark, CreateGroup, CreateTarget, Post,
              PostRefused, PostFails, NotSubmitted, Skip, SetPipelineId, SetQueued, Reported, Retry,
              TaskFault, ReportFails, Escape, Crash, Raises
<1> QED
  BY <1>4, <1>5, <1>6, <1>7, <1>8
     DEF Next, vars, Event, Push, SendPush, Comment, NewBatch, BuildEnd, Trigger, Farm, FarmStart, FarmEnd,
         ResultsHandler, Take, Store, TimeOut

LEMMA HandlersNext == IInv /\ [Next]_vars => HandlersTrue'
<1> DEFINE True(h) == /\ Said(h.request, h.result)
                      /\ farm[h.request].run = h.run
                      /\ runs[h.run].status # "none"
<1> SUFFICES ASSUME IInv, [Next]_vars, NEW h \in storing' PROVE True(h)'
  BY DEF HandlersTrue
<1> USE DEF IInv
<1>1. ASSUME h.request \in Requests, h.run \in Runs, True(h) PROVE True(h)'
  <2>1. RequestStep(h.request) /\ RowStep(h.run)
    BY <1>1, Request, Rows
  <2>2. Said(h.request, h.result)'
    BY <1>1, <2>1, SaidStable
  <2>3. farm'[h.request].run = h.run
    BY <1>1, <2>1 DEF RequestStep, Said
  <2>4. runs'[h.run].status # "none"
    BY <1>1, <2>1 DEF RowStep
  <2> QED
    BY <2>2, <2>3, <2>4
<1>2. CASE h \in storing
  BY <1>1, <1>2 DEF HandlersTrue, TypeOK
<1>3. ASSUME NEW m \in results, Take(m), h \notin storing PROVE True(h)'
  <2>1. m.request \in Requests /\ Said(m.request, m.result)
    BY DEF TypeOK, MessagesTrue
  <2>2. PICK r \in Runs : /\ runs[r].request = m.request
                          /\ h = [request |-> m.request, run |-> r, result |-> m.result]
    BY <1>3 DEF Take, ToStore
  <2>3. Accepted(m.request, r) /\ runs[r].status # "none"
    BY <2>1, <2>2, Constants DEF RequestsKnown
  <2> QED
    BY <1>1, <2>1, <2>2, <2>3 DEF Accepted
<1>4. CASE storing' \subseteq storing
  BY <1>2, <1>4
<1>5. ASSUME NEW t \in tasks, Step(t) \/ TaskFault(t) PROVE storing' = storing
  BY <1>5 DEF Step, Submit, CancelRead, CancelInFarm, CancelMark, CreateGroup, CreateTarget, Post,
              PostRefused, PostFails, NotSubmitted, Skip, SetPipelineId, SetQueued, Reported, Retry,
              TaskFault, ReportFails, Escape, Crash, Raises
<1> QED
  BY <1>2, <1>3, <1>4, <1>5
     DEF Next, vars, Event, Push, SendPush, Comment, NewBatch, BuildEnd, Trigger, Farm, FarmStart, FarmEnd,
         Notify, ResultsHandler, Store, StoreFails, Babysit, TimeOut

LEMMA RequestsNext == IInv /\ [Next]_vars => RequestsKnown'
<1> SUFFICES ASSUME IInv, [Next]_vars PROVE RequestsKnown'
  OBVIOUS
<1>1. ASSUME NEW q \in Requests, farm'[q].state = "none" PROVE farm'[q].run = None
  BY <1>1, Request DEF IInv, RequestStep, RequestsKnown
<1>2. ASSUME NEW r \in Runs, runs'[r].request # None
      PROVE  Accepted(runs[r].request, r)' /\ runs'[r].status # "none"
  <2>1. Accepted(runs'[r].request, r) /\ runs[r].status # "none"
    BY <1>2, Rows DEF IInv, RowStep, RequestsKnown
  <2>2. Accepted(runs[r].request, r)'
    BY <2>1, Request DEF IInv, Accepted, RequestStep
  <2>3. runs'[r].status # "none"
    BY <2>1, Rows DEF RowStep
  <2> QED
    BY <2>2, <2>3
<1> QED
  BY <1>1, <1>2 DEF RequestsKnown

LEMMA AgesNext == IInv /\ [Next]_vars => Ages'
<1> SUFFICES ASSUME IInv, [Next]_vars PROVE Ages'
  OBVIOUS
<1>0. TypeOK' /\ TypeOK
  BY TypeStep DEF IInv
<1>1. pushed' <= triggers'
  <2>1. \/ UNCHANGED <<pushed, triggers>>
        \/ pushed' \in {pushed, pushed + 1} /\ triggers' = triggers + 1
    <3>1. CASE Event
      BY <3>1 DEF Event, Push, SendPush, Comment, NewBatch, BuildEnd, Trigger, NextTrigger
    <3>2. CASE Farm \/ ResultsHandler
      BY <3>2 DEF Farm, FarmStart, FarmEnd, Notify, ResultsHandler, Take, Store, StoreFails
    <3>3. ASSUME NEW t \in tasks, Step(t) PROVE UNCHANGED <<pushed, triggers>>
      <4>1. CASE CancelRead(t) \/ CancelMark(t) \/ CreateGroup(t)
        BY <4>1, Zenon DEF CancelRead, CancelMark, CreateGroup
      <4>2. CASE \E r \in Runs : CancelInFarm(t, r)
        BY <4>2, Zenon DEF CancelInFarm
      <4>3. CASE \E x \in Targets : CreateTarget(t, x)
        BY <4>3, Zenon DEF CreateTarget
      <4>4. CASE Submit(t)
        BY <4>4, Zenon DEF Submit, Post, PostRefused, PostFails, NotSubmitted, Skip,
                           SetPipelineId, SetQueued, Reported, Retry
      <4> QED
        BY <3>3, <4>1, <4>2, <4>3, <4>4 DEF Step
    <3>4. CASE \E t \in tasks : TaskFault(t)
      BY <3>4 DEF TaskFault, ReportFails, Escape, Crash, Raises, Retry
    <3>5. CASE \/ UNCHANGED vars
               \/ \E r \in Runs : Babysit(r) \/ TimeOut(r)
      BY <3>5 DEF vars, Babysit, TimeOut
    <3> QED
      BY <3>1, <3>2, <3>3, <3>4, <3>5 DEF Next
  <2> QED
    BY <1>0, <2>1, Constants DEF TypeOK, Ages, IInv
<1>2. ASSUME NEW b \in Pushes
      PROVE  batches'[b].time <= now' /\ (b > pushed' => batches'[b].time = 0)
  <2>1. /\ batches[b].time \in Nat /\ now \in Nat /\ now' \in Nat /\ now <= now'
        /\ pushed \in Nat /\ pushed' \in Nat /\ pushed <= pushed' /\ b \in Nat
    BY <1>0, Batches, Constants DEF IInv, TypeOK, Batch, Pushes
  <2>2. batches[b].time <= now /\ (b > pushed => batches[b].time = 0)
    BY DEF IInv, Ages
  <2>3. BatchStep(b)
    BY Batches DEF IInv
  <2> QED
    BY <2>1, <2>2, <2>3 DEF BatchStep
<1>3. ASSUME NEW r \in Runs, runs'[r].status # "none"
      PROVE  NotOlder(runs[r].batch, runs[r].time)'
  <2>1. NotOlder(runs'[r].batch, runs'[r].time)
    BY <1>3, Rows DEF RowStep, IInv, Ages
  <2>2. BatchStep(runs'[r].batch)
    BY <2>1, Batches DEF IInv, NotOlder
  <2> QED
    BY <2>1, <2>2 DEF NotOlder, BatchStep
<1>4. ASSUME NEW p \in sending' PROVE p.batch <= pushed'
  <2>1. \/ UNCHANGED <<pushed, sending>>
        \/ pushed' = pushed /\ sending' \subseteq sending
        \/ /\ pushed' = pushed + 1
           /\ sending' = sending \cup {[batch |-> pushed + 1, trigger |-> triggers + 1]}
    <3>1. CASE Event
      BY <3>1 DEF Event, Push, SendPush, Comment, NewBatch, BuildEnd, Trigger
    <3>2. CASE Farm \/ ResultsHandler
      BY <3>2 DEF Farm, FarmStart, FarmEnd, Notify, ResultsHandler, Take, Store, StoreFails
    <3>3. CASE \E t \in tasks : Step(t)
      BY <3>3, ZenonT(60)
         DEF Step, Submit, CancelRead, CancelInFarm, CancelMark, CreateGroup, CreateTarget, Post,
             PostRefused, PostFails, NotSubmitted, Skip, SetPipelineId, SetQueued, Reported, Retry
    <3>4. CASE \E t \in tasks : TaskFault(t)
      BY <3>4 DEF TaskFault, ReportFails, Escape, Crash, Raises
    <3>5. CASE \/ UNCHANGED vars
               \/ \E r \in Runs : Babysit(r) \/ TimeOut(r)
      BY <3>5 DEF vars, Babysit, TimeOut
    <3> QED
      BY <3>1, <3>2, <3>3, <3>4, <3>5 DEF Next
  <2>2. pushed \in Nat /\ \A q \in sending : q.batch \in Nat /\ q.batch <= pushed
    BY <1>0, Constants DEF TypeOK, Ages, IInv, Pushes
  <2> QED
    BY <2>1, <2>2
<1> QED
  BY <1>1, <1>2, <1>3, <1>4 DEF Ages

LEMMA ResultsNext == IInv /\ [Next]_vars => ResultsTrue'
<1> SUFFICES ASSUME IInv, [Next]_vars, NEW r \in Runs
             PROVE  /\ runs'[r].status \in Results =>
                          \E q \in Requests : farm'[q] = [state |-> runs'[r].status, run |-> r]
                    /\ runs'[r].status = "running" =>
                          \E q \in Requests : farm'[q].run = r /\ farm'[q].state # "queued"
  BY DEF ResultsTrue
<1>0. TypeOK /\ TypeOK' /\ r # None
  BY TypeStep, Constants DEF IInv
<1>1. \A q \in Requests : farm[q].run = r => farm[q].state # "none"
  BY <1>0 DEF IInv, RequestsKnown
<1>2. CASE runs'[r].status \in Results
  <2>1. PICK q \in Requests : farm[q].state = runs'[r].status /\ farm[q].run = r
    <3>1. CASE runs'[r].status = runs[r].status
      <4>1. PICK q \in Requests : farm[q] = [state |-> runs[r].status, run |-> r]
        BY <1>2, <3>1 DEF IInv, ResultsTrue
      <4> QED
        BY <3>1, <4>1
    <3>2. CASE runs'[r].status # runs[r].status
      BY <1>2, <3>2, Rows DEF RowStep, Said
    <3> QED
      BY <3>1, <3>2
  <2>2. farm'[q].state = runs'[r].status /\ farm'[q].run = r
    BY <1>1, <1>2, <2>1, Request DEF IInv, RequestStep
  <2>3. farm'[q] = [state |-> runs'[r].status, run |-> r]
    BY <1>0, <2>2 DEF TypeOK
  <2> QED
    BY <1>2, <2>3 DEF Results
<1>3. CASE runs'[r].status = "running"
  <2>1. PICK q \in Requests : farm[q].run = r /\ farm[q].state # "queued"
    <3>1. CASE runs'[r].status = runs[r].status
      BY <1>3, <3>1, ZenonT(60) DEF IInv, ResultsTrue
    <3>2. CASE runs'[r].status # runs[r].status
      BY <1>3, <3>2, Rows DEF RowStep, Said
    <3> QED
      BY <3>1, <3>2
  <2>2. farm'[q].run = r /\ farm'[q].state # "queued"
    BY <1>1, <2>1, Request DEF IInv, RequestStep
  <2> QED
    BY <1>3, <2>2 DEF Results
<1> QED
  BY <1>2, <1>3

-----------------------------------------------------------------------------
(* Theorems                                                                *)

LEMMA InitIInv == Init => IInv
<1> SUFFICES ASSUME Init PROVE IInv
  OBVIOUS
<1>1. TypeOK
  BY Constants DEF Init, TypeOK, NoRun, NoBatch, Run, Batch
<1>2. ASSUME NEW r \in Runs PROVE runs[r].status = "none" /\ runs[r].request = None
  BY DEF Init, NoRun
<1>3. RequestsKnown /\ ResultsTrue
  BY <1>2 DEF Init, RequestsKnown, ResultsTrue, Results
<1>4. MessagesTrue /\ HandlersTrue /\ TasksTrue
  BY DEF Init, MessagesTrue, HandlersTrue, TasksTrue
<1>5. Ages
  BY <1>2 DEF Init, Ages, NoBatch, Pushes
<1> QED
  BY <1>1, <1>3, <1>4, <1>5 DEF IInv

LEMMA NextIInv == IInv /\ [Next]_vars => IInv'
  BY TypeStep, RequestsNext, MessagesNext, HandlersNext, AgesNext, Tasks, ResultsNext DEF IInv

\* The inductive invariant of runs, requests, messages and tasks holds in every state.
THEOREM Inductive == Spec => []IInv
  BY InitIInv, NextIInv, PTL DEF Spec

\* The rows, tasks and messages of the Testing Farm handlers stay well-typed.
THEOREM TypeCorrect == Spec => []TypeOK
<1>1. IInv => TypeOK
  BY DEF IInv
<1> QED
  BY <1>1, Inductive, PTL

\* A run has the result of one of its own requests, whatever the order of
\* messages, retries, crashes and the handlers' reads and writes.
THEOREM ResultsAreTrue == Spec => []ResultsTrue
<1>1. IInv => ResultsTrue
  BY DEF IInv
<1> QED
  BY <1>1, Inductive, PTL

\* cancel_running_tests never takes tests of its own push for older ones, when the
\* end of a build triggers it, or a push whose cutoff is older than its pipeline.
THEOREM SiblingsAreKept == Spec => []SiblingsKept
<1>1. IInv => SiblingsKept
  BY DEF IInv, TasksTrue, TaskTrue, SiblingsKept
<1> QED
  BY <1>1, Inductive, PTL

-----------------------------------------------------------------------------
(* Who works on a run                                                      *)

Works(t) == t.pc \in {"create", "loop", "posted", "pid", "report", "retrying"}

\* Task t submits r, or would if it went on: it was sent again for r alone, or r
\* is left of the group that it made.
Owns(t, r) == t.target = r \/ (Works(t) /\ r \in t.todo)

Waiting(r) == runs[r].status \in {"new", "retry"}

Requested(r) == {q \in Requests : farm[q].run = r}

\* A request of t for r may still come.
MayPost(t, r) ==
    /\ Owns(t, r) /\ Waiting(r)
    /\ ~(t.run = r /\ t.pc \in {"posted", "pid", "report"})

\* A task sent again has no run but its target, and was sent again before.
OwnTrue(t) ==
    /\ t.target # None =>
          /\ t.retries > 0 /\ t.kind # "push" /\ t.pc \notin {"group", "create"}
          /\ runs[t.target].status # "none" /\ runs[t.target].batch = t.batch
    /\ t.pc \in {"group", "cancel"} => t.todo = {}
    /\ Works(t) => /\ t.target # None => t.todo \subseteq {t.target}
                   /\ \A r \in t.todo : runs[r].status # "none" /\ runs[r].batch = t.batch
    /\ t.pc \in {"posted", "pid", "report", "retrying"} => t.run \in t.todo
    /\ t.pc = "report" => ~Waiting(t.run)

OneOwner == \A t, u \in tasks, r \in Runs : Owns(t, r) /\ Owns(u, r) => t = u

RequestsMade == \A q \in Requests : farm[q].run # None => runs[farm[q].run].status # "none"

Owners == (\A t \in tasks : OwnTrue(t)) /\ OneOwner /\ RequestsMade

\* Every request after the first has its fault, and the next one has it already.
Counted ==
    \A r \in Runs :
        /\ Cardinality(Requested(r)) <= 1 + faults
        /\ \A t \in tasks : MayPost(t, r) => Cardinality(Requested(r)) <= faults

Ended ==
    /\ \A b \in Pushes : batches[b].time = 0 => batches[b].ended = {}
    /\ faults = 0 => \A r \in Runs : runs[r].status = "retry" =>
                        runs[r].target \in batches[runs[r].batch].ended

\* The task of RetryScheduled.
Carries(t, r) ==
    \/ t.pc = "retrying" /\ t.run = r
    \/ t.target = r /\ (t.pc \in {"cancel", "cancelling"} \/ r \in t.todo)
    \/ t.target = r /\ t.run = r /\ t.pc \in {"posted", "pid"}

OInv == IInv /\ Owners /\ Counted /\ Ended /\ RetryScheduled

-----------------------------------------------------------------------------

\* What is true of a task stays true as long as nothing waits that it has reported.
LEMMA OwnStable ==
    ASSUME IInv, [Next]_vars, NEW t \in Task, OwnTrue(t),
           t.pc = "report" => ~Waiting(t.run)'
    PROVE  OwnTrue(t)'
<1>1. \A r \in Runs : RowStep(r)
  BY Rows
<1>2. t.target \in Runs \cup {None} /\ t.todo \subseteq Runs
  BY DEF Task
<1> QED
  BY <1>1, <1>2 DEF OwnTrue, RowStep, Works

\* Nobody works on a row that is not there.
LEMMA NoOwner ==
    ASSUME Owners, NEW t \in tasks, NEW r \in Runs, Owns(t, r) PROVE runs[r].status # "none"
<1>1. OwnTrue(t) /\ r # None
  BY Constants DEF Owners
<1> QED
  BY <1>1 DEF OwnTrue, Owns

\* Task t goes on as S: the runs of S are its own, or new, and only its own runs
\* wait for another request.
Moves(t, S) ==
    /\ Becomes(t, S)
    /\ \A u \in S : OwnTrue(u)'
    /\ \A u \in S, r \in Runs : Owns(u, r) => Owns(t, r) \/ runs[r].status = "none"
    /\ \A u, v \in S, r \in Runs : Owns(u, r) /\ Owns(v, r) => u = v
    /\ \A r \in Runs : Waiting(r)' /\ runs'[r].status # runs[r].status =>
                          Owns(t, r) \/ runs[r].status = "none"

\* What S may request, t could have requested.
Keeps(t, S) ==
    \A u \in S, r \in Runs : MayPost(u, r)' => MayPost(t, r) \/ runs[r].status = "none"

\* S carries what t carried, or has set to "retry".
Hands(t, S) ==
    faults' = 0 =>
        \A r \in Runs :
            runs'[r].status = "retry" /\ (runs[r].status # "retry" \/ Carries(t, r)) =>
                \E u \in S : Carries(u, r)

SameRequests == \A q \in Requests : farm'[q].run = farm[q].run

LEMMA MovesOwners ==
    ASSUME IInv, Owners, [Next]_vars, NEW t \in tasks, NEW S, Moves(t, S)
    PROVE  (\A u \in tasks' : OwnTrue(u)') /\ OneOwner'
<1>1. ASSUME NEW u \in tasks, u # t PROVE OwnTrue(u)'
  <2>1. u \in Task /\ OwnTrue(u)
    BY DEF IInv, TypeOK, Owners
  <2>2. ASSUME u.pc = "report" PROVE ~Waiting(u.run)'
    <3>1. u.run \in u.todo /\ u.run \in Runs /\ ~Waiting(u.run) /\ runs[u.run].status # "none"
      BY <2>1, <2>2 DEF OwnTrue, Task, Works
    <3>2. Owns(u, u.run) /\ ~Owns(t, u.run)
      BY <1>1, <2>2, <3>1 DEF Owns, Works, Owners, OneOwner
    <3> QED
      BY <3>1, <3>2 DEF Moves, Waiting
  <2> QED
    BY <2>1, <2>2, OwnStable
<1>2. \A u \in tasks' : OwnTrue(u)'
  BY <1>1 DEF Moves, Becomes
<1>3. ASSUME NEW u \in tasks', NEW v \in tasks', NEW r \in Runs, Owns(u, r), Owns(v, r)
      PROVE  u = v
  <2>1. ASSUME NEW x \in S, NEW y \in tasks, y # t, Owns(x, r), Owns(y, r) PROVE FALSE
    BY <2>1, NoOwner DEF Moves, Owners, OneOwner
  <2>2. ASSUME u \in tasks, v \in tasks PROVE u = v
    BY <1>3, <2>2 DEF Owners, OneOwner
  <2> QED
    BY <1>3, <2>1, <2>2 DEF Moves, Becomes
<1>4. OneOwner'
  BY <1>3 DEF OneOwner, Owns, Works
<1> QED
  BY <1>2, <1>4

\* Tasks that do not move keep what they have to do, when nobody touches it.
LEMMA OthersKeep ==
    ASSUME Owners, NEW t \in tasks, NEW S, Moves(t, S),
           NEW u \in tasks, u # t, NEW r \in Runs
    PROVE  /\ MayPost(u, r)' => MayPost(u, r) \/ runs[r].status = "none"
           /\ Owns(u, r) /\ runs'[r].status = "retry" => runs[r].status = "retry"
<1>1. Owns(u, r) => ~Owns(t, r) /\ runs[r].status # "none"
  BY NoOwner DEF Owners, OneOwner
<1> QED
  BY <1>1, ZenonT(60) DEF MayPost, Moves, Waiting, Owns, Works

\* Nobody has asked for a run that is not there.
LEMMA NotRequested ==
    ASSUME Owners, NEW r \in Runs, runs[r].status = "none"
    PROVE  Requested(r) = {} /\ Cardinality(Requested(r)) = 0
<1>1. Requested(r) = {}
  BY Constants DEF Requested, Owners, RequestsMade
<1> QED
  BY <1>1, FS_EmptySet

LEMMA RequestedType == \A r \in Runs : IsFiniteSet(Requested(r)) /\ Cardinality(Requested(r)) \in Nat
<1> SUFFICES ASSUME NEW r \in Runs
             PROVE  IsFiniteSet(Requested(r)) /\ Cardinality(Requested(r)) \in Nat
  OBVIOUS
<1>1. IsFiniteSet(Requests)
  BY FS_Interval, BoundsAssumption DEF Requests
<1>2. Requested(r) \subseteq Requests
  BY DEF Requested
<1> QED
  BY <1>1, <1>2, FS_Subset, FS_CardinalityType

LEMMA RequestedSame == ASSUME SameRequests PROVE \A r \in Runs : Requested(r)' = Requested(r)
  BY DEF SameRequests, Requested

\* Testing Farm accepts one request, which was nobody's.
LEMMA RequestedMore ==
    ASSUME TypeOK, RequestsKnown, NEW q \in Requests, NEW r \in Runs, Accept(q, r)
    PROVE  /\ Cardinality(Requested(r)') = Cardinality(Requested(r)) + 1
           /\ \A x \in Runs : x # r => Requested(x)' = Requested(x)
<1>1. farm[q].run = None /\ farm'[q].run = r
      /\ \A p \in Requests : p # q => farm'[p].run = farm[p].run
  BY DEF Accept, TypeOK, RequestsKnown
<1>2. \A x \in Runs : x # None
  BY Constants
<1>3. Requested(r)' = Requested(r) \cup {q} /\ q \notin Requested(r)
  BY <1>1, <1>2 DEF Requested
<1>4. \A x \in Runs : x # r => Requested(x)' = Requested(x)
  BY <1>1, <1>2 DEF Requested
<1> QED
  BY <1>3, <1>4, FS_AddElement, RequestedType

\* A step with a fault has one request to spare.
LEMMA CountFault ==
    ASSUME TypeOK, TypeOK', Owners, Counted, faults' = faults + 1,
           \/ SameRequests
           \/ RequestsKnown /\
              \E q \in Requests, r \in Runs, t \in tasks : Accept(q, r) /\ MayPost(t, r)
    PROVE  Counted'
<1>0. faults \in Nat
  BY Constants DEF TypeOK
<1>1. ASSUME NEW r \in Runs PROVE Cardinality(Requested(r)') \in 0..(faults + 1)
  <2>0. Cardinality(Requested(r)) \in Nat /\ Cardinality(Requested(r)) <= 1 + faults
    BY RequestedType DEF Counted
  <2>1. CASE SameRequests
    BY <1>0, <2>0, <2>1, RequestedSame
  <2>2. ASSUME NEW q \in Requests, NEW x \in Runs, NEW t \in tasks, RequestsKnown,
               Accept(q, x), MayPost(t, x)
        PROVE  Cardinality(Requested(r)') \in 0..(faults + 1)
    <3>1. CASE r = x
      <4>1. Cardinality(Requested(r)) <= faults
        BY <2>2, <3>1 DEF Counted
      <4>2. Cardinality(Requested(r)') = Cardinality(Requested(r)) + 1
        BY <2>2, <3>1, RequestedMore
      <4> QED
        BY <1>0, <2>0, <4>1, <4>2
    <3>2. CASE r # x
      BY <1>0, <2>0, <2>2, <3>2, RequestedMore
    <3> QED
      BY <3>1, <3>2
  <2> QED
    BY <2>1, <2>2
<1> QED
  BY <1>0, <1>1 DEF Counted

\* Without one, nobody may request more than before.
LEMMA CountSame ==
    ASSUME TypeOK, Owners, Counted, faults' = faults, SameRequests,
           \A u \in tasks', r \in Runs :
               MayPost(u, r)' => runs[r].status = "none" \/ \E t \in tasks : MayPost(t, r)
    PROVE  Counted'
<1>0. faults \in Nat
  BY Constants DEF TypeOK
<1>1. \A r \in Runs : Cardinality(Requested(r)') = Cardinality(Requested(r))
  BY RequestedSame
<1>2. ASSUME NEW r \in Runs, NEW u \in tasks', MayPost(u, r)'
      PROVE  Cardinality(Requested(r)) <= faults
  <2>1. CASE runs[r].status = "none"
    BY <1>0, <2>1, NotRequested
  <2>2. ASSUME NEW t \in tasks, MayPost(t, r) PROVE Cardinality(Requested(r)) <= faults
    BY <2>2 DEF Counted
  <2> QED
    BY <1>2, <2>1, <2>2
<1> QED
  BY <1>0, <1>1, <1>2 DEF Counted

-----------------------------------------------------------------------------
(* How a task goes on                                                      *)

\* Nothing new waits for a request.
Settles == \A r \in Runs : Waiting(r)' => runs'[r].status = runs[r].status

GoesOn(t) == \E S : Moves(t, S) /\ Keeps(t, S) /\ Hands(t, S)

\* A run is done with, and the others are left.
LEMMA RunDone ==
    ASSUME IInv, Owners, [Next]_vars, NEW t \in tasks, NEW r \in t.todo,
           t.pc \in {"loop", "report", "retrying"}, t.pc = "report" => r = t.run,
           Becomes(t, AfterRun(t, r)), Settles
    PROVE  Moves(t, AfterRun(t, r)) /\ Keeps(t, AfterRun(t, r))
<1>1. t \in Task /\ OwnTrue(t) /\ r \in Runs
  BY DEF IInv, TypeOK, Owners, Task
<1>2. ASSUME NEW u \in AfterRun(t, r)
      PROVE  /\ u.target = None /\ u.pc = "loop" /\ u.todo = t.todo \ {r} /\ u.batch = t.batch
             /\ u \in Task
  <2>1. u = [t EXCEPT !.pc = "loop", !.todo = @ \ {r}, !.run = None, !.request = None]
        /\ t.todo # {r}
    BY DEF AfterRun
  <2>2. u.pc = "loop" /\ u.todo = t.todo \ {r} /\ u.batch = t.batch /\ u.target = t.target
    BY <1>1, <2>1 DEF Task
  <2>3. t.target = None
    BY <1>1, <2>1 DEF OwnTrue, Works
  <2>4. u \in Task
    BY <1>1, TaskTypes
  <2> QED
    BY <2>2, <2>3, <2>4
<1>3. ASSUME NEW u \in AfterRun(t, r) PROVE OwnTrue(u)'
  <2>1. OwnTrue(u)
    BY <1>1, <1>2 DEF OwnTrue, Works
  <2> QED
    BY <1>2, <2>1, OwnStable
<1>4. ASSUME NEW u \in AfterRun(t, r), NEW x \in Runs, Owns(u, x)
      PROVE  Owns(t, x) /\ x # r
  BY <1>2, <1>4, Constants DEF Owns, Works
<1>5. ASSUME NEW u \in AfterRun(t, r), NEW x \in Runs, MayPost(u, x)' PROVE MayPost(t, x)
  <2>1. Owns(u, x) /\ Waiting(x)'
    BY <1>5 DEF MayPost, Owns, Works
  <2>2. Waiting(x)
    BY <2>1 DEF Settles, Waiting
  <2> QED
    BY <1>4, <2>1, <2>2 DEF MayPost
<1>6. \A u, v \in AfterRun(t, r) : u = v
  BY DEF AfterRun
<1>7. Moves(t, AfterRun(t, r))
  BY <1>3, <1>4, <1>6 DEF Moves, Settles
<1> QED
  BY <1>5, <1>7 DEF Keeps

\* A run for which a task that works is sent again, or that it works on, is its own.
LEMMA CarriedOwn ==
    ASSUME Owners, NEW t \in tasks, NEW r \in Runs, Carries(t, r)
    PROVE  /\ Owns(t, r)
           /\ Works(t) => t.todo \subseteq {r} \/ (t.pc = "retrying" /\ t.run = r)
<1>1. OwnTrue(t) /\ r # None
  BY Constants DEF Owners
<1> QED
  BY <1>1 DEF OwnTrue, Carries, Owns, Works

\* The task is the same but for where it is.
LEMMA SameTask ==
    ASSUME IInv, Owners, [Next]_vars, NEW t \in tasks, NEW v \in Task, Becomes(t, {v}),
           v.target = t.target, v.retries = t.retries, v.kind = t.kind, v.batch = t.batch,
           OwnTrue(v), v.pc = "report" => ~Waiting(v.run)',
           \A r \in Runs : Owns(v, r) => Owns(t, r),
           \A r \in Runs : Waiting(r)' /\ runs'[r].status # runs[r].status => Owns(t, r)
    PROVE  Moves(t, {v})
<1>1. OwnTrue(v)'
  BY OwnStable
<1> QED
  BY <1>1 DEF Moves

\* Everything is cancelled, or there is more to cancel.
LEMMA AfterCancelOwns ==
    ASSUME NEW t \in Task, OwnTrue(t), t.pc \in {"cancel", "cancelling"}, NEW c \in Task,
           c.pc = "cancelling", c.target = t.target, c.retries = t.retries, c.kind = t.kind,
           c.batch = t.batch
    PROVE  /\ \A u, v \in AfterCancel(c) : u = v
           /\ \A u \in AfterCancel(c) :
                 /\ u \in Task /\ OwnTrue(u) /\ u.pc # "report"
                 /\ \A r \in Runs : (Owns(u, r) => Owns(t, r)) /\ (Carries(t, r) => Carries(u, r))
           /\ \A r \in Runs : Carries(t, r) => AfterCancel(c) # {}
<1>1. \A u, v \in AfterCancel(c) : u = v
  BY DEF AfterCancel
<1>2. AfterCancel(c) \subseteq Task
  BY TaskTypes
<1>3. ASSUME NEW u \in AfterCancel(c)
      PROVE  /\ OwnTrue(u) /\ u.pc # "report"
             /\ \A r \in Runs : (Owns(u, r) => Owns(t, r)) /\ (Carries(t, r) => Carries(u, r))
  <2>1. CASE u = c
    BY <2>1, Constants DEF OwnTrue, Owns, Works, Carries
  <2>2. CASE c.todo = {} /\ c.target = None /\ u = [c EXCEPT !.pc = "group"]
    <3>1. u.pc = "group" /\ u.target = None /\ u.todo = {}
      BY <2>2 DEF Task
    <3> QED
      BY <3>1, <2>2, Constants DEF OwnTrue, Owns, Works, Carries
  <2>3. CASE c.target # None /\ u = [c EXCEPT !.pc = "loop", !.todo = {c.target}]
    <3>1. /\ u.pc = "loop" /\ u.target = c.target /\ u.todo = {c.target} /\ u.retries = c.retries
          /\ u.kind = c.kind /\ u.batch = c.batch
      BY <2>3 DEF Task
    <3> HIDE <2>3
    <3> QED
      BY <3>1, <2>3, Constants DEF OwnTrue, Owns, Works, Carries
  <2> QED
    BY <2>1, <2>2, <2>3 DEF AfterCancel
<1>4. ASSUME NEW r \in Runs, Carries(t, r) PROVE AfterCancel(c) # {}
  <2>1. t.target = r /\ t.target # None
    BY <1>4, Constants DEF Carries
  <2>2. c.kind # "push"
    BY <2>1 DEF OwnTrue
  <2> QED
    BY <2>1, <2>2 DEF AfterCancel
<1> QED
  BY <1>1, <1>2, <1>3, <1>4

LEMMA CancelGoesOn ==
    ASSUME IInv, Owners, [Next]_vars, NEW t \in tasks, CancelRead(t) \/ CancelMark(t)
    PROVE  GoesOn(t)
<1>1. t \in Task /\ OwnTrue(t) /\ t.pc \in {"cancel", "cancelling"} /\ t.run \in Runs \cup {None}
  BY DEF IInv, TypeOK, Owners, CancelRead, CancelMark, Task
<1>2. PICK c \in Task : /\ Becomes(t, AfterCancel(c))
                        /\ c.pc = "cancelling" /\ c.target = t.target /\ c.retries = t.retries
                        /\ c.kind = t.kind /\ c.batch = t.batch
  <2>1. CASE CancelRead(t)
    <3> DEFINE c == [t EXCEPT !.pc = "cancelling", !.todo = Cancellable(t)]
    <3>1. c \in Task
      BY <1>1, TaskTypes DEF Cancellable
    <3>2. /\ c.pc = "cancelling" /\ c.target = t.target /\ c.retries = t.retries
          /\ c.kind = t.kind /\ c.batch = t.batch
      BY <1>1 DEF Task
    <3> QED
      BY <2>1, <3>1, <3>2 DEF CancelRead
  <2>2. CASE CancelMark(t)
    <3> DEFINE c == [t EXCEPT !.run = None]
    <3>1. c \in Task
      BY <1>1, TaskTypes
    <3>2. /\ c.pc = "cancelling" /\ c.target = t.target /\ c.retries = t.retries
          /\ c.kind = t.kind /\ c.batch = t.batch
      BY <1>1, <2>2 DEF Task, CancelMark
    <3> QED
      BY <2>2, <3>1, <3>2 DEF CancelMark
  <2> QED
    BY <2>1, <2>2
<1>3. Settles
  BY <1>1 DEF Settles, Waiting, CancelRead, CancelMark, SetStatus, IInv, TypeOK, Run
<1>4. \A r \in Runs : runs'[r].status = "retry" => runs[r].status = "retry"
  BY <1>3 DEF Settles, Waiting
<1> DEFINE S == AfterCancel(c)
<1>5. /\ \A u, v \in S : u = v
      /\ \A u \in S : /\ u \in Task /\ OwnTrue(u) /\ u.pc # "report"
                      /\ \A r \in Runs : (Owns(u, r) => Owns(t, r)) /\ (Carries(t, r) => Carries(u, r))
      /\ \A r \in Runs : Carries(t, r) => S # {}
  BY <1>1, <1>2, AfterCancelOwns
<1>6. \A u \in S : OwnTrue(u)'
  BY <1>5, OwnStable
<1> HIDE DEF S
<1>7. Moves(t, S)
  BY <1>2, <1>3, <1>5, <1>6 DEF Moves, Settles, S
<1>8. Keeps(t, S)
  <2> SUFFICES ASSUME NEW u \in S, NEW r \in Runs, MayPost(u, r)' PROVE MayPost(t, r)
    BY DEF Keeps
  <2>1. Owns(t, r) /\ Waiting(r)
    BY <1>3, <1>5 DEF MayPost, Owns, Works, Settles, Waiting
  <2> QED
    BY <1>1, <2>1 DEF MayPost
<1>9. Hands(t, S)
  BY <1>4, <1>5 DEF Hands
<1> QED
  BY <1>7, <1>8, <1>9 DEF GoesOn

LEMMA CancelInFarmGoesOn ==
    ASSUME IInv, Owners, [Next]_vars, NEW t \in tasks, NEW x \in Runs, CancelInFarm(t, x)
    PROVE  GoesOn(t)
<1> DEFINE v == [t EXCEPT !.todo = @ \ {x}, !.run = x]
<1>1. t \in Task /\ OwnTrue(t) /\ t.pc = "cancelling" /\ Becomes(t, {v}) /\ runs' = runs
  BY DEF IInv, TypeOK, Owners, CancelInFarm
<1>2. v \in Task
  BY <1>1, TaskTypes
<1>3. /\ v.target = t.target /\ v.retries = t.retries /\ v.kind = t.kind /\ v.batch = t.batch
      /\ v.pc = "cancelling"
  BY <1>1 DEF Task
<1> HIDE DEF v
<1>4. OwnTrue(v)
  BY <1>1, <1>3 DEF OwnTrue, Works
<1>5. \A r \in Runs : (Owns(v, r) => Owns(t, r)) /\ (Carries(t, r) => Carries(v, r))
  BY <1>1, <1>3 DEF Owns, Works, Carries
<1>6. Moves(t, {v})
  BY <1>1, <1>2, <1>3, <1>4, <1>5, SameTask
<1>7. Keeps(t, {v})
  BY <1>1, <1>5 DEF Keeps, MayPost, Owns, Works, Waiting
<1>8. Hands(t, {v})
  BY <1>1, <1>5 DEF Hands
<1> QED
  BY <1>6, <1>7, <1>8 DEF GoesOn

LEMMA CreateGroupGoesOn ==
    ASSUME IInv, Owners, [Next]_vars, NEW t \in tasks, CreateGroup(t)
    PROVE  GoesOn(t)
<1>1. t \in Task /\ OwnTrue(t) /\ t.pc = "group" /\ runs' = runs /\ now \in Nat
      /\ t.batch \in Pushes
  BY DEF IInv, TypeOK, Owners, CreateGroup, Task
<1>2. PICK k \in Nat : Becomes(t, {[t EXCEPT !.pc = "create", !.left = t.only, !.time = k]})
  <2>1. batches[t.batch].time \in Nat
    BY <1>1 DEF IInv, TypeOK, Batch
  <2>2. (IF batches[t.batch].bare THEN batches[t.batch].time ELSE now + 1) \in Nat
    BY <1>1, <2>1
  <2> QED
    BY <2>2 DEF CreateGroup
<1> DEFINE v == [t EXCEPT !.pc = "create", !.left = t.only, !.time = k]
<1>3. v \in Task
  BY <1>1, TaskTypes
<1>4. /\ v.target = t.target /\ v.retries = t.retries /\ v.kind = t.kind /\ v.batch = t.batch
      /\ v.pc = "create" /\ v.todo = t.todo /\ Becomes(t, {v})
  BY <1>1, <1>2 DEF Task
<1> HIDE DEF v
<1>5. t.target = None /\ t.todo = {}
  BY <1>1 DEF OwnTrue
<1>6. OwnTrue(v) /\ \A r \in Runs : ~Owns(v, r) /\ ~Carries(t, r)
  BY <1>1, <1>4, <1>5, Constants DEF OwnTrue, Works, Owns, Carries
<1>7. Moves(t, {v})
  BY <1>1, <1>3, <1>4, <1>6, SameTask
<1>8. Keeps(t, {v}) /\ Hands(t, {v})
  BY <1>1, <1>6 DEF Keeps, MayPost, Owns, Works, Hands
<1> QED
  BY <1>7, <1>8 DEF GoesOn

LEMMA CreateTargetGoesOn ==
    ASSUME IInv, Owners, [Next]_vars, NEW t \in tasks, NEW x \in Targets, CreateTarget(t, x)
    PROVE  GoesOn(t)
<1>1. t \in Task /\ OwnTrue(t) /\ t.pc = "create" /\ t.todo \subseteq Runs
  BY DEF IInv, TypeOK, Owners, CreateTarget, Task
<1>2. PICK r \in Runs :
        /\ runs[r].status = "none"
        /\ runs' = [runs EXCEPT ![r] =
              [status |-> "new", request |-> None, target |-> x, batch |-> t.batch,
               trigger |-> t.trigger, time |-> t.time]]
        /\ Becomes(t, {[t EXCEPT !.left = @ \ {x}, !.todo = @ \cup {r},
                                  !.pc = IF t.left = {x} THEN "loop" ELSE "create"]})
  BY DEF CreateTarget
<1> DEFINE v == [t EXCEPT !.left = @ \ {x}, !.todo = @ \cup {r},
                          !.pc = IF t.left = {x} THEN "loop" ELSE "create"]
<1>3. /\ v.target = t.target /\ v.batch = t.batch /\ v.pc \in {"create", "loop"}
      /\ v.todo = t.todo \cup {r} /\ Becomes(t, {v})
  BY <1>1, <1>2 DEF Task
<1> HIDE DEF v
<1>4. t.target = None
  BY <1>1 DEF OwnTrue
<1>5. /\ runs'[r].status = "new" /\ runs'[r].batch = t.batch
      /\ \A y \in Runs : y # r => runs'[y] = runs[y]
  BY <1>2 DEF IInv, TypeOK
<1>6. OwnTrue(v)'
  <2>1. \A y \in v.todo : runs'[y].status # "none" /\ runs'[y].batch = v.batch
    BY <1>1, <1>3, <1>5 DEF OwnTrue, Works
  <2> QED
    BY <1>3, <1>4, <2>1 DEF OwnTrue, Works
<1>7. \A y \in Runs : (Owns(v, y) => Owns(t, y) \/ runs[y].status = "none") /\ ~Carries(t, y)
  BY <1>1, <1>2, <1>3, <1>4, Constants DEF Owns, Works, Carries
<1>8. Moves(t, {v})
  BY <1>2, <1>3, <1>5, <1>6, <1>7, Zenon DEF Moves
<1>9. Keeps(t, {v})
  <2> SUFFICES ASSUME NEW y \in Runs, MayPost(v, y)', runs[y].status # "none" PROVE MayPost(t, y)
    BY DEF Keeps
  <2>1. Owns(t, y) /\ Waiting(y)
    BY <1>2, <1>5, <1>7 DEF MayPost, Owns, Works, Waiting
  <2> QED
    BY <1>1, <2>1 DEF MayPost
<1>10. Hands(t, {v})
  BY <1>5, <1>7 DEF Hands
<1> QED
  BY <1>8, <1>9, <1>10 DEF GoesOn

LEMMA StatusSet ==
    ASSUME TypeOK, NEW r \in Runs, NEW s, SetStatus(r, s)
    PROVE  \A x \in Runs : runs'[x].status = IF x = r THEN s ELSE runs[x].status
  BY DEF TypeOK, Run, SetStatus

\* A run that is not submitted now, and not retried.
LEMMA LeaveGoesOn ==
    ASSUME OInv, [Next]_vars, NEW t \in tasks, NEW r \in Runs,
           Skip(t, r) \/ (NotSubmitted(t, r) /\ faults' = faults) \/ PostRefused(t, r)
    PROVE  GoesOn(t)
<1>1. t \in Task /\ OwnTrue(t) /\ t.pc = "loop" /\ r \in t.todo /\ Becomes(t, AfterRun(t, r))
  BY DEF OInv, IInv, TypeOK, Owners, Skip, NotSubmitted, PostRefused
<1>2. PostRefused(t, r) => \A x \in Runs : runs'[x].status = IF x = r THEN "error" ELSE runs[x].status
  BY StatusSet DEF PostRefused, OInv, IInv
<1>3. ~PostRefused(t, r) => runs' = runs
  BY DEF Skip, NotSubmitted
<1>4. Settles
  BY <1>2, <1>3 DEF Settles, Waiting
<1>5. Moves(t, AfterRun(t, r)) /\ Keeps(t, AfterRun(t, r))
  BY <1>1, <1>4, RunDone DEF OInv
<1>6. ASSUME faults' = 0, NEW x \in Runs, runs'[x].status = "retry", Carries(t, x) PROVE FALSE
  <2>1. t.target = x /\ x = r
    BY <1>1, <1>6, CarriedOwn DEF OInv, Works, Carries
  <2>2. runs[r].status = "retry" /\ ~PostRefused(t, r)
    BY <1>2, <1>3, <1>6, <2>1
  <2>3. t.retries > 0 /\ runs[r].batch = t.batch
    BY <1>1, <2>1, Constants DEF OwnTrue
  <2>4. faults = 0
    BY <1>6, <2>2 DEF Skip, NotSubmitted
  <2>5. runs[r].target \in batches[t.batch].ended
    BY <2>2, <2>3, <2>4 DEF OInv, Ended
  <2>6. NotSubmitted(t, r)
    BY <2>2, <2>5 DEF Skip, ToRun
  <2>7. faults' = faults + 1
    BY <1>1, <2>3, <2>6 DEF NotSubmitted, Fault, Task
  <2> QED
    BY <1>6, <2>4, <2>7
<1>7. Hands(t, AfterRun(t, r))
  BY <1>4, <1>6 DEF Hands, Settles, Waiting
<1> QED
  BY <1>5, <1>7 DEF GoesOn

\* The run waits for the task to be sent again, or this was the last try.
LEMMA RetryLaterMoves ==
    ASSUME IInv, Owners, [Next]_vars, NEW t \in tasks, NEW r \in t.todo, RetryLater(t, r),
           t.pc \in {"loop", "report"}, t.pc = "report" => r = t.run
    PROVE  /\ \E S : Moves(t, S)
           /\ t.retries # MaxRetries => Moves(t, {[t EXCEPT !.pc = "retrying", !.run = r]})
<1>1. t \in Task /\ OwnTrue(t) /\ r \in Runs
  BY DEF IInv, TypeOK, Owners, Task
<1>2. CASE t.retries = MaxRetries
  <2>1. SetStatus(r, "error") /\ Becomes(t, AfterRun(t, r))
    BY <1>2 DEF RetryLater
  <2>2. Settles
    BY <1>1, <2>1, StatusSet DEF Settles, Waiting, IInv
  <2> QED
    BY <1>2, <2>1, <2>2, RunDone
<1>3. CASE t.retries # MaxRetries
  <2> DEFINE v == [t EXCEPT !.pc = "retrying", !.run = r]
  <2>1. SetStatus(r, "retry") /\ Becomes(t, {v})
    BY <1>3 DEF RetryLater
  <2>2. v \in Task
    BY <1>1, TaskTypes
  <2>3. /\ v.target = t.target /\ v.retries = t.retries /\ v.kind = t.kind /\ v.batch = t.batch
        /\ v.pc = "retrying" /\ v.run = r /\ v.todo = t.todo
    BY <1>1 DEF Task
  <2> HIDE DEF v
  <2>4. OwnTrue(v)
    BY <1>1, <2>3 DEF OwnTrue, Works
  <2>5. \A x \in Runs : Owns(v, x) => Owns(t, x)
    BY <2>3 DEF Owns, Works
  <2>6. Owns(t, r)
    BY DEF Owns, Works
  <2>7. \A x \in Runs : runs'[x].status # runs[x].status => x = r
    BY <1>1, <2>1, StatusSet DEF IInv
  <2>8. Moves(t, {v})
    BY <2>1, <2>2, <2>3, <2>4, <2>5, <2>6, <2>7, SameTask
  <2> QED
    BY <2>8 DEF v
<1> QED
  BY <1>2, <1>3

LEMMA PostFailsGoesOn ==
    ASSUME IInv, Owners, [Next]_vars, NEW t \in tasks, NEW r \in Runs, PostFails(t, r)
    PROVE  GoesOn(t)
<1>1. t \in Task /\ t.pc = "loop" /\ r \in t.todo /\ ToRun(t, r) /\ RetryLater(t, r)
      /\ t.retries # MaxRetries
  BY Constants DEF IInv, TypeOK, PostFails, Task
<1> DEFINE v == [t EXCEPT !.pc = "retrying", !.run = r]
<1>2. Moves(t, {v})
  BY <1>1, RetryLaterMoves
<1>3. v.pc = "retrying" /\ v.run = r /\ v.todo = t.todo /\ v.target = t.target
  BY <1>1 DEF Task
<1> HIDE DEF v
<1>4. \A x \in Runs : runs'[x].status # runs[x].status => x = r
  BY <1>1, StatusSet DEF IInv, RetryLater
<1>5. Keeps(t, {v})
  <2> SUFFICES ASSUME NEW x \in Runs, MayPost(v, x)' PROVE MayPost(t, x)
    BY DEF Keeps
  <2>1. Owns(t, x)
    BY <1>1, <1>3 DEF MayPost, Owns, Works
  <2>2. Waiting(x)
    BY <1>1, <1>4 DEF MayPost, Waiting, ToRun
  <2> QED
    BY <1>1, <2>1, <2>2 DEF MayPost
<1>6. Hands(t, {v})
  <2> SUFFICES ASSUME NEW x \in Runs, runs[x].status # "retry" \/ Carries(t, x),
                      runs'[x].status = "retry"
               PROVE  Carries(v, x)
    BY DEF Hands
  <2>1. x = r
    BY <1>1, <1>4, CarriedOwn DEF Works
  <2> QED
    BY <1>3, <2>1 DEF Carries
<1> QED
  BY <1>2, <1>5, <1>6 DEF GoesOn

LEMMA RetryGoesOn ==
    ASSUME IInv, Owners, [Next]_vars, NEW t \in tasks, Retry(t)
    PROVE  GoesOn(t)
<1>1. t \in Task /\ OwnTrue(t) /\ t.pc = "retrying" /\ runs' = runs /\ t.todo \subseteq Runs
  BY DEF IInv, TypeOK, Owners, Retry, Task
<1>2. t.run \in t.todo /\ t.run \in Runs /\ t.retries \in Nat
  BY <1>1, Constants DEF OwnTrue, Task
<1> DEFINE w == RetryTask(t)
           A == AfterRun(t, t.run)
           S == A \cup {w}
<1>3. w.target = t.run /\ w.pc = "cancel" /\ w.todo = {} /\ w.kind = t.kind /\ w.batch = t.batch
      /\ w.retries = t.retries + 1 /\ w.run = None
  BY <1>1 DEF RetryTask, Fresh, Task
<1>4. OwnTrue(w)'
  <2>1. t.kind # "push"
    BY <1>1 DEF IInv, TasksTrue, TaskTrue
  <2>2. runs[t.run].status # "none" /\ runs[t.run].batch = t.batch
    BY <1>1, <1>2 DEF OwnTrue, Works
  <2> QED
    BY <1>1, <1>2, <1>3, <2>1, <2>2 DEF OwnTrue, Works
<1>5. ASSUME NEW u \in A PROVE u.target = None /\ u.pc = "loop" /\ u.todo = t.todo \ {t.run}
  <2>1. u.target = t.target /\ u.pc = "loop" /\ u.todo = t.todo \ {t.run}
    BY <1>1 DEF AfterRun, Task
  <2>2. t.todo # {t.run}
    BY DEF AfterRun
  <2> QED
    BY <1>1, <1>2, <2>1, <2>2 DEF OwnTrue, Works
<1>6. \A u \in A : OwnTrue(u)'
  <2> SUFFICES ASSUME NEW u \in A PROVE OwnTrue(u)'
    OBVIOUS
  <2>1. u.batch = t.batch
    BY <1>1 DEF AfterRun, Task
  <2> QED
    BY <1>1, <1>5, <2>1 DEF OwnTrue, Works
<1>7. \A u, v \in A : u = v
  BY DEF AfterRun
<1>8. Becomes(t, S)
  BY DEF Retry
<1> HIDE DEF w, A
<1>9. \A x \in Runs : (Owns(w, x) => x = t.run) /\ \A u \in A : Owns(u, x) => x # t.run /\ Owns(t, x)
  BY <1>1, <1>3, <1>5, Constants DEF Owns, Works
<1>10. Owns(t, t.run)
  BY <1>1, <1>2 DEF Owns, Works
<1>11. \A u, v \in S, x \in Runs : Owns(u, x) /\ Owns(v, x) => u = v
  BY <1>7, <1>9
<1>12. Moves(t, S)
  BY <1>1, <1>4, <1>6, <1>8, <1>9, <1>10, <1>11 DEF Moves
<1>13. Keeps(t, S)
  <2> SUFFICES ASSUME NEW u \in S, NEW x \in Runs, MayPost(u, x)' PROVE MayPost(t, x)
    BY DEF Keeps
  <2>1. Owns(t, x) /\ Waiting(x)
    BY <1>1, <1>9, <1>10 DEF MayPost, Owns, Works, Waiting
  <2> QED
    BY <1>1, <2>1 DEF MayPost
<1>14. Hands(t, S)
  <2> SUFFICES ASSUME NEW x \in Runs, Carries(t, x) PROVE Carries(w, x)
    BY <1>1 DEF Hands
  <2>1. x = t.run
    BY <1>1, <1>2, CarriedOwn DEF Works
  <2> QED
    BY <1>3, <2>1 DEF Carries
<1> QED
  BY <1>12, <1>13, <1>14 DEF GoesOn

LEMMA SubmittedGoesOn ==
    ASSUME IInv, Owners, [Next]_vars, NEW t \in tasks, SetPipelineId(t) \/ SetQueued(t)
    PROVE  GoesOn(t)
<1>1. t \in Task /\ OwnTrue(t) /\ t.pc \in {"posted", "pid"} /\ t.run \in t.todo /\ t.run \in Runs
  BY DEF IInv, TypeOK, Owners, OwnTrue, SetPipelineId, SetQueued, Task
<1> DEFINE v(pc) == [t EXCEPT !.pc = pc]
<1>2. PICK pc \in {"pid", "report"} : Becomes(t, {v(pc)}) /\ (pc = "report" <=> SetQueued(t))
  BY DEF SetPipelineId, SetQueued
<1>3. /\ v(pc).target = t.target /\ v(pc).retries = t.retries /\ v(pc).kind = t.kind
      /\ v(pc).batch = t.batch /\ v(pc).pc = pc /\ v(pc).run = t.run /\ v(pc).todo = t.todo
  BY <1>1 DEF Task
<1>4. v(pc) \in Task
  BY <1>1, TaskTypes
<1> HIDE DEF v
<1>5. IF pc = "report"
      THEN \A x \in Runs : runs'[x].status = IF x = t.run THEN "queued" ELSE runs[x].status
      ELSE \A x \in Runs : runs'[x].status = runs[x].status
  <2>1. CASE pc = "report"
    BY <1>1, <1>2, <2>1, StatusSet DEF SetQueued, IInv
  <2>2. CASE pc # "report"
    BY <1>1, <1>2, <2>2 DEF SetPipelineId, IInv, TypeOK, Run
  <2> QED
    BY <2>1, <2>2
<1>6. Settles
  BY <1>5 DEF Settles, Waiting
<1>7. /\ \A r \in Runs : Owns(v(pc), r) => Owns(t, r)
      /\ \A r \in Runs : Carries(t, r) => Carries(v(pc), r) \/ (pc = "report" /\ r = t.run)
  <2>1. \A r \in Runs : Owns(v(pc), r) => Owns(t, r)
    BY <1>1, <1>3 DEF Owns, Works
  <2>2. ASSUME NEW r \in Runs, Carries(t, r)
        PROVE  Carries(v(pc), r) \/ (pc = "report" /\ r = t.run)
    <3>1. t.run = r /\ t.target = r
      BY <1>1, <2>2, CarriedOwn DEF Works, Carries
    <3> QED
      BY <1>1, <1>3, <3>1 DEF Carries
  <2> QED
    BY <2>1, <2>2
<1>8. OwnTrue(v(pc))'
  <2>1. OwnTrue([v(pc) EXCEPT !.pc = "pid"])
    BY <1>1, <1>3, <1>4 DEF OwnTrue, Works, Task
  <2>2. [v(pc) EXCEPT !.pc = "pid"] \in Task
    BY <1>4 DEF Task
  <2>3. OwnTrue([v(pc) EXCEPT !.pc = "pid"])'
    <3>1. [v(pc) EXCEPT !.pc = "pid"].pc # "report"
      BY <1>4 DEF Task
    <3> QED
      BY <2>1, <2>2, <3>1, OwnStable
  <2>4. pc = "report" => ~Waiting(t.run)'
    BY <1>1, <1>5 DEF Waiting
  <2> QED
    BY <1>1, <1>3, <1>4, <2>3, <2>4 DEF OwnTrue, Works, Task
<1>9. Moves(t, {v(pc)})
  BY <1>2, <1>6, <1>7, <1>8 DEF Moves, Settles
<1>10. Keeps(t, {v(pc)})
  <2> SUFFICES ASSUME NEW r \in Runs, MayPost(v(pc), r)' PROVE MayPost(t, r)
    BY DEF Keeps
  <2>1. Owns(t, r) /\ Waiting(r) /\ r # t.run
    BY <1>3, <1>6, <1>7 DEF MayPost, Owns, Works, Settles, Waiting
  <2> QED
    BY <2>1 DEF MayPost
<1>11. Hands(t, {v(pc)})
  BY <1>1, <1>5, <1>6, <1>7 DEF Hands, Settles, Waiting
<1> QED
  BY <1>9, <1>10, <1>11 DEF GoesOn

LEMMA ReportedGoesOn ==
    ASSUME IInv, Owners, [Next]_vars, NEW t \in tasks, Reported(t)
    PROVE  GoesOn(t)
<1>1. t \in Task /\ OwnTrue(t) /\ t.pc = "report" /\ t.run \in t.todo /\ t.run \in Runs
      /\ Becomes(t, AfterRun(t, t.run)) /\ runs' = runs /\ ~Waiting(t.run)
  BY DEF IInv, TypeOK, Owners, OwnTrue, Reported, Task
<1>2. Settles
  BY <1>1 DEF Settles
<1>3. Moves(t, AfterRun(t, t.run)) /\ Keeps(t, AfterRun(t, t.run))
  BY <1>1, <1>2, RunDone
<1>4. ASSUME NEW r \in Runs, Carries(t, r) PROVE r = t.run
  BY <1>1, <1>4, CarriedOwn DEF Works
<1>5. Hands(t, AfterRun(t, t.run))
  BY <1>1, <1>4 DEF Hands, Waiting
<1> QED
  BY <1>3, <1>5 DEF GoesOn

\* The request is made, and the task will not make another for this run.
LEMMA PostGoesOn ==
    ASSUME IInv, Owners, [Next]_vars, NEW t \in tasks, NEW r \in Runs, NEW q \in Requests,
           Post(t, r, q)
    PROVE  /\ GoesOn(t) /\ MayPost(t, r)
           /\ \A u \in tasks' : ~MayPost(u, r)'
<1> DEFINE v == [t EXCEPT !.pc = "posted", !.run = r, !.request = q]
<1>1. t \in Task /\ OwnTrue(t) /\ t.pc = "loop" /\ r \in t.todo /\ Waiting(r) /\ runs' = runs
      /\ Becomes(t, {v})
  BY DEF IInv, TypeOK, Owners, Post, ToRun, Waiting
<1>2. v \in Task
  BY <1>1 DEF Task
<1>3. /\ v.target = t.target /\ v.retries = t.retries /\ v.kind = t.kind /\ v.batch = t.batch
      /\ v.pc = "posted" /\ v.run = r /\ v.todo = t.todo
  BY <1>1 DEF Task
<1> HIDE DEF v
<1>4. OwnTrue(v)
  BY <1>1, <1>3 DEF OwnTrue, Works
<1>5. \A x \in Runs : Owns(v, x) => Owns(t, x)
  BY <1>1, <1>3 DEF Owns, Works
<1>6. Moves(t, {v})
  BY <1>1, <1>2, <1>3, <1>4, <1>5, SameTask
<1>7. MayPost(t, r)
  BY <1>1 DEF MayPost, Owns, Works
<1>8. Keeps(t, {v})
  <2> SUFFICES ASSUME NEW x \in Runs, MayPost(v, x)' PROVE MayPost(t, x)
    BY DEF Keeps
  <2> QED
    BY <1>1, <1>5 DEF MayPost, Owns, Works, Waiting
<1>9. Hands(t, {v})
  <2> SUFFICES ASSUME NEW x \in Runs, Carries(t, x) PROVE Carries(v, x)
    BY <1>1 DEF Hands
  <2>1. x = r /\ t.target = x
    BY <1>1, CarriedOwn DEF Works, Carries
  <2> QED
    BY <1>3, <2>1 DEF Carries
<1>10. ASSUME NEW u \in tasks' PROVE ~MayPost(u, r)'
  <2>1. CASE u = v
    BY <1>3, <2>1 DEF MayPost, Owns, Works
  <2>2. CASE u \in tasks /\ u # t
    BY <1>7, <2>2 DEF MayPost, Owns, Works, Owners, OneOwner
  <2> QED
    BY <1>1, <2>1, <2>2 DEF Becomes
<1> QED
  BY <1>6, <1>7, <1>8, <1>9, <1>10 DEF GoesOn

\* Whatever fails, the task that is run again has the runs of the one that failed.
LEMMA FaultMoves ==
    ASSUME IInv, Owners, [Next]_vars, NEW t \in tasks, TaskFault(t)
    PROVE  /\ faults' = faults + 1
           /\ \E S : Moves(t, S)
           /\ \/ SameRequests
              \/ \E q \in Requests, r \in Runs : Accept(q, r) /\ MayPost(t, r)
<1>1. t \in Task /\ OwnTrue(t)
  BY DEF IInv, TypeOK, Owners
<1>2. CASE ReportFails(t)
  <2>1. t.pc = "report" /\ t.run \in t.todo /\ RetryLater(t, t.run) /\ faults' = faults + 1
        /\ farm' = farm
    BY <1>1, <1>2 DEF ReportFails, OwnTrue, Fault
  <2> QED
    BY <2>1, RetryLaterMoves DEF SameRequests
<1>3. ASSUME NEW r \in Runs, Raises(t, r)
      PROVE  /\ faults' = faults + 1
             /\ \E S : Moves(t, S)
             /\ \/ SameRequests
                \/ \E q \in Requests : Accept(q, r) /\ MayPost(t, r)
  <2>1. t.pc = "loop" /\ r \in t.todo /\ RetryLater(t, r) /\ faults' = faults + 1 /\ Waiting(r)
        /\ (farm' = farm \/ \E q \in Requests : Accept(q, r))
    BY <1>3 DEF Raises, Fault, ToRun, Waiting
  <2>2. MayPost(t, r)
    BY <2>1 DEF MayPost, Owns, Works
  <2> QED
    BY <2>1, <2>2, RetryLaterMoves DEF SameRequests
<1>4. CASE Escape(t) \/ Crash(t)
  <2>1. runs' = runs /\ farm' = farm /\ faults' = faults + 1
    BY <1>4 DEF Escape, Crash, Fault
  <2>2. CASE Becomes(t, {})
    BY <2>1, <2>2 DEF Moves, SameRequests
  <2>3. ASSUME NEW v, Becomes(t, {v}),
               v = Fresh(t) \/ (t.retries < MaxRetries /\ v = [Fresh(t) EXCEPT !.retries = @ + 1])
        PROVE  Moves(t, {v})
    <3>1. /\ v.target = t.target /\ v.pc = "cancel" /\ v.todo = {} /\ v.kind = t.kind
          /\ v.batch = t.batch /\ v.retries \in {t.retries, t.retries + 1} /\ v.run = None
      BY <1>1, <2>3 DEF Fresh, Task
    <3>2. v \in Task
      BY <1>1, <2>3, TaskTypes
    <3>3. OwnTrue(v)
      <4>1. t.retries \in Nat
        BY <1>1, Constants DEF Task
      <4> QED
        BY <1>1, <3>1, <4>1 DEF OwnTrue, Works
    <3>4. OwnTrue(v)'
      BY <3>1, <3>2, <3>3, OwnStable
    <3>5. \A r \in Runs : Owns(v, r) => Owns(t, r)
      BY <3>1 DEF Owns, Works
    <3> QED
      BY <2>1, <2>3, <3>4, <3>5 DEF Moves
  <2> QED
    BY <1>4, <2>1, <2>2, <2>3, Zenon DEF Escape, Crash, SameRequests
<1> QED
  BY <1>2, <1>3, <1>4 DEF TaskFault

-----------------------------------------------------------------------------
(* Steps                                                                   *)

\* A step of a task: a request, or none; a failed attempt to submit, after an
\* earlier one, is a fault.
LEMMA StepGoesOn ==
    ASSUME OInv, [Next]_vars, NEW t \in tasks, Step(t)
    PROVE  \/ GoesOn(t) /\ SameRequests /\ faults' = faults
           \/ /\ \E S : Moves(t, S)
              /\ SameRequests /\ faults' = faults + 1
           \/ /\ GoesOn(t) /\ faults' = faults
              /\ \E r \in Runs, q \in Requests :
                    Accept(q, r) /\ MayPost(t, r) /\ \A u \in tasks' : ~MayPost(u, r)'
<1> USE DEF OInv
<1>1. CASE CancelRead(t) \/ CancelMark(t)
  BY <1>1, CancelGoesOn DEF CancelRead, CancelMark, SameRequests
<1>2. CASE CreateGroup(t)
  BY <1>2, CreateGroupGoesOn DEF CreateGroup, SameRequests
<1>3. ASSUME NEW r \in Runs, CancelInFarm(t, r)
      PROVE  GoesOn(t) /\ SameRequests /\ faults' = faults
  <2>1. SameRequests
    BY <1>3 DEF CancelInFarm, SameRequests, IInv, TypeOK
  <2> QED
    BY <1>3, <2>1, CancelInFarmGoesOn DEF CancelInFarm
<1>4. ASSUME NEW x \in Targets, CreateTarget(t, x)
      PROVE  GoesOn(t) /\ SameRequests /\ faults' = faults
  BY <1>4, CreateTargetGoesOn DEF CreateTarget, SameRequests
<1>5. ASSUME NEW r \in Runs, NEW q \in Requests, Post(t, r, q)
      PROVE  /\ GoesOn(t) /\ faults' = faults /\ Accept(q, r)
             /\ MayPost(t, r) /\ \A u \in tasks' : ~MayPost(u, r)'
  <2>1. faults' = faults /\ Accept(q, r)
    BY <1>5 DEF Post
  <2> QED
    BY <1>5, <2>1, PostGoesOn
<1>6. ASSUME NEW r \in Runs, PostRefused(t, r) \/ Skip(t, r) \/ (NotSubmitted(t, r) /\ faults' = faults)
      PROVE  GoesOn(t) /\ SameRequests /\ faults' = faults
  BY <1>6, LeaveGoesOn DEF PostRefused, Skip, NotSubmitted, SameRequests
<1>7. ASSUME NEW r \in Runs, NotSubmitted(t, r), faults' # faults
      PROVE  (\E S : Moves(t, S)) /\ SameRequests /\ faults' = faults + 1
  <2>1. /\ t.pc = "loop" /\ r \in t.todo /\ Becomes(t, AfterRun(t, r)) /\ UNCHANGED <<runs, farm>>
        /\ faults' = faults + 1
    BY <1>7 DEF NotSubmitted, Fault
  <2> QED
    BY <2>1, RunDone DEF Settles, SameRequests
<1>8. ASSUME NEW r \in Runs, PostFails(t, r)
      PROVE  GoesOn(t) /\ SameRequests /\ faults' = faults
  BY <1>8, PostFailsGoesOn DEF PostFails, SameRequests
<1>9. CASE SetPipelineId(t) \/ SetQueued(t)
  BY <1>9, SubmittedGoesOn DEF SetPipelineId, SetQueued, SameRequests
<1>10. CASE Reported(t)
  BY <1>10, ReportedGoesOn DEF Reported, SameRequests
<1>11. CASE Retry(t)
  BY <1>11, RetryGoesOn DEF Retry, SameRequests
<1>12. CASE Submit(t)
  BY <1>5, <1>6, <1>7, <1>8, <1>9, <1>10, <1>11, <1>12 DEF Submit
<1> QED
  BY <1>1, <1>2, <1>3, <1>4, <1>12 DEF Step

\* Other steps leave the tasks there are, and make one without a run at most.
Quiet ==
    /\ tasks \subseteq tasks'
    /\ \A u \in tasks' \ tasks : OwnTrue(u) /\ u.pc = "cancel" /\ u.target = None
    /\ Settles /\ SameRequests /\ faults' \in {faults, faults + 1}

LEMMA SameQuiet ==
    ASSUME tasks' = tasks, Settles, SameRequests, faults' \in {faults, faults + 1} PROVE Quiet
  BY DEF Quiet

LEMMA OthersQuiet ==
    ASSUME IInv, [Next]_vars, ~\E t \in tasks : Step(t) \/ TaskFault(t)
    PROVE  Quiet
<1>1. ASSUME runs' = runs, farm' = farm, tasks' = tasks, faults' = faults PROVE Quiet
  BY <1>1, SameQuiet DEF Settles, SameRequests
<1>2. ASSUME NEW kind \in {"push", "build", "comment"}, NEW b, NEW n, NEW k, NEW S,
             tasks' = tasks \cup {NewTask(kind, b, n, k, S)}, UNCHANGED <<runs, farm, faults>>
      PROVE  Quiet
  <2> DEFINE u == NewTask(kind, b, n, k, S)
  <2>1. u.target = None /\ u.todo = {} /\ u.pc = "cancel"
    BY DEF NewTask
  <2> HIDE DEF u
  <2>2. OwnTrue(u)
    BY <2>1 DEF OwnTrue, Works
  <2>3. Settles /\ SameRequests /\ faults' \in {faults, faults + 1}
    BY <1>2 DEF Settles, SameRequests
  <2>4. tasks' = tasks \cup {u}
    BY <1>2 DEF u
  <2> QED
    BY <2>1, <2>2, <2>3, <2>4 DEF Quiet
<1>3. CASE Event
  BY <1>1, <1>2, <1>3 DEF Event, NewBatch, BuildEnd, Comment, Push, SendPush, Trigger
<1>4. CASE Farm
  <2>1. SameRequests /\ UNCHANGED <<runs, tasks, faults>>
    BY <1>4 DEF Farm, FarmStart, FarmEnd, Notify, SameRequests, IInv, TypeOK
  <2> QED
    BY <2>1, SameQuiet DEF Settles
<1>5. ASSUME NEW r \in Runs, NEW s \in Final \cup Running, SetStatus(r, s), UNCHANGED <<tasks, farm>>,
             faults' \in {faults, faults + 1}
      PROVE  Quiet
  <2>1. \A x \in Runs : runs'[x].status = IF x = r THEN s ELSE runs[x].status
    BY <1>5, StatusSet DEF IInv
  <2>2. Settles
    BY <2>1 DEF Settles, Waiting, Final, Running, Results
  <2> QED
    BY <1>5, <2>2, SameQuiet DEF SameRequests
<1>6. ASSUME NEW h \in storing, Store(h) PROVE Quiet
  <2>1. h.run \in Runs /\ h.result \in Final \cup Running
    BY DEF IInv, TypeOK, Final
  <2> QED
    BY <1>5, <1>6, <2>1 DEF Store
<1>7. ASSUME NEW r \in Runs, TimeOut(r) PROVE Quiet
  BY <1>5, <1>7 DEF TimeOut, Fault, Final
<1>8. ASSUME NEW h \in storing, StoreFails(h) PROVE Quiet
  BY <1>8, SameQuiet DEF StoreFails, Fault, Settles, SameRequests
<1>9. ASSUME NEW m \in results, Take(m) PROVE Quiet
  BY <1>1, <1>9 DEF Take
<1>10. ASSUME NEW r \in Runs, Babysit(r) PROVE Quiet
  BY <1>1, <1>10 DEF Babysit
<1> QED
  BY <1>1, <1>3, <1>4, <1>6, <1>7, <1>8, <1>9, <1>10 DEF Next, vars, ResultsHandler

\* A step is of one of these forms.
LEMMA Steps ==
    ASSUME OInv, [Next]_vars
    PROVE  \/ Quiet
           \/ \E t \in tasks :
                \/ GoesOn(t) /\ SameRequests /\ faults' = faults
                \/ /\ \E S : Moves(t, S)
                   /\ faults' = faults + 1
                   /\ SameRequests \/ \E q \in Requests, r \in Runs : Accept(q, r) /\ MayPost(t, r)
                \/ /\ GoesOn(t) /\ faults' = faults
                   /\ \E r \in Runs, q \in Requests :
                        Accept(q, r) /\ MayPost(t, r) /\ \A u \in tasks' : ~MayPost(u, r)'
<1>1. ASSUME NEW t \in tasks, TaskFault(t)
      PROVE  /\ \E S : Moves(t, S)
             /\ faults' = faults + 1
             /\ SameRequests \/ \E q \in Requests, r \in Runs : Accept(q, r) /\ MayPost(t, r)
  BY <1>1, FaultMoves DEF OInv
<1>2. CASE ~\E t \in tasks : Step(t) \/ TaskFault(t)
  BY <1>2, OthersQuiet DEF OInv
<1> QED
  BY <1>1, <1>2, StepGoesOn

LEMMA QuietOwners ==
    ASSUME IInv, IInv', Owners, [Next]_vars, Quiet
    PROVE  (\A u \in tasks' : OwnTrue(u)') /\ OneOwner'
<1> DEFINE S == tasks' \ tasks
<1>1. /\ tasks' = tasks \cup S
      /\ \A u \in S : OwnTrue(u) /\ u.pc = "cancel" /\ u.target = None
  BY DEF Quiet
<1>2. ASSUME NEW u \in tasks' PROVE OwnTrue(u)'
  <2>1. u \in Task /\ OwnTrue(u)
    BY <1>1 DEF IInv, TypeOK, Owners
  <2>2. ASSUME u.pc = "report" PROVE ~Waiting(u.run)'
    <3>1. u.run \in Runs /\ ~Waiting(u.run)
      BY <2>1, <2>2 DEF OwnTrue, Task, Works
    <3> QED
      BY <3>1 DEF Quiet, Settles, Waiting
  <2> QED
    BY <2>1, <2>2, OwnStable
<1>3. \A u \in S, r \in Runs : ~Owns(u, r)
  BY <1>1, Constants DEF Owns, Works
<1>4. OneOwner'
  BY <1>1, <1>3 DEF OneOwner, Owners, Owns, Works
<1> QED
  BY <1>2, <1>4

LEMMA OwnersNext == ASSUME OInv, IInv', [Next]_vars PROVE Owners'
<1> USE DEF OInv
<1>1. (\A u \in tasks' : OwnTrue(u)') /\ OneOwner'
  BY Steps, QuietOwners, MovesOwners DEF GoesOn
<1>2. SameRequests \/ \E t \in tasks, q \in Requests, r \in Runs : Accept(q, r) /\ MayPost(t, r)
  BY Steps DEF Quiet
<1>3. ASSUME NEW q \in Requests, farm'[q].run # None
      PROVE  runs'[farm'[q].run].status # "none"
  <2>1. farm'[q].run \in Runs /\ runs[farm'[q].run].status # "none"
    <3>1. CASE farm'[q].run = farm[q].run
      BY <1>3, <3>1 DEF Owners, RequestsMade, IInv, TypeOK
    <3>2. ASSUME NEW t \in tasks, NEW p \in Requests, NEW r \in Runs, Accept(p, r), MayPost(t, r),
                 farm'[q].run # farm[q].run
          PROVE  farm'[q].run = r /\ runs[r].status # "none"
      BY <3>2 DEF Accept, MayPost, Waiting, IInv, TypeOK
    <3> QED
      BY <1>2, <3>1, <3>2 DEF SameRequests
  <2> QED
    BY <2>1, Rows DEF RowStep
<1> QED
  BY <1>1, <1>3 DEF Owners, RequestsMade

\* Who may request a run after a step without a fault could have done so before,
\* unless the run is new.
LEMMA WhoMayPost ==
    ASSUME Owners, Quiet \/ \E t \in tasks : GoesOn(t), NEW u \in tasks', NEW r \in Runs,
           MayPost(u, r)'
    PROVE  runs[r].status = "none" \/ \E t \in tasks : MayPost(t, r)
<1>1. CASE Quiet
  <2> DEFINE S == tasks' \ tasks
  <2>1. /\ tasks' = tasks \cup S
        /\ \A v \in S : OwnTrue(v) /\ v.pc = "cancel" /\ v.target = None
    BY <1>1 DEF Quiet
  <2>2. \A v \in S : ~Owns(v, r)
    BY <2>1, Constants DEF Owns, Works
  <2>3. u \in tasks /\ Waiting(r)
    BY <1>1, <2>1, <2>2 DEF MayPost, Owns, Works, Quiet, Settles, Waiting
  <2>4. MayPost(u, r)
    BY <2>3 DEF MayPost, Owns, Works
  <2> QED
    BY <2>3, <2>4
<1>2. ASSUME NEW t \in tasks, GoesOn(t)
      PROVE  runs[r].status = "none" \/ \E v \in tasks : MayPost(v, r)
  <2>1. PICK S : Moves(t, S) /\ Keeps(t, S)
    BY <1>2 DEF GoesOn
  <2>2. CASE u \in S
    BY <2>1, <2>2 DEF Keeps
  <2>3. CASE u \in tasks /\ u # t
    BY <2>1, <2>3, OthersKeep
  <2> QED
    BY <2>1, <2>2, <2>3 DEF Moves, Becomes
<1> QED
  BY <1>1, <1>2

\* A task makes a request when there is one to spare, and may not make another.
LEMMA CountPost ==
    ASSUME TypeOK, TypeOK', RequestsKnown, Owners, Counted, faults' = faults,
           NEW t \in tasks, GoesOn(t), NEW q \in Requests, NEW r \in Runs, Accept(q, r),
           MayPost(t, r), \A u \in tasks' : ~MayPost(u, r)'
    PROVE  Counted'
<1>0. faults \in Nat
  BY Constants DEF TypeOK
<1>1. /\ Cardinality(Requested(r)') = Cardinality(Requested(r)) + 1
      /\ \A x \in Runs : x # r => Requested(x)' = Requested(x)
  BY RequestedMore
<1>2. Cardinality(Requested(r)) \in Nat /\ Cardinality(Requested(r)) <= faults
  BY RequestedType DEF Counted
<1>3. ASSUME NEW x \in Runs, x # r, NEW u \in tasks', MayPost(u, x)'
      PROVE  Cardinality(Requested(x)) <= faults
  <2>1. CASE runs[x].status = "none"
    BY <1>0, <2>1, NotRequested
  <2>2. ASSUME NEW v \in tasks, MayPost(v, x) PROVE Cardinality(Requested(x)) <= faults
    BY <2>2 DEF Counted
  <2> QED
    BY <1>3, <2>1, <2>2, WhoMayPost
<1>4. ASSUME NEW x \in Runs PROVE Cardinality(Requested(x)') <= 1 + faults
  <2>1. CASE x = r
    BY <1>0, <1>1, <1>2, <2>1
  <2>2. CASE x # r
    BY <1>1, <2>2 DEF Counted
  <2> QED
    BY <2>1, <2>2
<1>5. ASSUME NEW x \in Runs, NEW u \in tasks', MayPost(u, x)'
      PROVE  Cardinality(Requested(x)') <= faults
  BY <1>1, <1>3, <1>5
<1> QED
  BY <1>0, <1>4, <1>5 DEF Counted

LEMMA CountedNext == ASSUME OInv, IInv', [Next]_vars PROVE Counted'
<1> USE DEF OInv
<1>0. TypeOK /\ TypeOK' /\ RequestsKnown /\ faults \in Nat
  BY Constants DEF IInv, TypeOK
<1>1. CASE faults' = faults + 1 /\ SameRequests
  BY <1>0, <1>1, CountFault
<1>2. CASE faults' = faults /\ SameRequests /\ (Quiet \/ \E t \in tasks : GoesOn(t))
  BY <1>0, <1>2, WhoMayPost, CountSame
<1>3. ASSUME NEW t \in tasks, NEW q \in Requests, NEW r \in Runs, Accept(q, r), MayPost(t, r),
             faults' = faults + 1
      PROVE  Counted'
  BY <1>0, <1>3, CountFault
<1>4. ASSUME NEW t \in tasks, GoesOn(t), NEW q \in Requests, NEW r \in Runs, Accept(q, r),
             MayPost(t, r), faults' = faults, \A u \in tasks' : ~MayPost(u, r)'
      PROVE  Counted'
  BY <1>0, <1>4, CountPost
<1> QED
  BY <1>1, <1>2, <1>3, <1>4, Steps DEF Quiet

-----------------------------------------------------------------------------
(* Retries                                                                 *)

\* A row keeps its target; only a failed submission that is not the last one
\* sets "retry" without a fault, on a run whose build has ended.
LEMMA NewRetry ==
    ASSUME OInv, [Next]_vars, faults' = 0
    PROVE  /\ faults = 0
           /\ \A r \in Runs :
                runs'[r].status = "retry" =>
                  /\ runs[r].status # "none" /\ runs'[r].target = runs[r].target
                  /\ runs[r].target \in batches[runs[r].batch].ended
<1> USE DEF OInv
<1>0. faults \in Nat /\ TypeOK
  BY Constants DEF IInv, TypeOK
<1>1. faults = 0
  BY <1>0, Steps DEF Quiet
<1>2. ~Fault
  BY <1>1 DEF Fault
<1> SUFFICES ASSUME NEW r \in Runs, runs'[r].status = "retry"
             PROVE  /\ runs[r].status # "none" /\ runs'[r].target = runs[r].target
                    /\ runs[r].target \in batches[runs[r].batch].ended
  BY <1>1
<1>3. ASSUME runs'[r].status = runs[r].status, runs'[r].target = runs[r].target
      PROVE  /\ runs[r].status # "none" /\ runs'[r].target = runs[r].target
             /\ runs[r].target \in batches[runs[r].batch].ended
  BY <1>1, <1>3 DEF Ended
<1>4. ASSUME NEW x \in Runs, NEW s, SetStatus(x, s), s # "retry"
      PROVE  runs'[r].status = runs[r].status /\ runs'[r].target = runs[r].target
  BY <1>0, <1>4 DEF SetStatus, TypeOK, Run
<1>5. ASSUME NEW t \in tasks, Step(t)
      PROVE  /\ runs[r].status # "none" /\ runs'[r].target = runs[r].target
             /\ runs[r].target \in batches[runs[r].batch].ended
  <2>1. ASSUME NEW x \in Runs, PostFails(t, x)
        PROVE  /\ runs[r].status # "none" /\ runs'[r].target = runs[r].target
               /\ runs[r].target \in batches[runs[r].batch].ended
    <3>1. t.pc = "loop" /\ x \in t.todo /\ ToRun(t, x) /\ (SetStatus(x, "retry") \/ SetStatus(x, "error"))
      BY <2>1 DEF PostFails, RetryLater
    <3>2. runs'[r].target = runs[r].target /\ (r # x => runs'[r].status = runs[r].status)
      BY <1>0, <3>1 DEF SetStatus, TypeOK, Run
    <3>3. runs[x].batch = t.batch
      BY <3>1 DEF Owners, OwnTrue, Works
    <3>4. runs[x].status # "none" /\ runs[x].target \in batches[runs[x].batch].ended
      BY <3>1, <3>3 DEF ToRun
    <3> QED
      BY <1>3, <3>2, <3>4
  <2>2. CASE CancelMark(t)
    <3>1. t.run \in Runs
      BY <1>0, <2>2 DEF CancelMark, TypeOK, Task
    <3> QED
      BY <1>3, <1>4, <2>2, <3>1 DEF CancelMark
  <2>3. ASSUME NEW x \in Targets, CreateTarget(t, x)
        PROVE  runs'[r].status = runs[r].status /\ runs'[r].target = runs[r].target
    <3>1. PICK y \in Runs : runs' = [runs EXCEPT ![y] =
            [status |-> "new", request |-> None, target |-> x, batch |-> t.batch,
             trigger |-> t.trigger, time |-> t.time]]
      BY <2>3 DEF CreateTarget
    <3> QED
      BY <1>0, <3>1 DEF TypeOK
  <2>4. CASE SetQueued(t) \/ SetPipelineId(t)
    <3>1. t.run \in Runs
      BY <2>4 DEF SetQueued, SetPipelineId, IInv, TasksTrue, TaskTrue
    <3>2. SetPipelineId(t) => runs'[r].status = runs[r].status /\ runs'[r].target = runs[r].target
      BY <1>0, <3>1 DEF SetPipelineId, TypeOK, Run
    <3> QED
      BY <1>3, <1>4, <2>4, <3>1, <3>2 DEF SetQueued
  <2>5. ASSUME NEW x \in Runs, PostRefused(t, x)
        PROVE  runs'[r].status = runs[r].status /\ runs'[r].target = runs[r].target
    BY <1>4, <2>5 DEF PostRefused
  <2>6. CASE runs' = runs
    BY <1>3, <2>6
  <2> QED
    BY <1>3, <1>5, <2>1, <2>2, <2>3, <2>4, <2>5, <2>6
       DEF Step, Submit, CancelRead, CancelInFarm, CreateGroup, Post, NotSubmitted, Skip, Reported, Retry
<1>6. ASSUME NEW t \in tasks, TaskFault(t) PROVE FALSE
  BY <1>2, <1>6 DEF TaskFault, ReportFails, Escape, Crash, Raises
<1>7. ASSUME NEW h \in storing, Store(h)
      PROVE  runs'[r].status = runs[r].status /\ runs'[r].target = runs[r].target
  <2>1. h.run \in Runs /\ h.result # "retry"
    BY <1>0 DEF TypeOK, Results, Running
  <2> QED
    BY <1>4, <1>7, <2>1 DEF Store
<1>8. ASSUME NEW x \in Runs, TimeOut(x) PROVE FALSE
  BY <1>2, <1>8 DEF TimeOut
<1>9. CASE runs' = runs
  BY <1>3, <1>9
<1> QED
  BY <1>3, <1>5, <1>6, <1>7, <1>8, <1>9
     DEF Next, vars, Event, Push, SendPush, Comment, NewBatch, BuildEnd, Trigger, Farm, FarmStart, FarmEnd,
         Notify, ResultsHandler, Take, StoreFails, Babysit

\* What has ended of a batch stays so, and nothing has ended before it is there.
LEMMA EndedStep ==
    ASSUME IInv, Ended, [Next]_vars
    PROVE  \A b \in Pushes : /\ batches[b].ended \subseteq batches'[b].ended
                             /\ batches'[b].time = 0 => batches'[b].ended = {}
<1> SUFFICES ASSUME NEW b \in Pushes
             PROVE  /\ batches[b].ended \subseteq batches'[b].ended
                    /\ batches'[b].time = 0 => batches'[b].ended = {}
  OBVIOUS
<1>0. TypeOK /\ now \in Nat
  BY DEF IInv, TypeOK
<1>1. CASE batches' = batches
  BY <1>1 DEF Ended
<1>2. ASSUME NEW c \in Pushes, NewBatch(c)
      PROVE  /\ batches[b].ended \subseteq batches'[b].ended
             /\ batches'[b].time = 0 => batches'[b].ended = {}
  BY <1>0, <1>2 DEF NewBatch, Ended, TypeOK
<1>3. ASSUME NEW c \in Pushes, NEW x \in Targets, BuildEnd(c, x)
      PROVE  /\ batches[b].ended \subseteq batches'[b].ended
             /\ batches'[b].time = 0 => batches'[b].ended = {}
  BY <1>0, <1>3 DEF BuildEnd, Ended, TypeOK, Batch
<1>4. ASSUME NEW t \in tasks, CreateGroup(t)
      PROVE  batches'[b].ended = batches[b].ended /\ batches'[b].time = batches[b].time
  BY <1>0, <1>4 DEF CreateGroup, TypeOK, Batch
<1>5. ASSUME NEW t \in tasks, Step(t), ~CreateGroup(t) PROVE batches' = batches
  BY <1>5 DEF Step, Submit, CancelRead, CancelInFarm, CancelMark, CreateTarget, Post, PostRefused,
              PostFails, NotSubmitted, Skip, SetPipelineId, SetQueued, Reported, Retry
<1>6. ASSUME NEW t \in tasks, TaskFault(t) PROVE batches' = batches
  BY <1>6 DEF TaskFault, ReportFails, Escape, Crash, Raises
<1>7. CASE Farm \/ ResultsHandler \/ \E r \in Runs : Babysit(r) \/ TimeOut(r)
  BY <1>1, <1>7 DEF Farm, FarmStart, FarmEnd, Notify, ResultsHandler, Take, Store, StoreFails, Babysit,
                    TimeOut
<1>8. CASE \E t \in tasks : Step(t) \/ TaskFault(t)
  BY <1>1, <1>4, <1>5, <1>6, <1>8 DEF Ended
<1> QED
  BY <1>1, <1>2, <1>3, <1>7, <1>8 DEF Next, vars, Event, Push, SendPush, Comment, Trigger

LEMMA EndedNext == ASSUME OInv, [Next]_vars PROVE Ended'
<1> USE DEF OInv
<1>1. \A b \in Pushes : batches'[b].time = 0 => batches'[b].ended = {}
  BY EndedStep
<1>2. ASSUME faults' = 0, NEW r \in Runs, runs'[r].status = "retry"
      PROVE  runs'[r].target \in batches'[runs'[r].batch].ended
  <2>1. /\ runs[r].status # "none" /\ runs'[r].target = runs[r].target
        /\ runs[r].target \in batches[runs[r].batch].ended
    BY <1>2, NewRetry
  <2>2. runs'[r].batch = runs[r].batch /\ runs[r].batch \in Pushes
    BY <2>1, Rows DEF RowStep, IInv, Ages, NotOlder
  <2> QED
    BY <2>1, <2>2, EndedStep
<1> QED
  BY <1>1, <1>2 DEF Ended

LEMMA RetryNext == ASSUME OInv, [Next]_vars PROVE RetryScheduled'
<1> USE DEF OInv
<1> SUFFICES ASSUME faults' = 0, NEW r \in Runs, runs'[r].status = "retry"
             PROVE  \E u \in tasks' : Carries(u, r)
  BY DEF RetryScheduled, Carries
<1>0. faults = 0 /\ faults' # faults + 1
  BY NewRetry
<1>1. runs[r].status = "retry" => \E t \in tasks : Carries(t, r)
  BY <1>0 DEF RetryScheduled, Carries
<1>2. CASE Quiet
  BY <1>1, <1>2 DEF Quiet, Settles, Waiting
<1>3. ASSUME NEW t \in tasks, GoesOn(t) PROVE \E u \in tasks' : Carries(u, r)
  <2>1. PICK S : Becomes(t, S) /\ Hands(t, S)
    BY <1>3 DEF GoesOn, Moves
  <2> QED
    BY <1>1, <2>1 DEF Becomes, Hands
<1> QED
  BY <1>0, <1>2, <1>3, Steps

LEMMA InitOInv == Init => OInv
<1> SUFFICES ASSUME Init PROVE OInv
  OBVIOUS
<1>1. \A r \in Runs : runs[r].status = "none"
  BY DEF Init, NoRun
<1>2. tasks = {} /\ faults = 0 /\ \A q \in Requests : farm[q].run = None
  BY DEF Init
<1>3. Owners
  BY <1>2 DEF Owners, OneOwner, RequestsMade
<1>4. \A r \in Runs : Cardinality(Requested(r)) = 0
  BY <1>1, <1>3, NotRequested
<1>5. Counted
  BY <1>2, <1>4 DEF Counted
<1>6. Ended /\ RetryScheduled
  BY <1>1 DEF Ended, RetryScheduled, Init, NoBatch
<1> QED
  BY <1>3, <1>5, <1>6, InitIInv DEF OInv

\* Every run that is still to be submitted is in the hands of one task, and has had no
\* more requests than faults: the strengthening that the two theorems below need.
THEOREM OneTaskPerRun == Spec => []OInv
<1>1. OInv /\ [Next]_vars => OInv'
  BY NextIInv, OwnersNext, CountedNext, EndedNext, RetryNext DEF OInv
<1> QED
  BY <1>1, InitOInv, PTL DEF Spec

\* After n faults Testing Farm has accepted no more than n + 1 requests for a run.
THEOREM RequestsAreCounted == Spec => []SubmittedOnce
<1>1. OInv => SubmittedOnce
  BY DEF OInv, Counted, SubmittedOnce, Requested
<1> QED
  BY <1>1, OneTaskPerRun, PTL

\* While nothing fails but submissions, a run with the status "retry" has a task that will
\* submit it again, in every interleaving of tasks and answers.
THEOREM RetriesAreScheduled == Spec => []RetryScheduled
<1>1. OInv => RetryScheduled
  BY DEF OInv
<1> QED
  BY <1>1, OneTaskPerRun, PTL

=============================================================================
