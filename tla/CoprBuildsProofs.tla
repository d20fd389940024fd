--------------------------- MODULE CoprBuildsProofs ---------------------------
(***************************************************************************)
(* Proofs about CoprBuilds, for any chroots, workers, number of triggers,  *)
(* builds and retries, with and without lost messages, dying workers and   *)
(* vanishing builds.                                                       *)
(*                                                                         *)
(* The properties say that what was true when a task read it still holds   *)
(* when the task writes.  So the invariant speaks about what messages and  *)
(* workers carry (QueueTrue, WorkerTrue, WorkerKnows, VictimsOld), about   *)
(* Copr, whose ended builds stay as they are (JobsInStep), and about the   *)
(* order of triggers and builds (TriggersInOrder, CutoffOld).              *)
(***************************************************************************)
EXTENDS CoprBuilds, TLAPS

\* A busy worker has a message of the kind that its step is for.
WorkerBusy ==
    \A w \in Workers :
        /\ worker[w].step # "idle" => worker[w].msg \in Message
        /\ worker[w].step \in {"start", "started", "success", "tests"} =>
              worker[w].msg.part \in Chroots
        /\ worker[w].step \in {"query", "pending", "srpm"} => worker[w].msg.part = Srpm

\* A task that works on a build created it, and has not submitted it twice.
CurrentReady ==
    \A t \in Triggers :
        /\ pc[t] \in {"targets", "submit", "save", "link", "babysit"} =>
              current[t] \in Builds /\ current[t] <= count /\ trigger[current[t]] = t
        /\ pc[t] \in {"targets", "submit"} => \A p \in Parts : job[current[t]][p] = "none"

\* Copr has no builds that the service has not created yet, and the chroots of
\* a build wait for its SRPM.
JobsInStep ==
    \A b \in Builds :
        /\ b > count => \A p \in Parts : job[b][p] = "none"
        /\ job[b][Srpm] = "none" => \A c \in Chroots : job[b][c] = "none"
        /\ job[b][Srpm] \in {"waiting", "running"} => \A c \in Chroots : job[b][c] = "waiting"

\* Messages about a start are about chroots, and those about an end are true:
\* what has ended stays as it is.
QueueTrue ==
    \A m \in queue :
        /\ m.kind = "start" => m.part \in Chroots
        /\ m.kind = "end" => job[m.build][m.part] \in Ended

\* So is what a handler has concluded from its message.
WorkerTrue ==
    \A w \in Workers :
        /\ worker[w].step # "idle" =>
              /\ worker[w].msg.kind = "start" => worker[w].msg.part \in Chroots
              /\ worker[w].msg.kind = "end" => job[worker[w].msg.build][worker[w].msg.part] \in Ended
        /\ worker[w].step \in {"success", "tests"} =>
              job[worker[w].msg.build][worker[w].msg.part] = "succeeded"
        /\ worker[w].step = "failure" /\ worker[w].msg.part # Srpm =>
              job[worker[w].msg.build][worker[w].msg.part] \in {"failed", "canceled"}

\* A handler about to make a target pending has found it by its build id.
WorkerKnows ==
    \A w \in Workers :
        /\ worker[w].step = "start" => linked[worker[w].msg.build][worker[w].msg.part]
        /\ worker[w].step = "pending" => worker[w].todo \subseteq LinkedChroots(worker[w].msg.build)

\* Events come in the order of their numbers, and each build is of one that came.
TriggersInOrder ==
    /\ \A s, t \in Triggers : s < t /\ pc[t] # "absent" => pc[s] # "absent"
    /\ \A b \in Builds : b <= count => trigger[b] \in Triggers /\ pc[trigger[b]] # "absent"

\* The builds up to the cutoff of an event are older than the event.
CutoffOld ==
    \A t \in Triggers :
        pc[t] # "absent" =>
            /\ cutoff[t] <= count
            /\ \A b \in Builds : b <= cutoff[t] => trigger[b] < t

\* What a task is about to cancel is not newer than its cutoff.
VictimsOld ==
    \A t \in Triggers :
        /\ pc[t] = "absent" => victims[t] = {}
        /\ \A v \in victims[t] : v[1] <= cutoff[t]

\* What is cancelled was not newer than the cutoff of some event.
CanceledOld ==
    \A b \in Builds :
        (\E c \in Chroots : target[b][c] = "canceled" \/ job[b][c] = "canceled")
            => \E t \in Triggers : pc[t] # "absent" /\ b <= cutoff[t]

IInv == /\ TypeOK /\ WorkerBusy /\ CurrentReady /\ JobsInStep /\ QueueTrue /\ WorkerTrue
        /\ WorkerKnows /\ TriggersInOrder /\ CutoffOld /\ VictimsOld /\ CanceledOld
        /\ PendingHasId /\ ReportsTrue

-----------------------------------------------------------------------------
(* Which actions change which variables                                    *)

\* Only a submitting task's own steps change its step, cutoff, victims and build.
LEMMA TaskSteps ==
    ASSUME [Next]_vars
    PROVE  \/ UNCHANGED <<pc, cutoff, victims, current, count, trigger, linked>>
           \/ \E t \in Triggers : Trigger(t) \/ SubmitTask(t) \/ Interrupt(t)
<1>1. CASE \E b \in Builds : Copr(b) \/ Remove(b)
  BY ZenonT(30), <1>1 DEF Copr, CoprRun, CoprEnd, Remove, submitVars, rowVars
<1>2. CASE \E w \in Workers : HandlerTask(w) \/ Fail(w)
  BY <1>2 DEF HandlerTask, Drop, StartTimeOnly, Take, StartPending, StartTime, SrpmQuery,
     SrpmPending, SrpmSuccess, EndFailure, EndSuccess, EndTests, Fail, submitVars, rowVars
<1>3. CASE \E b \in Builds : BabysitTry(b) \/ BabysitGivesUp(b) \/ CheckPending(b)
  BY <1>3 DEF BabysitTry, BabysitGivesUp, CheckPending, submitVars, rowVars
<1> QED
  BY <1>1, <1>2, <1>3 DEF Next, vars, submitVars, rowVars

\* Copr's jobs change when a task submits or cancels, and by Copr itself.
LEMMA JobSteps ==
    ASSUME [Next]_vars
    PROVE  \/ UNCHANGED job
           \/ \E t \in Triggers : CancelInCopr(t) \/ Submit(t)
           \/ \E b \in Builds : Copr(b)
<1>1. CASE \E t \in Triggers : Trigger(t) \/ SubmitTask(t) \/ Interrupt(t)
  BY <1>1 DEF SubmitTask, Trigger, CancelRead, CancelMark, Create, CreateTargets, SubmitOutage,
     SubmitError, SaveSrpmId, Link, Babysit, Interrupt, coprVars
<1>2. CASE \E b \in Builds : Remove(b)
  BY <1>2 DEF Remove
<1>3. CASE \E w \in Workers : HandlerTask(w) \/ Fail(w)
  BY <1>3 DEF HandlerTask, Drop, StartTimeOnly, Take, StartPending, StartTime, SrpmQuery,
     SrpmPending, SrpmSuccess, EndFailure, EndSuccess, EndTests, Fail, coprVars
<1>4. CASE \E b \in Builds : BabysitTry(b) \/ BabysitGivesUp(b) \/ CheckPending(b)
  BY <1>4 DEF BabysitTry, BabysitGivesUp, CheckPending, coprVars
<1> QED
  BY <1>1, <1>2, <1>3, <1>4 DEF Next, vars, coprVars

\* Only a worker's own steps change what it works on.
LEMMA WorkerSteps ==
    ASSUME [Next]_vars
    PROVE  \/ UNCHANGED worker
           \/ \E w \in Workers :
                \/ Take(w) \/ StartPending(w) \/ StartTime(w) \/ SrpmQuery(w) \/ SrpmPending(w)
                \/ SrpmSuccess(w) \/ EndFailure(w) \/ EndSuccess(w) \/ EndTests(w) \/ Fail(w)
<1>1. CASE \E t \in Triggers : Trigger(t) \/ SubmitTask(t) \/ Interrupt(t)
  BY <1>1 DEF SubmitTask, Trigger, CancelRead, CancelInCopr, CancelMark, Create, CreateTargets,
     Submit, SubmitOutage, SubmitError, SaveSrpmId, Link, Babysit, Interrupt, Send, eventVars
<1>2. CASE \E b \in Builds : Copr(b) \/ Remove(b)
  BY <1>2 DEF Copr, CoprRun, CoprEnd, Remove, Send, eventVars
<1>3. CASE \E w \in Workers : Drop(w) \/ StartTimeOnly(w)
  BY <1>3 DEF Drop, StartTimeOnly
<1>4. CASE \E b \in Builds : BabysitTry(b) \/ BabysitGivesUp(b) \/ CheckPending(b)
  BY <1>4 DEF BabysitTry, BabysitGivesUp, CheckPending
<1> QED
  BY <1>1, <1>2, <1>3, <1>4 DEF Next, HandlerTask, vars, eventVars

\* Messages come from Copr and from the babysitter, and workers take them.
LEMMA QueueSteps ==
    ASSUME [Next]_vars
    PROVE  \/ queue' \subseteq queue
           \/ \E t \in Triggers : CancelInCopr(t)
           \/ \E b \in Builds : Copr(b)
           \/ \E w \in Workers : Fail(w)
           \/ \E b \in Builds : BabysitTry(b) \/ CheckPending(b)
<1>1. CASE \E t \in Triggers : Trigger(t) \/ SubmitTask(t) \/ Interrupt(t)
  BY <1>1 DEF SubmitTask, Trigger, CancelRead, CancelMark, Create, CreateTargets, Submit,
     SubmitOutage, SubmitError, SaveSrpmId, Link, Babysit, Interrupt, eventVars
<1>2. CASE \E b \in Builds : Remove(b) \/ BabysitGivesUp(b)
  BY <1>2 DEF Remove, BabysitGivesUp, eventVars
<1>3. CASE \E w \in Workers : HandlerTask(w)
  BY <1>3 DEF HandlerTask, Drop, StartTimeOnly, Take, StartPending, StartTime, SrpmQuery,
     SrpmPending, SrpmSuccess, EndFailure, EndSuccess, EndTests
<1> QED
  BY <1>1, <1>2, <1>3 DEF Next, vars, eventVars

\* The steps that write the status of a target.
LEMMA TargetSteps ==
    ASSUME [Next]_vars
    PROVE  \/ UNCHANGED target
           \/ \E t \in Triggers :
                CancelMark(t) \/ CreateTargets(t) \/ SubmitOutage(t) \/ SubmitError(t)
           \/ \E w \in Workers :
                StartPending(w) \/ SrpmPending(w) \/ EndFailure(w) \/ EndSuccess(w)
           \/ \E b \in Builds : BabysitTry(b) \/ CheckPending(b)
<1>1. CASE \E t \in Triggers : Trigger(t) \/ SubmitTask(t) \/ Interrupt(t)
  BY <1>1 DEF SubmitTask, Trigger, CancelRead, CancelInCopr, Create, Submit, SaveSrpmId, Link,
     Babysit, Interrupt, rowVars
<1>2. CASE \E b \in Builds : Copr(b) \/ Remove(b) \/ BabysitGivesUp(b)
  BY <1>2 DEF Copr, CoprRun, CoprEnd, Remove, BabysitGivesUp, rowVars
<1>3. CASE \E w \in Workers : HandlerTask(w) \/ Fail(w)
  BY <1>3 DEF HandlerTask, Drop, StartTimeOnly, Take, StartTime, SrpmQuery, SrpmSuccess,
     EndTests, Fail, rowVars
<1> QED
  BY <1>1, <1>2, <1>3 DEF Next, vars, rowVars

\* The steps that count test triggers.
LEMMA TestsSteps ==
    ASSUME [Next]_vars
    PROVE  UNCHANGED tests \/ \E w \in Workers : EndTests(w)
<1>1. CASE \E t \in Triggers : Trigger(t) \/ SubmitTask(t) \/ Interrupt(t)
  BY <1>1 DEF SubmitTask, Trigger, CancelRead, CancelInCopr, CancelMark, Create, CreateTargets,
     Submit, SubmitOutage, SubmitError, SaveSrpmId, Link, Babysit, Interrupt, rowVars
<1>2. CASE \E b \in Builds : Copr(b) \/ Remove(b)
  BY <1>2 DEF Copr, CoprRun, CoprEnd, Remove, rowVars
<1>3. CASE \E w \in Workers : HandlerTask(w) \/ Fail(w)
  BY <1>3 DEF HandlerTask, Drop, StartTimeOnly, Take, StartPending, StartTime, SrpmQuery,
     SrpmPending, SrpmSuccess, EndFailure, EndSuccess, Fail, rowVars
<1>4. CASE \E b \in Builds : BabysitTry(b) \/ BabysitGivesUp(b) \/ CheckPending(b)
  BY <1>4 DEF BabysitTry, BabysitGivesUp, CheckPending, rowVars
<1> QED
  BY <1>1, <1>2, <1>3, <1>4 DEF Next, vars, rowVars

-----------------------------------------------------------------------------
(* Types                                                                   *)

USE Assumptions DEF Parts, Triggers, Builds

\* Messages are records of a kind, a build, a part and a status.
LEMMA MessagesType ==
    ASSUME NEW b \in Builds, NEW parts, parts \subseteq Parts
    PROVE  /\ Messages("start", b, parts) \subseteq Message
           /\ Messages("end", b, parts) \subseteq Message
  BY DEF Messages, Message

\* Sending adds some of the messages to the queue, and that is all.
LEMMA SendType ==
    ASSUME NEW sure, NEW maybe, Send(sure, maybe)
    PROVE  queue' \subseteq queue \cup sure \cup maybe /\ UNCHANGED <<worker, sitter>>
  BY DEF Send

\* What a look at a build in Copr may write and send.
LEMMA UpdateSteps ==
    ASSUME NEW b \in Builds, NEW chroots \in SUBSET Chroots, UpdateBuild(b, chroots)
    PROVE  /\ \E late : SetErrors(b, late)
           /\ \/ UNCHANGED srpm
              \/ srpm' = [srpm EXCEPT ![b] = "error"]
              \/ srpm' = [srpm EXCEPT ![b] = @]
           /\ \/ UNCHANGED queue
              \/ \E S \in SUBSET Chroots :
                    queue' = queue \cup SrpmMessages(b) \cup UNION {TargetMessages(b, c) : c \in S}
<1>1. CASE BuildGone(b, chroots)
  BY <1>1 DEF BuildGone
<1>2. CASE BuildVanishes(b, chroots)
  <2>1. CASE srpmId[b] /\ srpm[b] = "pending"
    BY <1>2, <2>1 DEF BuildVanishes
  <2>2. CASE ~(srpmId[b] /\ srpm[b] = "pending")
    BY <1>2, <2>2 DEF BuildVanishes
  <2> QED
    BY <2>1, <2>2
<1>3. CASE BuildKnown(b, chroots)
  <2>1. ASSUME NEW late PROVE RunningOf(b, chroots \ late) \in SUBSET Chroots
    BY DEF RunningOf
  <2> QED
    BY <1>3, <2>1 DEF BuildKnown
<1> QED
  BY <1>1, <1>2, <1>3 DEF UpdateBuild

\* Every step keeps the variables in their types.
LEMMA TypeStep == TypeOK /\ WorkerBusy /\ CurrentReady /\ [Next]_vars => TypeOK'
<1> SUFFICES ASSUME TypeOK, WorkerBusy, CurrentReady, [Next]_vars PROVE TypeOK'
  OBVIOUS
<1> USE DEF TypeOK, Goto, submitVars, rowVars, coprVars, eventVars
<1>1. ASSUME NEW t \in Triggers, Trigger(t) PROVE TypeOK'
  BY <1>1 DEF Trigger, SubmitStep
<1>2. ASSUME NEW t \in Triggers, CancelRead(t) PROVE TypeOK'
  <2>1. RunningBefore(cutoff[t]) \subseteq Builds \X Chroots \X BOOLEAN
    BY DEF RunningBefore
  <2>2. victims' \in [Triggers -> SUBSET (Builds \X Chroots \X BOOLEAN)]
    BY <1>2, <2>1 DEF CancelRead
  <2>3. pc' \in [Triggers -> SubmitStep]
    BY <1>2 DEF CancelRead, AfterCancel, SubmitStep
  <2> QED
    BY <1>2, <2>2, <2>3 DEF CancelRead
<1>3. ASSUME NEW t \in Triggers, CancelInCopr(t) PROVE TypeOK'
  <2>0. PICK b \in WithId(victims[t]) :
          LET left == {<<v[1], v[2], v[3] /\ v[1] # b>> : v \in victims[t]}
          IN  /\ job' = CanceledJobs({b})
              /\ Send({}, EndsOf(CanceledJobs({b})))
              /\ victims' = [victims EXCEPT ![t] = left]
              /\ pc' = [pc EXCEPT ![t] = AfterCancel(left)]
    BY <1>3 DEF CancelInCopr
  <2>1. PICK ids : job' = CanceledJobs(ids) /\ Send({}, EndsOf(CanceledJobs(ids)))
    BY <2>0
  <2>6. {<<v[1], v[2], v[3] /\ v[1] # b>> : v \in victims[t]} \subseteq Builds \X Chroots \X BOOLEAN
    <3>1. ASSUME NEW v \in victims[t]
          PROVE  <<v[1], v[2], v[3] /\ v[1] # b>> \in Builds \X Chroots \X BOOLEAN
      <4>1. v \in Builds \X Chroots \X BOOLEAN
        OBVIOUS
      <4>2. v[1] \in Builds /\ v[2] \in Chroots
        BY <4>1
      <4>3. (v[3] /\ v[1] # b) \in BOOLEAN
        OBVIOUS
      <4> HIDE DEF TypeOK
      <4> QED
        BY <4>2, <4>3
    <3> QED
      BY <3>1
  <2>7. victims' \in [Triggers -> SUBSET (Builds \X Chroots \X BOOLEAN)]
    BY <2>0, <2>6
  <2>2. job' \in [Builds -> [Parts -> JobState]]
    BY <2>1 DEF CanceledJobs, JobState
  <2>3. EndsOf(CanceledJobs(ids)) \subseteq Message
    BY DEF EndsOf
  <2>4. queue' \subseteq Message /\ UNCHANGED <<worker, sitter>>
    BY <2>1, <2>3, SendType
  <2>5. pc' \in [Triggers -> SubmitStep]
    BY <2>0 DEF AfterCancel, SubmitStep
  <2> QED
    BY <1>3, <2>2, <2>4, <2>5, <2>7 DEF CancelInCopr
<1>4. ASSUME NEW t \in Triggers, CancelMark(t) PROVE TypeOK'
  <2>1. PICK v \in victims[t] :
          /\ target' = [target EXCEPT ![v[1]][v[2]] = "canceled"]
          /\ victims' = [victims EXCEPT ![t] = @ \ {v}]
    BY <1>4 DEF CancelMark
  <2>2. v[1] \in Builds /\ v[2] \in Chroots
    <3>1. v \in Builds \X Chroots \X BOOLEAN
      BY <2>1
    <3> QED
      BY <3>1
  <2>3. target' \in [Builds -> [Chroots -> BuildStatus \cup {"none"}]]
    BY <2>1, <2>2 DEF BuildStatus
  <2>4. victims' \in [Triggers -> SUBSET (Builds \X Chroots \X BOOLEAN)]
    BY <2>1
  <2>5. pc' \in [Triggers -> SubmitStep]
    BY <1>4 DEF CancelMark, SubmitStep
  <2> QED
    BY <1>4, <2>3, <2>4, <2>5 DEF CancelMark
<1>5. ASSUME NEW t \in Triggers, Create(t) PROVE TypeOK'
  <2>1. count + 1 \in Builds /\ count' \in 0..MaxBuilds
    BY <1>5 DEF Create
  <2>2. srpm' \in [Builds -> BuildStatus \cup {"none"}]
    BY <1>5, <2>1 DEF Create, BuildStatus
  <2>3. trigger' \in [Builds -> Triggers \cup {NULL}] /\ current' \in [Triggers -> Builds \cup {NULL}]
    BY <1>5, <2>1 DEF Create
  <2>4. pc' \in [Triggers -> SubmitStep]
    BY <1>5 DEF Create, SubmitStep
  <2> QED
    BY <1>5, <2>1, <2>2, <2>3, <2>4 DEF Create
<1>6. ASSUME NEW t \in Triggers, CreateTargets(t) PROVE TypeOK'
  <2>1. current[t] \in Builds
    BY <1>6 DEF CreateTargets, CurrentReady
  <2>2. PICK c \in Chroots : target' = [target EXCEPT ![current[t]][c] = "waiting_for_srpm"]
    BY <1>6 DEF CreateTargets
  <2>3. target' \in [Builds -> [Chroots -> BuildStatus \cup {"none"}]]
    BY <2>1, <2>2 DEF BuildStatus
  <2>4. pc' \in [Triggers -> SubmitStep]
    BY <1>6 DEF CreateTargets, SubmitStep
  <2> QED
    BY <1>6, <2>3, <2>4 DEF CreateTargets
<1>7. ASSUME NEW t \in Triggers, Submit(t) PROVE TypeOK'
  BY <1>7 DEF Submit, CurrentReady, JobState, SubmitStep
<1>8. ASSUME NEW t \in Triggers, SubmitOutage(t) PROVE TypeOK'
  <2>1. target' \in [Builds -> [Chroots -> BuildStatus \cup {"none"}]]
    BY <1>8 DEF SubmitOutage, CurrentReady, BuildStatus
  <2>2. retries[t] + 1 \in 0..MaxRetries
    BY <1>8 DEF SubmitOutage
  <2>3. retries' \in [Triggers -> 0..MaxRetries] /\ current' \in [Triggers -> Builds \cup {NULL}]
    BY <1>8, <2>2 DEF SubmitOutage
  <2>4. pc' \in [Triggers -> SubmitStep]
    BY <1>8 DEF SubmitOutage, SubmitStep
  <2> QED
    BY <1>8, <2>1, <2>3, <2>4 DEF SubmitOutage
<1>9. ASSUME NEW t \in Triggers, SubmitError(t) PROVE TypeOK'
  BY <1>9 DEF SubmitError, CurrentReady, BuildStatus, SubmitStep
<1>10. ASSUME NEW t \in Triggers, SaveSrpmId(t) PROVE TypeOK'
  BY <1>10 DEF SaveSrpmId, CurrentReady, SubmitStep
<1>11. ASSUME NEW t \in Triggers, Link(t) PROVE TypeOK'
  <2>1. linked' \in [Builds -> [Chroots -> BOOLEAN]]
    BY <1>11 DEF Link, CurrentReady
  <2>2. pc' \in [Triggers -> SubmitStep]
    BY <1>11 DEF Link, SubmitStep
  <2> QED
    BY <1>11, <2>1, <2>2 DEF Link
<1>12. ASSUME NEW t \in Triggers, Babysit(t) PROVE TypeOK'
  <2>1. sitter' \in [Builds -> {"none", "polling", "done", "stopped"}]
    BY <1>12 DEF Babysit, CurrentReady
  <2>2. pc' \in [Triggers -> SubmitStep]
    BY <1>12 DEF Babysit, SubmitStep
  <2> QED
    BY <1>12, <2>1, <2>2 DEF Babysit
<1>13. ASSUME NEW t \in Triggers, Interrupt(t) PROVE TypeOK'
  <2>1. pc' \in [Triggers -> SubmitStep]
    BY <1>13 DEF Interrupt, SubmitStep
  <2>2. retries' \in [Triggers -> 0..MaxRetries]
    <3>1. CASE retries[t] < MaxRetries /\ retries' = [retries EXCEPT ![t] = @ + 1]
      <4>1. retries[t] + 1 \in 0..MaxRetries
        BY <3>1
      <4> QED
        BY <3>1, <4>1
    <3>2. CASE UNCHANGED retries
      BY <3>2
    <3> QED
      BY <1>13, <3>1, <3>2 DEF Interrupt
  <2>3. current' \in [Triggers -> Builds \cup {NULL}]
    BY <1>13 DEF Interrupt
  <2>4. victims' \in [Triggers -> SUBSET (Builds \X Chroots \X BOOLEAN)]
    BY <1>13 DEF Interrupt
  <2> QED
    BY <1>13, <2>1, <2>2, <2>3, <2>4 DEF Interrupt
<1>14. ASSUME NEW b \in Builds, NEW p \in Parts, CoprRun(b, p) PROVE TypeOK'
  <2>1. job' \in [Builds -> [Parts -> JobState]]
    BY <1>14 DEF CoprRun, JobState
  <2>2. Send(Messages("start", b, {p} \ {Srpm}), {})
    BY <1>14 DEF CoprRun
  <2>3. Messages("start", b, {p} \ {Srpm}) \subseteq Message
    BY MessagesType
  <2>4. /\ queue' \subseteq queue \cup Messages("start", b, {p} \ {Srpm}) \cup {}
        /\ UNCHANGED <<worker, sitter>>
    BY <2>2, SendType
  <2>5. queue' \subseteq Message
    BY <2>3, <2>4
  <2> QED
    BY <1>14, <2>1, <2>4, <2>5 DEF CoprRun
<1>15. ASSUME NEW b \in Builds, NEW p \in Parts, NEW r, CoprEnd(b, p, r) PROVE TypeOK'
  <2>1. job' \in [Builds -> [Parts -> JobState]]
    BY <1>15 DEF CoprEnd, JobState
  <2>2. PICK others \in SUBSET Chroots :
          Send(Messages("end", b, {p}), Messages("end", b, others))
    BY <1>15 DEF CoprEnd
  <2>3. Messages("end", b, {p}) \subseteq Message /\ Messages("end", b, others) \subseteq Message
    BY MessagesType
  <2>4. /\ queue' \subseteq queue \cup Messages("end", b, {p}) \cup Messages("end", b, others)
        /\ UNCHANGED <<worker, sitter>>
    BY <2>2, SendType
  <2>5. queue' \subseteq Message
    BY <2>3, <2>4
  <2> QED
    BY <1>15, <2>1, <2>4, <2>5 DEF CoprEnd
<1>16. ASSUME NEW b \in Builds, Remove(b) PROVE TypeOK'
  BY <1>16 DEF Remove
<1>17. ASSUME NEW w \in Workers, Drop(w) PROVE TypeOK'
  BY <1>17 DEF Drop
<1> USE DEF At, BuildOf, ChrootOf, Set, Work, Finish, Idle
<1>18. ASSUME NEW w \in Workers, StartTimeOnly(w) PROVE TypeOK'
  <2>1. PICK m \in queue :
          /\ m.kind = "start" /\ target[m.build][m.part] \in Final
          /\ started' = [started EXCEPT ![m.build][m.part] = TRUE]
          /\ queue' = queue \ {m}
    BY <1>18 DEF StartTimeOnly
  <2>2. started' \in [Builds -> [Chroots -> BOOLEAN]]
    BY <2>1 DEF Message
  <2> QED
    BY <1>18, <2>1, <2>2 DEF StartTimeOnly
<1>19. ASSUME NEW w \in Workers, Take(w) PROVE TypeOK'
  <2>1. PICK m \in queue, s \in HandlerStep :
          worker' = [worker EXCEPT ![w] = [step |-> s, msg |-> m, todo |-> {}]] /\ queue' = queue \ {m}
    BY <1>19 DEF Take, HandlerStep
  <2> QED
    BY <1>19, <2>1 DEF Take
<1>20. ASSUME NEW w \in Workers, StartPending(w) PROVE TypeOK'
  BY <1>20 DEF StartPending, WorkerBusy, HandlerStep, BuildStatus, Message
<1>21. ASSUME NEW w \in Workers, StartTime(w) PROVE TypeOK'
  BY <1>21 DEF StartTime, WorkerBusy, HandlerStep, Message
<1>22. ASSUME NEW w \in Workers, SrpmQuery(w) PROVE TypeOK'
  BY <1>22 DEF SrpmQuery, HandlerStep
<1>23. ASSUME NEW w \in Workers, SrpmPending(w) PROVE TypeOK'
  <2>1. PICK c \in worker[w].todo, s \in HandlerStep :
          /\ target' = [target EXCEPT ![worker[w].msg.build][c] = "pending"]
          /\ worker' = [worker EXCEPT ![w] =
                          [step |-> s, msg |-> worker[w].msg, todo |-> worker[w].todo \ {c}]]
    BY <1>23 DEF SrpmPending, HandlerStep
  <2>2. worker[w].msg.build \in Builds /\ c \in Chroots
    BY <1>23 DEF SrpmPending, WorkerBusy, Message
  <2>3. target' \in [Builds -> [Chroots -> BuildStatus \cup {"none"}]]
    BY <2>1, <2>2 DEF BuildStatus
  <2>4. worker' \in [Workers -> [step : HandlerStep, msg : Message \cup {NULL}, todo : SUBSET Chroots]]
    BY <2>1
  <2> QED
    BY <1>23, <2>3, <2>4 DEF SrpmPending
<1>24. ASSUME NEW w \in Workers, SrpmSuccess(w) PROVE TypeOK'
  BY <1>24 DEF SrpmSuccess, WorkerBusy, HandlerStep, BuildStatus, Message
<1>25. ASSUME NEW w \in Workers, EndFailure(w) PROVE TypeOK'
  <2>1. worker[w].msg.build \in Builds /\ worker[w].msg.part \in Parts
    BY <1>25 DEF EndFailure, WorkerBusy, Message
  <2>2. srpm' \in [Builds -> BuildStatus \cup {"none"}]
    BY <1>25, <2>1 DEF EndFailure, BuildStatus
  <2>3. target' \in [Builds -> [Chroots -> BuildStatus \cup {"none"}]]
    <3>1. CASE worker[w].msg.part = Srpm
      BY <1>25, <2>1, <3>1 DEF EndFailure
    <3>2. CASE worker[w].msg.part \in Chroots
      <4>1. target' = [target EXCEPT ![worker[w].msg.build][worker[w].msg.part] = "failure"]
        BY <1>25, <3>2 DEF EndFailure
      <4> QED
        BY <2>1, <3>2, <4>1 DEF BuildStatus
    <3> QED
      BY <2>1, <3>1, <3>2
  <2>4. worker' \in [Workers -> [step : HandlerStep, msg : Message \cup {NULL}, todo : SUBSET Chroots]]
    BY <1>25 DEF EndFailure, HandlerStep
  <2> QED
    BY <1>25, <2>2, <2>3, <2>4 DEF EndFailure
<1>26. ASSUME NEW w \in Workers, EndSuccess(w) PROVE TypeOK'
  BY <1>26 DEF EndSuccess, WorkerBusy, HandlerStep, BuildStatus, Message
<1>27. ASSUME NEW w \in Workers, EndTests(w) PROVE TypeOK'
  <2>1. worker[w].msg.build \in Builds /\ worker[w].msg.part \in Chroots
    BY <1>27 DEF EndTests, WorkerBusy, Message
  <2>2. tests[worker[w].msg.build][worker[w].msg.part] \in 0..2
    BY <2>1
  <2>3. PICK n \in 0..2 : tests' = [tests EXCEPT ![worker[w].msg.build][worker[w].msg.part] = n]
    <3> DEFINE n == tests[worker[w].msg.build][worker[w].msg.part]
    <3>1. tests' = [tests EXCEPT ![worker[w].msg.build][worker[w].msg.part] = IF n < 2 THEN n + 1 ELSE 2]
      BY <1>27, <2>1 DEF EndTests
    <3>2. (IF n < 2 THEN n + 1 ELSE 2) \in 0..2
      BY <2>2
    <3> HIDE DEF n
    <3> QED
      BY <3>1, <3>2
  <2>5. tests' \in [Builds -> [Chroots -> 0..2]]
    BY <2>1, <2>3
  <2>4. worker' \in [Workers -> [step : HandlerStep, msg : Message \cup {NULL}, todo : SUBSET Chroots]]
    BY <1>27 DEF EndTests, HandlerStep
  <2> QED
    BY <1>27, <2>4, <2>5 DEF EndTests
<1>28. ASSUME NEW w \in Workers, Fail(w) PROVE TypeOK'
  BY <1>28 DEF Fail, WorkerBusy, HandlerStep
<1>29. ASSUME NEW b \in Builds, NEW chroots \in SUBSET Chroots, UpdateBuild(b, chroots)
       PROVE  /\ target' \in [Builds -> [Chroots -> BuildStatus \cup {"none"}]]
              /\ srpm' \in [Builds -> BuildStatus \cup {"none"}]
              /\ queue' \subseteq Message
  <2>1. PICK late : SetErrors(b, late)
    BY <1>29, UpdateSteps
  <2>2. target' \in [Builds -> [Chroots -> BuildStatus \cup {"none"}]]
    BY <2>1 DEF SetErrors, BuildStatus
  <2>3. srpm' \in [Builds -> BuildStatus \cup {"none"}]
    <3>1. CASE UNCHANGED srpm
      BY <3>1
    <3>2. CASE srpm' = [srpm EXCEPT ![b] = "error"]
      BY <3>2 DEF BuildStatus
    <3>3. CASE srpm' = [srpm EXCEPT ![b] = @]
      BY <3>3
    <3> QED
      BY <1>29, <3>1, <3>2, <3>3, UpdateSteps
  <2>4. SrpmMessages(b) \subseteq Message
    BY MessagesType DEF SrpmMessages
  <2>5. ASSUME NEW c \in Chroots PROVE TargetMessages(b, c) \subseteq Message
    BY MessagesType DEF TargetMessages
  <2>6. ASSUME NEW S \in SUBSET Chroots PROVE UNION {TargetMessages(b, c) : c \in S} \subseteq Message
    BY <2>5
  <2>7. queue' \subseteq Message
    <3>1. CASE UNCHANGED queue
      BY <3>1
    <3>2. ASSUME NEW S \in SUBSET Chroots,
                 queue' = queue \cup SrpmMessages(b) \cup UNION {TargetMessages(b, c) : c \in S}
          PROVE  queue' \subseteq Message
      BY <2>4, <2>6, <3>2
    <3> QED
      BY <1>29, <3>1, <3>2, UpdateSteps
  <2> QED
    BY <2>2, <2>3, <2>7
<1>30. ASSUME NEW b \in Builds, BabysitTry(b) PROVE TypeOK'
  <2>1. LinkedChroots(b) \in SUBSET Chroots
    BY DEF LinkedChroots
  <2>2. sitter' \in [Builds -> {"none", "polling", "done", "stopped"}]
    BY <1>30 DEF BabysitTry
  <2> QED
    BY <1>29, <1>30, <2>1, <2>2 DEF BabysitTry
<1>31. ASSUME NEW b \in Builds, BabysitGivesUp(b) PROVE TypeOK'
  BY <1>31 DEF BabysitGivesUp
<1>32. ASSUME NEW b \in Builds, CheckPending(b) PROVE TypeOK'
  <2>1. {c \in Chroots : <<b, c>> \in Pending} \in SUBSET Chroots
    OBVIOUS
  <2> QED
    BY <1>29, <1>32, <2>1 DEF CheckPending
<1>33. CASE UNCHANGED vars
  BY <1>33 DEF vars
<1>34. CASE \E t \in Triggers : Trigger(t) \/ SubmitTask(t) \/ Interrupt(t)
  BY <1>34, <1>1, <1>2, <1>3, <1>4, <1>5, <1>6, <1>7, <1>8, <1>9, <1>10, <1>11, <1>12, <1>13
     DEF SubmitTask
<1>35. CASE \E b \in Builds : Copr(b) \/ Remove(b)
  <2>1. ASSUME NEW b \in Builds, Copr(b) PROVE TypeOK'
    <3>1. PICK p \in Parts : CoprRun(b, p) \/ \E r \in {"succeeded", "failed"} : CoprEnd(b, p, r)
      BY <2>1 DEF Copr
    <3>2. CASE CoprRun(b, p)
      BY <1>14, <3>2
    <3>3. CASE \E r \in {"succeeded", "failed"} : CoprEnd(b, p, r)
      <4>1. PICK r : CoprEnd(b, p, r)
        BY <3>3
      <4> QED
        BY <1>15, <4>1
    <3> QED
      BY <3>1, <3>2, <3>3
  <2> QED
    BY <1>35, <1>16, <2>1
<1>36. CASE \E w \in Workers : HandlerTask(w) \/ Fail(w)
  BY <1>36, <1>17, <1>18, <1>19, <1>20, <1>21, <1>22, <1>23, <1>24, <1>25, <1>26, <1>27, <1>28
     DEF HandlerTask
<1> QED
  BY <1>30, <1>31, <1>32, <1>33, <1>34, <1>35, <1>36 DEF Next

-----------------------------------------------------------------------------
(* What stays as it is                                                     *)

\* A part of a build that has ended in Copr stays as it is.
LEMMA EndedStays ==
    ASSUME TypeOK, CurrentReady, JobsInStep, [Next]_vars,
           NEW b \in Builds, NEW p \in Parts, job[b][p] \in Ended
    PROVE  job'[b][p] = job[b][p]
<1> USE DEF TypeOK, Ended
<1>1. CASE UNCHANGED job
  BY <1>1
<1>2. ASSUME NEW t \in Triggers, CancelInCopr(t) PROVE job'[b][p] = job[b][p]
  <2>1. PICK ids : job' = CanceledJobs(ids)
    BY <1>2 DEF CancelInCopr
  <2> QED
    BY <2>1 DEF CanceledJobs
<1>3. ASSUME NEW t \in Triggers, Submit(t) PROVE job'[b][p] = job[b][p]
  BY <1>3 DEF Submit, CurrentReady
<1>4. ASSUME NEW a \in Builds, NEW q \in Parts, CoprRun(a, q) PROVE job'[b][p] = job[b][p]
  BY <1>4 DEF CoprRun
<1>5. ASSUME NEW a \in Builds, NEW q \in Parts, NEW r, CoprEnd(a, q, r) PROVE job'[b][p] = job[b][p]
  BY <1>5 DEF CoprEnd, JobsInStep
<1>6. ASSUME NEW a \in Builds, Copr(a) PROVE job'[b][p] = job[b][p]
  BY <1>4, <1>5, <1>6 DEF Copr
<1> QED
  BY <1>1, <1>2, <1>3, <1>6, JobSteps

\* A target that is linked stays linked.
LEMMA LinkedStays ==
    ASSUME TypeOK, CurrentReady, [Next]_vars, NEW b \in Builds, NEW c \in Chroots, linked[b][c]
    PROVE  linked'[b][c]
<1>1. ASSUME NEW t \in Triggers, Link(t) PROVE linked'[b][c]
  BY <1>1 DEF Link, TypeOK, CurrentReady
<1>2. ASSUME NEW t \in Triggers, Trigger(t) \/ SubmitTask(t) \/ Interrupt(t) PROVE linked'[b][c]
  BY <1>1, <1>2 DEF SubmitTask, Trigger, CancelRead, CancelInCopr, CancelMark, Create,
     CreateTargets, Submit, SubmitOutage, SubmitError, SaveSrpmId, Babysit, Interrupt, rowVars
<1> QED
  BY <1>2, TaskSteps

\* An event that has come has come, and keeps its cutoff.
LEMMA CutoffStays ==
    ASSUME TypeOK, [Next]_vars, NEW t \in Triggers, pc[t] # "absent"
    PROVE  pc'[t] # "absent" /\ cutoff'[t] = cutoff[t]
<1> USE DEF TypeOK, Goto
<1>1. ASSUME NEW u \in Triggers, Trigger(u) PROVE pc'[t] # "absent" /\ cutoff'[t] = cutoff[t]
  BY <1>1 DEF Trigger
<1>2. ASSUME NEW u \in Triggers, SubmitTask(u) PROVE pc'[t] # "absent" /\ cutoff'[t] = cutoff[t]
  <2>1. PICK s \in SubmitStep \ {"absent"} : pc' = [pc EXCEPT ![u] = s]
    <3>1. CASE CancelRead(u) \/ CancelInCopr(u)
      BY <3>1 DEF CancelRead, CancelInCopr, AfterCancel, SubmitStep
    <3>2. CASE CancelMark(u) \/ Create(u) \/ CreateTargets(u) \/ Submit(u) \/ SubmitOutage(u)
               \/ SubmitError(u) \/ SaveSrpmId(u) \/ Link(u) \/ Babysit(u)
      BY <3>2 DEF CancelMark, Create, CreateTargets, Submit, SubmitOutage, SubmitError, SaveSrpmId,
         Link, Babysit, SubmitStep
    <3> QED
      BY <1>2, <3>1, <3>2 DEF SubmitTask
  <2>2. UNCHANGED cutoff
    BY <1>2 DEF SubmitTask, CancelRead, CancelInCopr, CancelMark, Create, CreateTargets, Submit,
       SubmitOutage, SubmitError, SaveSrpmId, Link, Babysit
  <2> QED
    BY <2>1, <2>2
<1>3. ASSUME NEW u \in Triggers, Interrupt(u) PROVE pc'[t] # "absent" /\ cutoff'[t] = cutoff[t]
  BY <1>3 DEF Interrupt
<1> QED
  BY <1>1, <1>2, <1>3, TaskSteps

\* Builds are added at the end, and keep their trigger.
LEMMA TriggerStays ==
    ASSUME TypeOK, [Next]_vars
    PROVE  /\ count' \in Nat /\ count <= count'
           /\ \A b \in Builds : b <= count => trigger'[b] = trigger[b]
           /\ \/ UNCHANGED <<count, trigger>>
              \/ \E t \in Triggers : Create(t)
<1> USE DEF TypeOK
<1>1. ASSUME NEW t \in Triggers, Create(t)
      PROVE  count' \in Nat /\ count <= count' /\ \A b \in Builds : b <= count => trigger'[b] = trigger[b]
  BY <1>1 DEF Create
<1>2. \/ UNCHANGED <<count, trigger>>
      \/ \E t \in Triggers : Create(t)
  <2>1. CASE \E t \in Triggers : Trigger(t) \/ SubmitTask(t) \/ Interrupt(t)
    BY <2>1 DEF SubmitTask, Trigger, CancelRead, CancelInCopr, CancelMark, CreateTargets, Submit,
       SubmitOutage, SubmitError, SaveSrpmId, Link, Babysit, Interrupt, rowVars
  <2> QED
    BY <2>1, TaskSteps
<1>3. count \in Nat
  OBVIOUS
<1> HIDE DEF TypeOK
<1> QED
  <2>1. CASE UNCHANGED <<count, trigger>>
    BY <2>1, <1>3
  <2>2. CASE \E t \in Triggers : Create(t)
    BY <2>2, <1>1
  <2> QED
    BY <2>1, <2>2, <1>2

\* An event comes by Trigger.
LEMMA TriggerComes ==
    ASSUME TypeOK, [Next]_vars, NEW t \in Triggers, pc[t] = "absent", pc'[t] # "absent"
    PROVE  Trigger(t)
<1>1. ASSUME NEW u \in Triggers, u # t, Trigger(u) \/ SubmitTask(u) \/ Interrupt(u)
      PROVE  pc'[t] = pc[t]
  BY <1>1 DEF Trigger, SubmitTask, CancelRead, CancelInCopr, CancelMark, Create, CreateTargets,
     Submit, SubmitOutage, SubmitError, SaveSrpmId, Link, Babysit, Interrupt, Goto, TypeOK
<1>2. ~SubmitTask(t) /\ ~Interrupt(t)
  BY DEF SubmitTask, CancelRead, CancelInCopr, CancelMark, Create, CreateTargets, Submit,
     SubmitOutage, SubmitError, SaveSrpmId, Link, Babysit, Interrupt
<1> QED
  BY <1>1, <1>2, TaskSteps

\* Who gives a target which status.
LEMMA TargetChange ==
    ASSUME TypeOK, [Next]_vars, NEW b \in Builds, NEW c \in Chroots, target'[b][c] # target[b][c]
    PROVE  \/ target'[b][c] \in {"waiting_for_srpm", "retry", "error"}
           \/ /\ target'[b][c] = "canceled"
              /\ \E t \in Triggers : CancelMark(t) /\ \E v \in victims[t] : v[1] = b
           \/ /\ target'[b][c] = "pending"
              /\ \E w \in Workers : StartPending(w) /\ b = BuildOf(w) /\ c = ChrootOf(w)
           \/ /\ target'[b][c] = "pending"
              /\ \E w \in Workers : SrpmPending(w) /\ b = BuildOf(w) /\ c \in worker[w].todo
           \/ /\ target'[b][c] = "failure"
              /\ \E w \in Workers : EndFailure(w) /\ b = BuildOf(w) /\ c = ChrootOf(w)
           \/ /\ target'[b][c] = "success"
              /\ \E w \in Workers : EndSuccess(w) /\ b = BuildOf(w) /\ c = ChrootOf(w)
<1>0. target \in [Builds -> [Chroots -> BuildStatus \cup {"none"}]]
  BY DEF TypeOK
<1>1. ASSUME NEW t \in Triggers, CancelMark(t)
      PROVE  target'[b][c] = "canceled" /\ \E v \in victims[t] : v[1] = b
  <2>1. PICK v \in victims[t] : target' = [target EXCEPT ![v[1]][v[2]] = "canceled"]
    BY <1>1 DEF CancelMark
  <2>2. v \in Builds \X Chroots \X BOOLEAN
    BY <2>1 DEF TypeOK
  <2> QED
    BY <1>0, <2>1, <2>2
<1>2. ASSUME NEW a, NEW s \in {"waiting_for_srpm", "retry", "error"},
             target' = [target EXCEPT ![a] = [d \in Chroots |-> s]]
      PROVE  target'[b][c] = s
  BY <1>0, <1>2
<1>3. ASSUME NEW t \in Triggers, CreateTargets(t) \/ SubmitOutage(t) \/ SubmitError(t)
      PROVE  target'[b][c] \in {"waiting_for_srpm", "retry", "error"}
  <2>1. CASE CreateTargets(t)
    <3>1. PICK d \in Chroots : target' = [target EXCEPT ![current[t]][d] = "waiting_for_srpm"]
      BY <2>1 DEF CreateTargets
    <3> QED
      BY <1>0, <3>1
  <2>2. CASE SubmitOutage(t) \/ SubmitError(t)
    BY <1>2, <2>2 DEF SubmitOutage, SubmitError
  <2> QED
    BY <1>3, <2>1, <2>2
<1>4. ASSUME NEW a, NEW d, NEW s, Set(a, d, s) PROVE a = b /\ d = c /\ target'[b][c] = s
  BY <1>0, <1>4 DEF Set
<1>5. ASSUME NEW w \in Workers, StartPending(w)
      PROVE  target'[b][c] = "pending" /\ b = BuildOf(w) /\ c = ChrootOf(w)
  <2>1. Set(BuildOf(w), ChrootOf(w), "pending")
    BY <1>5 DEF StartPending
  <2> QED
    BY <1>4, <2>1
<1>6. ASSUME NEW w \in Workers, SrpmPending(w)
      PROVE  target'[b][c] = "pending" /\ b = BuildOf(w) /\ c \in worker[w].todo
  <2>1. PICK d \in worker[w].todo : Set(BuildOf(w), d, "pending")
    BY <1>6 DEF SrpmPending
  <2> QED
    BY <1>4, <2>1
<1>7. ASSUME NEW w \in Workers, EndFailure(w)
      PROVE  target'[b][c] = "failure" /\ b = BuildOf(w) /\ c = ChrootOf(w)
  <2>1. Set(BuildOf(w), ChrootOf(w), "failure")
    BY <1>7 DEF EndFailure
  <2> QED
    BY <1>4, <2>1
<1>8. ASSUME NEW w \in Workers, EndSuccess(w)
      PROVE  target'[b][c] = "success" /\ b = BuildOf(w) /\ c = ChrootOf(w)
  <2>1. Set(BuildOf(w), ChrootOf(w), "success")
    BY <1>8 DEF EndSuccess
  <2> QED
    BY <1>4, <2>1
<1>9. ASSUME NEW a \in Builds, BabysitTry(a) \/ CheckPending(a) PROVE target'[b][c] = "error"
  <2>1. PICK chroots \in SUBSET Chroots : UpdateBuild(a, chroots)
    BY <1>9 DEF BabysitTry, CheckPending, LinkedChroots
  <2>2. PICK late : SetErrors(a, late)
    BY <2>1, UpdateSteps
  <2> QED
    BY <1>0, <2>2 DEF SetErrors
<1>10. CASE UNCHANGED target
  BY <1>10
<1>11. CASE \E t \in Triggers : CancelMark(t) \/ CreateTargets(t) \/ SubmitOutage(t) \/ SubmitError(t)
  BY <1>1, <1>3, <1>11
<1>12. CASE \E w \in Workers : StartPending(w) \/ SrpmPending(w) \/ EndFailure(w) \/ EndSuccess(w)
  BY <1>5, <1>6, <1>7, <1>8, <1>12
<1>13. CASE \E a \in Builds : BabysitTry(a) \/ CheckPending(a)
  BY <1>9, <1>13
<1> QED
  BY <1>10, <1>11, <1>12, <1>13, TargetSteps

-----------------------------------------------------------------------------
(* The invariant is inductive                                              *)

\* A busy worker has a message of the kind that its step is for.
LEMMA WorkerBusyStep == ASSUME TypeOK, WorkerBusy, QueueTrue, [Next]_vars PROVE WorkerBusy'
<1>0. /\ worker \in [Workers -> [step : HandlerStep, msg : Message \cup {NULL}, todo : SUBSET Chroots]]
      /\ queue \subseteq Message
  BY DEF TypeOK
<1> USE <1>0 DEF WorkerBusy, At, Work, Finish, Idle
<1>1. CASE UNCHANGED worker
  BY <1>1
<1>2. ASSUME NEW w \in Workers, Take(w) PROVE WorkerBusy'
  <2>1. PICK m \in queue :
          \/ /\ m.kind = "start"
             /\ worker' = [worker EXCEPT ![w] = [step |-> "start", msg |-> m, todo |-> {}]]
          \/ /\ m.part = Srpm
             /\ \/ worker' = [worker EXCEPT ![w] = [step |-> "query", msg |-> m, todo |-> {}]]
                \/ worker' = [worker EXCEPT ![w] = [step |-> "failure", msg |-> m, todo |-> {}]]
          \/ /\ m.part \in Chroots
             /\ \/ worker' = [worker EXCEPT ![w] = [step |-> "success", msg |-> m, todo |-> {}]]
                \/ worker' = [worker EXCEPT ![w] = [step |-> "failure", msg |-> m, todo |-> {}]]
    BY <1>2 DEF Take, Message
  <2>2. m \in Message /\ (m.kind = "start" => m.part \in Chroots)
    BY <2>1 DEF QueueTrue
  <2> QED
    BY <2>1, <2>2
<1>3. ASSUME NEW w \in Workers, StartPending(w) PROVE WorkerBusy'
  BY <1>3 DEF StartPending
<1>4. ASSUME NEW w \in Workers, EndSuccess(w) PROVE WorkerBusy'
  BY <1>4 DEF EndSuccess
<1>5. ASSUME NEW w \in Workers, SrpmQuery(w) PROVE WorkerBusy'
  BY <1>5 DEF SrpmQuery
<1>6. ASSUME NEW w \in Workers, SrpmPending(w) PROVE WorkerBusy'
  BY <1>6 DEF SrpmPending
<1>7. ASSUME NEW w \in Workers, worker' = [worker EXCEPT ![w] = Idle] PROVE WorkerBusy'
  BY <1>7
<1> QED
  BY <1>1, <1>2, <1>3, <1>4, <1>5, <1>6, <1>7, WorkerSteps
     DEF StartTime, SrpmSuccess, EndFailure, EndTests, Fail

\* A task works on its own build, and the build it is about to submit is new.
LEMMA CurrentStep == ASSUME TypeOK, CurrentReady, JobsInStep, [Next]_vars PROVE CurrentReady'
<1>0. /\ pc \in [Triggers -> SubmitStep] /\ current \in [Triggers -> Builds \cup {NULL}]
      /\ count \in 0..MaxBuilds /\ trigger \in [Builds -> Triggers \cup {NULL}]
      /\ job \in [Builds -> [Parts -> JobState]]
  BY DEF TypeOK
<1> USE <1>0 DEF CurrentReady, Goto
<1>1. ASSUME UNCHANGED <<pc, current, count, trigger>>, UNCHANGED job PROVE CurrentReady'
  BY <1>1
<1>2. ASSUME NEW t \in Triggers, CancelInCopr(t) PROVE CurrentReady'
  <2>1. PICK b, left : job' = CanceledJobs({b}) /\ pc' = [pc EXCEPT ![t] = AfterCancel(left)]
    BY <1>2 DEF CancelInCopr
  <2>2. AfterCancel(left) \in {"create", "mark", "cancel"}
    BY DEF AfterCancel
  <2>3. UNCHANGED <<current, count, trigger>>
    BY <1>2 DEF CancelInCopr, rowVars
  <2>4. \A a \in Builds, p \in Parts : job[a][p] = "none" => job'[a][p] = "none"
    BY <2>1 DEF CanceledJobs
  <2>5. pc[t] = "cancel"
    BY <1>2 DEF CancelInCopr
  <2>6. /\ pc'[t] \in {"create", "mark", "cancel"}
        /\ \A u \in Triggers \ {t} : pc'[u] = pc[u]
    BY <2>1, <2>2
  <2> QED
    BY <2>3, <2>4, <2>5, <2>6
<1>3. ASSUME NEW t \in Triggers, Submit(t) PROVE CurrentReady'
  <2>1. /\ pc[t] = "submit" /\ pc' = [pc EXCEPT ![t] = "save"]
        /\ job' = [job EXCEPT ![current[t]] = [p \in Parts |-> "waiting"]]
        /\ UNCHANGED <<current, count, trigger>>
    BY <1>3 DEF Submit, rowVars
  <2>2. ASSUME NEW u \in Triggers, u # t, pc[u] \in {"targets", "submit"} PROVE current[u] # current[t]
    BY <2>1, <2>2
  <2> QED
    BY <2>1, <2>2
<1>4. ASSUME NEW b \in Builds, Copr(b) PROVE CurrentReady'
  <2>1. ASSUME NEW p \in Parts, CoprRun(b, p) PROVE CurrentReady'
    BY <2>1 DEF CoprRun, submitVars, rowVars
  <2>2. ASSUME NEW p \in Parts, NEW r, CoprEnd(b, p, r) PROVE CurrentReady'
    <3>1. \A t \in Triggers : pc[t] \in {"targets", "submit"} => current[t] # b
      BY <2>2 DEF CoprEnd
    <3> QED
      BY <2>2, <3>1 DEF CoprEnd, submitVars, rowVars
  <2> QED
    BY <1>4, <2>1, <2>2 DEF Copr
<1>5. ASSUME NEW t \in Triggers, Create(t) PROVE CurrentReady'
  <2>1. count + 1 \in Builds /\ count + 1 > count
    BY <1>5 DEF Create
  <2>3. \A p \in Parts : job[count + 1][p] = "none"
    BY <2>1 DEF JobsInStep
  <2>2. \A u \in Triggers : pc[u] \in {"targets", "submit", "save", "link", "babysit"} =>
           current[u] # count + 1
    OBVIOUS
  <2> QED
    BY <1>5, <2>1, <2>2, <2>3 DEF Create, coprVars
<1>7. ASSUME NEW t \in Triggers, SaveSrpmId(t) \/ Link(t) \/ Babysit(t) PROVE CurrentReady'
  <2>1. /\ pc[t] \in {"save", "link", "babysit"}
        /\ UNCHANGED <<current, count, trigger, job>>
    BY <1>7 DEF SaveSrpmId, Link, Babysit, rowVars, coprVars
  <2>2. PICK s \in {"link", "babysit", "done"} : pc' = [pc EXCEPT ![t] = s]
    BY <1>7 DEF SaveSrpmId, Link, Babysit
  <2> QED
    BY <2>1, <2>2
<1>8. ASSUME NEW t \in Triggers, Trigger(t) PROVE CurrentReady'
  <2>1. pc' = [pc EXCEPT ![t] = "queued"] /\ UNCHANGED <<current, count, trigger, job>>
    BY <1>8 DEF Trigger, rowVars, coprVars
  <2> QED
    BY ZenonT(30), <2>1
<1>9. ASSUME NEW t \in Triggers, CancelRead(t) PROVE CurrentReady'
  BY <1>9 DEF CancelRead, AfterCancel, rowVars, coprVars
<1>10. ASSUME NEW t \in Triggers, CancelMark(t) PROVE CurrentReady'
  BY SMTT(30), <1>10 DEF CancelMark, coprVars
<1>11. ASSUME NEW t \in Triggers, CreateTargets(t) PROVE CurrentReady'
  BY <1>11 DEF CreateTargets, coprVars
<1>12. ASSUME NEW t \in Triggers, SubmitOutage(t) PROVE CurrentReady'
  BY SMTT(30), <1>12 DEF SubmitOutage, coprVars
<1>13. ASSUME NEW t \in Triggers, SubmitError(t) PROVE CurrentReady'
  BY SMTT(30), <1>13 DEF SubmitError, coprVars
<1>14. ASSUME NEW t \in Triggers, Interrupt(t) PROVE CurrentReady'
  BY SMTT(30), <1>14 DEF Interrupt, rowVars, coprVars
<1> QED
  BY <1>1, <1>2, <1>3, <1>4, <1>5, <1>7, <1>8, <1>9, <1>10, <1>11, <1>12, <1>13, <1>14,
     TaskSteps, JobSteps DEF SubmitTask

\* Copr's jobs begin when a task submits them, and chroots wait for the SRPM.
LEMMA JobsStep == ASSUME TypeOK, CurrentReady, JobsInStep, [Next]_vars PROVE JobsInStep'
<1>0. count \in Nat /\ count' \in Nat /\ count <= count'
  <2>1. count \in Nat
    BY DEF TypeOK
  <2> QED
    BY <2>1, TriggerStays
<1> USE DEF JobsInStep
<1>1. ASSUME UNCHANGED job PROVE JobsInStep'
  BY <1>0, <1>1
<1> USE DEF TypeOK
<1>2. ASSUME NEW t \in Triggers, CancelInCopr(t) PROVE JobsInStep'
  <2>1. PICK ids : job' = CanceledJobs(ids)
    BY <1>2 DEF CancelInCopr
  <2>2. UNCHANGED count
    BY <1>2 DEF CancelInCopr, rowVars
  <2> QED
    BY <2>1, <2>2 DEF CanceledJobs
<1>3. ASSUME NEW t \in Triggers, Submit(t) PROVE JobsInStep'
  <2>1. current[t] \in Builds /\ current[t] <= count
    BY <1>3 DEF Submit, CurrentReady
  <2>2. job' = [job EXCEPT ![current[t]] = [p \in Parts |-> "waiting"]] /\ UNCHANGED count
    BY <1>3 DEF Submit, rowVars
  <2> QED
    BY <1>0, <2>1, <2>2
<1>4. ASSUME NEW b \in Builds, NEW p \in Parts, CoprRun(b, p) PROVE JobsInStep'
  <2>1. CASE p = Srpm
    BY <1>4, <2>1 DEF CoprRun, rowVars
  <2>2. CASE p \in Chroots
    BY <1>4, <2>2 DEF CoprRun, rowVars
  <2> QED
    BY <2>1, <2>2
<1>5. ASSUME NEW b \in Builds, NEW p \in Parts, NEW r, CoprEnd(b, p, r) PROVE JobsInStep'
  BY ZenonT(30), <1>5 DEF CoprEnd, rowVars
<1>6. ASSUME NEW b \in Builds, Copr(b) PROVE JobsInStep'
  BY <1>4, <1>5, <1>6 DEF Copr
<1> QED
  BY <1>1, <1>2, <1>3, <1>6, JobSteps

\* What Copr sends is true.
LEMMA SentTrue ==
    ASSUME NEW sure, NEW maybe, Send(sure, maybe),
           \A m \in sure \cup maybe :
              /\ m.kind = "start" => m.part \in Chroots
              /\ m.kind = "end" => job'[m.build][m.part] \in Ended
    PROVE  \A m \in queue' :
              \/ m \in queue
              \/ /\ m.kind = "start" => m.part \in Chroots
                 /\ m.kind = "end" => job'[m.build][m.part] \in Ended
<1>1. queue' \subseteq queue \cup (sure \cup maybe)
  BY SendType
<1> QED
  BY <1>1

\* Every queued message stays true while it waits.
LEMMA QueueStep ==
    ASSUME TypeOK, CurrentReady, JobsInStep, WorkerBusy, WorkerTrue, QueueTrue, [Next]_vars
    PROVE  QueueTrue'
<1> DEFINE Sent(m) == \/ m \in queue
                      \/ /\ m.kind = "start" => m.part \in Chroots
                         /\ m.kind = "end" => job'[m.build][m.part] \in Ended
<1>1. SUFFICES \A m \in queue' : Sent(m)
  <2>1. ASSUME NEW m \in queue, m.kind = "end" PROVE job'[m.build][m.part] \in Ended
    <3>1. m.build \in Builds /\ m.part \in Parts
      BY DEF TypeOK, Message
    <3>2. job[m.build][m.part] \in Ended
      BY <2>1 DEF QueueTrue
    <3> QED
      BY <3>1, <3>2, EndedStays
  <2> QED
    BY <2>1 DEF QueueTrue
<1>2. ASSUME NEW t \in Triggers, CancelInCopr(t) PROVE \A m \in queue' : Sent(m)
  <2>1. PICK ids : job' = CanceledJobs(ids) /\ Send({}, EndsOf(CanceledJobs(ids)))
    BY <1>2 DEF CancelInCopr
  <2>2. \A m \in EndsOf(CanceledJobs(ids)) : m.kind = "end" /\ job'[m.build][m.part] \in Ended
    BY <2>1 DEF EndsOf
  <2> QED
    BY <2>1, <2>2, SentTrue
<1>3. ASSUME NEW b \in Builds, NEW p \in Parts, CoprRun(b, p) PROVE \A m \in queue' : Sent(m)
  <2>1. \A m \in Messages("start", b, {p} \ {Srpm}) : m.kind = "start" /\ m.part \in Chroots
    BY DEF Messages
  <2>2. Send(Messages("start", b, {p} \ {Srpm}), {})
    BY <1>3 DEF CoprRun
  <2> QED
    BY <2>1, <2>2, SentTrue
<1>4. ASSUME NEW b \in Builds, NEW p \in Parts, NEW r, CoprEnd(b, p, r)
      PROVE  \A m \in queue' : Sent(m)
  <2>1. PICK others \in SUBSET Chroots :
          /\ job' = [job EXCEPT ![b] = [q \in Parts |->
                       IF q = p THEN r ELSE IF q \in others THEN "failed" ELSE @[q]]]
          /\ Send(Messages("end", b, {p}), Messages("end", b, others))
    BY <1>4 DEF CoprEnd
  <2>2. \A q \in others \cup {p} : job'[b][q] \in Ended
    BY <1>4, <2>1 DEF CoprEnd, TypeOK, Ended
  <2>3. \A m \in Messages("end", b, {p}) \cup Messages("end", b, others) :
           m.kind = "end" /\ job'[m.build][m.part] \in Ended
    BY <2>2 DEF Messages
  <2> QED
    BY <2>1, <2>3, SentTrue
<1>5. ASSUME NEW b \in Builds, Copr(b) PROVE \A m \in queue' : Sent(m)
  BY <1>3, <1>4, <1>5 DEF Copr
<1>6. ASSUME NEW w \in Workers, Fail(w) PROVE \A m \in queue' : Sent(m)
  <2>1. worker[w].step # "idle" /\ queue' \subseteq queue \cup {worker[w].msg} /\ UNCHANGED job
    BY <1>6 DEF Fail, At, coprVars
  <2> QED
    BY <2>1 DEF WorkerTrue, WorkerBusy
<1>7. ASSUME NEW b \in Builds, NEW chroots \in SUBSET Chroots, UpdateBuild(b, chroots), UNCHANGED job
      PROVE  \A m \in queue' : Sent(m)
  <2>1. \A m \in SrpmMessages(b) : Sent(m)
    BY <1>7 DEF SrpmMessages, Messages, Ended
  <2>2. ASSUME NEW c \in Chroots PROVE \A m \in TargetMessages(b, c) : Sent(m)
    BY <1>7 DEF TargetMessages, Messages
  <2>3. \/ UNCHANGED queue
        \/ \E S \in SUBSET Chroots :
              queue' = queue \cup SrpmMessages(b) \cup UNION {TargetMessages(b, c) : c \in S}
    BY <1>7, UpdateSteps
  <2> HIDE DEF Sent
  <2>4. \A m \in queue : Sent(m)
    BY DEF Sent
  <2> QED
    BY <2>1, <2>2, <2>3, <2>4
<1>8. ASSUME NEW b \in Builds, BabysitTry(b) \/ CheckPending(b) PROVE \A m \in queue' : Sent(m)
  <2>1. \E chroots \in SUBSET Chroots : UpdateBuild(b, chroots)
    BY <1>8 DEF BabysitTry, CheckPending, LinkedChroots
  <2>2. UNCHANGED job
    BY <1>8 DEF BabysitTry, CheckPending, coprVars
  <2> HIDE DEF Sent
  <2> QED
    BY <1>7, <2>1, <2>2
<1> QED
  BY <1>2, <1>5, <1>6, <1>8, QueueSteps

\* What a handler has concluded from its message stays true.
LEMMA WorkerTrueStep ==
    ASSUME TypeOK, CurrentReady, JobsInStep, WorkerBusy, WorkerTrue, QueueTrue, [Next]_vars
    PROVE  WorkerTrue'
<1>0. ASSUME NEW w \in Workers, worker[w].step # "idle", job[BuildOf(w)][ChrootOf(w)] \in Ended
      PROVE  job'[BuildOf(w)][ChrootOf(w)] = job[BuildOf(w)][ChrootOf(w)]
  <2>1. BuildOf(w) \in Builds /\ ChrootOf(w) \in Parts
    BY <1>0 DEF WorkerBusy, Message, BuildOf, ChrootOf
  <2> QED
    BY <1>0, <2>1, EndedStays
<1>00. worker \in [Workers -> [step : HandlerStep, msg : Message \cup {NULL}, todo : SUBSET Chroots]]
  BY DEF TypeOK
<1> USE <1>00 DEF WorkerTrue, At, Work, Finish, Idle
<1>1. CASE UNCHANGED worker
  BY <1>0, <1>1 DEF BuildOf, ChrootOf, Ended
<1>2. ASSUME NEW w \in Workers, Take(w) PROVE WorkerTrue'
  <2>1. PICK m \in queue :
          \/ /\ m.kind = "start"
             /\ worker' = [worker EXCEPT ![w] = [step |-> "start", msg |-> m, todo |-> {}]]
          \/ /\ m.kind = "end" /\ m.part = Srpm
             /\ \/ worker' = [worker EXCEPT ![w] = [step |-> "query", msg |-> m, todo |-> {}]]
                \/ worker' = [worker EXCEPT ![w] = [step |-> "failure", msg |-> m, todo |-> {}]]
          \/ /\ m.kind = "end"
             /\ \/ /\ job[m.build][m.part] = "succeeded"
                   /\ worker' = [worker EXCEPT ![w] = [step |-> "success", msg |-> m, todo |-> {}]]
                \/ /\ job[m.build][m.part] # "succeeded"
                   /\ worker' = [worker EXCEPT ![w] = [step |-> "failure", msg |-> m, todo |-> {}]]
    BY <1>2 DEF Take
  <2>2. /\ m.kind = "start" => m.part \in Chroots
        /\ m.kind = "end" => job[m.build][m.part] \in Ended
    BY <2>1 DEF QueueTrue
  <2>3. UNCHANGED job
    BY <1>2 DEF Take, coprVars
  <2> QED
    BY <2>1, <2>2, <2>3 DEF Ended
<1>3. ASSUME NEW w \in Workers, StartPending(w) PROVE WorkerTrue'
  BY <1>3 DEF StartPending, coprVars
<1>4. ASSUME NEW w \in Workers, EndSuccess(w) PROVE WorkerTrue'
  BY <1>4 DEF EndSuccess, coprVars
<1>5. ASSUME NEW w \in Workers, SrpmQuery(w) PROVE WorkerTrue'
  BY <1>5 DEF SrpmQuery, coprVars
<1>6. ASSUME NEW w \in Workers, SrpmPending(w) PROVE WorkerTrue'
  BY <1>6 DEF SrpmPending, coprVars
<1>7. ASSUME NEW w \in Workers,
             StartTime(w) \/ SrpmSuccess(w) \/ EndFailure(w) \/ EndTests(w) \/ Fail(w)
      PROVE  WorkerTrue'
  <2>1. worker' = [worker EXCEPT ![w] = Idle] /\ UNCHANGED job
    BY <1>7 DEF StartTime, SrpmSuccess, EndFailure, EndTests, Fail, coprVars
  <2> QED
    BY <2>1
<1> QED
  BY <1>1, <1>2, <1>3, <1>4, <1>5, <1>6, <1>7, WorkerSteps

\* A handler's build and chroots keep their build id.
LEMMA WorkerKnowsStep ==
    ASSUME TypeOK, CurrentReady, WorkerBusy, WorkerKnows, QueueTrue, [Next]_vars
    PROVE  WorkerKnows'
<1>1. ASSUME NEW w \in Workers, At(w, "start") \/ At(w, "pending"), worker'[w] = worker[w]
      PROVE  /\ At(w, "start") => linked'[BuildOf(w)][ChrootOf(w)]
             /\ At(w, "pending") => worker[w].todo \subseteq {c \in Chroots : linked'[BuildOf(w)][c]}
  <2>1. BuildOf(w) \in Builds /\ (At(w, "start") => ChrootOf(w) \in Chroots)
    BY <1>1 DEF WorkerBusy, Message, BuildOf, ChrootOf, At
  <2> QED
    BY <1>1, <2>1, LinkedStays DEF WorkerKnows, LinkedChroots, BuildOf, ChrootOf, At
<1>00. worker \in [Workers -> [step : HandlerStep, msg : Message \cup {NULL}, todo : SUBSET Chroots]]
  BY DEF TypeOK
<1> USE <1>00 DEF WorkerKnows, LinkedChroots, BuildOf, ChrootOf, At, Work, Finish, Idle
<1>2. CASE UNCHANGED worker
  BY <1>1, <1>2
<1>3. ASSUME NEW w \in Workers, Take(w) PROVE WorkerKnows'
  <2>1. PICK m \in queue, s \in HandlerStep :
          /\ worker' = [worker EXCEPT ![w] = [step |-> s, msg |-> m, todo |-> {}]]
          /\ s = "start" => m.kind = "start" /\ Known(m)
    BY <1>3 DEF Take, HandlerStep
  <2>2. UNCHANGED linked
    BY <1>3 DEF Take, rowVars
  <2> QED
    BY <2>1, <2>2 DEF Known, QueueTrue
<1>4. ASSUME NEW w \in Workers, SrpmQuery(w) PROVE WorkerKnows'
  BY <1>4 DEF SrpmQuery, rowVars
<1>5. ASSUME NEW w \in Workers, SrpmPending(w) PROVE WorkerKnows'
  BY <1>5 DEF SrpmPending
<1>6. ASSUME NEW w \in Workers, StartPending(w) PROVE WorkerKnows'
  BY <1>6 DEF StartPending
<1>7. ASSUME NEW w \in Workers, EndSuccess(w) PROVE WorkerKnows'
  BY <1>7 DEF EndSuccess
<1>8. ASSUME NEW w \in Workers,
             StartTime(w) \/ SrpmSuccess(w) \/ EndFailure(w) \/ EndTests(w) \/ Fail(w)
      PROVE  WorkerKnows'
  <2>1. worker' = [worker EXCEPT ![w] = Idle] /\ UNCHANGED linked
    BY <1>8 DEF StartTime, SrpmSuccess, EndFailure, EndTests, Fail, rowVars
  <2> QED
    BY <2>1
<1> QED
  BY <1>2, <1>3, <1>4, <1>5, <1>6, <1>7, <1>8, WorkerSteps

\* Events come in order.
LEMMA TriggersStep == ASSUME TypeOK, TriggersInOrder, [Next]_vars PROVE TriggersInOrder'
<1>1. ASSUME NEW s \in Triggers, NEW t \in Triggers, s < t, pc'[t] # "absent" PROVE pc'[s] # "absent"
  <2>1. CASE pc[t] # "absent"
    BY <1>1, <2>1, CutoffStays DEF TriggersInOrder
  <2>2. CASE pc[t] = "absent"
    <3>1. Trigger(t)
      BY <1>1, <2>2, TriggerComes
    <3>2. t > 1 /\ pc[t - 1] # "absent" /\ t - 1 \in Triggers
      BY <1>1, <3>1 DEF Trigger
    <3>3. pc[s] # "absent"
      BY <1>1, <3>2 DEF TriggersInOrder
    <3> QED
      BY <3>3, CutoffStays
  <2> QED
    BY <2>1, <2>2
<1>2. ASSUME NEW b \in Builds, b <= count' PROVE trigger'[b] \in Triggers /\ pc'[trigger'[b]] # "absent"
  <2>1. CASE b <= count
    BY <2>1, CutoffStays, TriggerStays DEF TriggersInOrder
  <2>2. CASE ~(b <= count)
    <3>1. PICK t \in Triggers : Create(t)
      BY <1>2, <2>2, TriggerStays
    <3>2. b = count + 1
      BY <1>2, <2>2, <3>1 DEF Create, TypeOK
    <3> QED
      BY <3>1, <3>2 DEF Create, Goto, TypeOK
  <2> QED
    BY <2>1, <2>2
<1> QED
  BY <1>1, <1>2 DEF TriggersInOrder

\* The builds up to a cutoff are older than the event.
LEMMA CutoffStep == ASSUME TypeOK, TriggersInOrder, CutoffOld, [Next]_vars PROVE CutoffOld'
<1> SUFFICES ASSUME NEW t \in Triggers, pc'[t] # "absent"
             PROVE  /\ cutoff'[t] <= count'
                    /\ \A b \in Builds : b <= cutoff'[t] => trigger'[b] < t
  BY DEF CutoffOld
<1>0. count \in Nat /\ cutoff[t] \in Nat
  <2>1. count \in 0..MaxBuilds /\ cutoff \in [Triggers -> 0..MaxBuilds]
    BY DEF TypeOK
  <2> QED
    BY <2>1
<1>1. CASE pc[t] # "absent"
  <2>1. cutoff'[t] = cutoff[t] /\ cutoff[t] <= count
    BY <1>1, CutoffStays DEF CutoffOld
  <2> QED
    BY <1>0, <1>1, <2>1, TriggerStays DEF CutoffOld
<1>2. CASE pc[t] = "absent"
  <2>1. Trigger(t)
    BY <1>2, TriggerComes
  <2>2. cutoff'[t] = count /\ UNCHANGED <<count, trigger>>
    BY <2>1 DEF Trigger, rowVars, TypeOK
  <2>3. ASSUME NEW b \in Builds, b <= count PROVE trigger[b] < t
    <3>1. trigger[b] \in Triggers /\ pc[trigger[b]] # "absent"
      BY <2>3 DEF TriggersInOrder
    <3>2. ~(t < trigger[b]) /\ t # trigger[b]
      BY <1>2, <3>1 DEF TriggersInOrder
    <3> QED
      BY <3>1, <3>2
  <2> QED
    BY <1>0, <2>2, <2>3
<1> QED
  BY <1>1, <1>2

\* What a task is about to cancel is not newer than its cutoff.
LEMMA VictimsStep == ASSUME TypeOK, VictimsOld, [Next]_vars PROVE VictimsOld'
<1> USE DEF VictimsOld
<1>0. /\ victims \in [Triggers -> SUBSET (Builds \X Chroots \X BOOLEAN)]
      /\ cutoff \in [Triggers -> 0..MaxBuilds]
  BY DEF TypeOK
<1>1. ASSUME NEW t \in Triggers, Trigger(t) PROVE VictimsOld'
  BY <1>0, <1>1 DEF Trigger, Goto, TypeOK
<1>2. ASSUME NEW t \in Triggers, CancelRead(t) PROVE VictimsOld'
  <2>1. \A v \in RunningBefore(cutoff[t]) : v[1] <= cutoff[t]
    BY DEF RunningBefore
  <2>2. pc' \in [Triggers -> SubmitStep] /\ pc'[t] # "absent" /\ \A u \in Triggers \ {t} : pc'[u] = pc[u]
    BY <1>2 DEF CancelRead, AfterCancel, Goto, TypeOK, SubmitStep
  <2> QED
    BY <1>0, <1>2, <2>1, <2>2 DEF CancelRead
<1>3. ASSUME NEW t \in Triggers, CancelMark(t) PROVE VictimsOld'
  BY SMTT(30), <1>0, <1>3 DEF CancelMark, Goto, TypeOK
<1>4. ASSUME NEW t \in Triggers, Interrupt(t) PROVE VictimsOld'
  BY <1>0, <1>4 DEF Interrupt, Goto, TypeOK
<1>5. ASSUME NEW t \in Triggers,
             \/ Create(t) \/ CreateTargets(t) \/ Submit(t) \/ SubmitOutage(t)
             \/ SubmitError(t) \/ SaveSrpmId(t) \/ Link(t) \/ Babysit(t)
      PROVE  VictimsOld'
  <2>1. UNCHANGED <<victims, cutoff>> /\ pc[t] # "absent"
    BY <1>5 DEF Create, CreateTargets, Submit, SubmitOutage, SubmitError, SaveSrpmId,
       Link, Babysit
  <2>2. \A u \in Triggers : pc[u] # "absent" => pc'[u] # "absent"
    BY CutoffStays
  <2>3. \A u \in Triggers : pc[u] = "absent" => victims[u] = {}
    OBVIOUS
  <2>4. ASSUME NEW u \in Triggers, pc'[u] = "absent" PROVE victims'[u] = {}
    BY <2>1, <2>2, <2>3, <2>4
  <2> QED
    BY <2>1, <2>4
<1>6. CASE UNCHANGED <<pc, cutoff, victims, current, count, trigger, linked>>
  BY <1>6
<1>7. ASSUME NEW t \in Triggers, CancelInCopr(t) PROVE VictimsOld'
  <2>1. PICK b : victims' = [victims EXCEPT ![t] = {<<v[1], v[2], v[3] /\ v[1] # b>> : v \in victims[t]}]
    BY <1>7 DEF CancelInCopr
  <2>2. UNCHANGED cutoff /\ pc'[t] # "absent" /\ \A u \in Triggers \ {t} : pc'[u] = pc[u]
    BY <1>7 DEF CancelInCopr, AfterCancel, Goto, TypeOK
  <2> QED
    BY <1>0, <2>1, <2>2
<1> QED
  BY <1>1, <1>2, <1>3, <1>4, <1>5, <1>6, <1>7, TaskSteps DEF SubmitTask

\* What is cancelled, in the database or in Copr, is covered by a cutoff.
LEMMA CanceledStep == ASSUME TypeOK, VictimsOld, CanceledOld, [Next]_vars PROVE CanceledOld'
<1> DEFINE Covered(b) == \E t \in Triggers : pc[t] # "absent" /\ b <= cutoff[t]
<1>1. ASSUME NEW b \in Builds, Covered(b) PROVE Covered(b)'
  BY <1>1, CutoffStays
<1>2. ASSUME NEW b \in Builds, NEW c \in Chroots, target'[b][c] = "canceled", target[b][c] # "canceled"
      PROVE  Covered(b)
  <2>1. PICK t \in Triggers : CancelMark(t) /\ \E v \in victims[t] : v[1] = b
    BY <1>2, TargetChange
  <2> QED
    BY <2>1 DEF CancelMark, VictimsOld
<1>3. ASSUME NEW b \in Builds, NEW c \in Chroots, job'[b][c] = "canceled", job[b][c] # "canceled"
      PROVE  Covered(b)
  <2>1. ASSUME NEW t \in Triggers, CancelInCopr(t) PROVE Covered(b)
    <3>1. b \in WithId(victims[t])
      BY <1>3, <2>1 DEF CancelInCopr, CanceledJobs, TypeOK
    <3> QED
      BY <2>1, <3>1 DEF CancelInCopr, WithId, VictimsOld
  <2>2. ASSUME NEW t \in Triggers, Submit(t) PROVE FALSE
    BY <1>3, <2>2 DEF Submit, TypeOK
  <2>3. ASSUME NEW a \in Builds, Copr(a) PROVE FALSE
    <3>1. job \in [Builds -> [Parts -> JobState]]
      BY DEF TypeOK
    <3>2. ASSUME NEW p \in Parts, CoprRun(a, p) PROVE FALSE
      BY <1>3, <3>1, <3>2 DEF CoprRun
    <3>3. ASSUME NEW p \in Parts, NEW q, CoprEnd(a, p, q) PROVE FALSE
      BY <1>3, <3>1, <3>3 DEF CoprEnd
    <3> QED
      BY <2>3, <3>2, <3>3 DEF Copr
  <2> QED
    BY <1>3, <2>1, <2>2, <2>3, JobSteps
<1>4. ASSUME NEW b \in Builds, NEW c \in Chroots, target'[b][c] = "canceled" \/ job'[b][c] = "canceled"
      PROVE  Covered(b)
  BY <1>2, <1>3, <1>4 DEF CanceledOld
<1> HIDE DEF Covered
<1>5. ASSUME NEW b \in Builds, \E c \in Chroots : target'[b][c] = "canceled" \/ job'[b][c] = "canceled"
      PROVE  Covered(b)'
  BY <1>1, <1>4, <1>5
<1> QED
  BY <1>5 DEF CanceledOld, Covered

\* A pending target has its build id.
LEMMA PendingStep ==
    ASSUME TypeOK, CurrentReady, WorkerBusy, WorkerKnows, PendingHasId, [Next]_vars
    PROVE  PendingHasId'
<1> SUFFICES ASSUME NEW b \in Builds, NEW c \in Chroots, target'[b][c] = "pending"
             PROVE  linked[b][c]
  BY LinkedStays DEF PendingHasId
<1>1. CASE target[b][c] = "pending"
  BY <1>1 DEF PendingHasId
<1>2. CASE target[b][c] # "pending"
  <2>1. \E w \in Workers :
          \/ StartPending(w) /\ b = BuildOf(w) /\ c = ChrootOf(w)
          \/ SrpmPending(w) /\ b = BuildOf(w) /\ c \in worker[w].todo
    BY <1>2, TargetChange
  <2> QED
    BY <2>1 DEF StartPending, SrpmPending, WorkerKnows, LinkedChroots, At, BuildOf, ChrootOf
<1> QED
  BY <1>1, <1>2

\* Successes, failures and tests are founded on what Copr has built.
LEMMA ReportsStep ==
    ASSUME TypeOK, CurrentReady, JobsInStep, WorkerBusy, WorkerTrue, ReportsTrue, [Next]_vars
    PROVE  ReportsTrue'
<1> SUFFICES ASSUME NEW b \in Builds, NEW c \in Chroots
             PROVE  /\ target'[b][c] = "success" \/ tests'[b][c] > 0 => job'[b][c] = "succeeded"
                    /\ target'[b][c] = "failure" => job'[b][c] \in {"failed", "canceled"}
  BY DEF ReportsTrue
<1>1. job[b][c] = "succeeded" => job'[b][c] = "succeeded"
  BY EndedStays DEF Ended
<1>2. job[b][c] \in {"failed", "canceled"} => job'[b][c] \in {"failed", "canceled"}
  BY EndedStays DEF Ended
<1>3. target'[b][c] = "success" => job[b][c] = "succeeded"
  <2>1. CASE target[b][c] = "success"
    BY <2>1 DEF ReportsTrue
  <2>2. CASE target'[b][c] = "success" /\ target[b][c] # "success"
    <3>1. PICK w \in Workers : EndSuccess(w) /\ b = BuildOf(w) /\ c = ChrootOf(w)
      BY <2>2, TargetChange
    <3> QED
      BY <3>1 DEF EndSuccess, At, BuildOf, ChrootOf, WorkerTrue
  <2> QED
    BY <2>1, <2>2
<1>4. target'[b][c] = "failure" => job[b][c] \in {"failed", "canceled"}
  <2>1. CASE target[b][c] = "failure"
    BY <2>1 DEF ReportsTrue
  <2>2. CASE target'[b][c] = "failure" /\ target[b][c] # "failure"
    <3>1. PICK w \in Workers : EndFailure(w) /\ b = BuildOf(w) /\ c = ChrootOf(w)
      BY <2>2, TargetChange
    <3> QED
      BY <3>1 DEF EndFailure, At, BuildOf, ChrootOf, WorkerTrue
  <2> QED
    BY <2>1, <2>2
<1>5. tests'[b][c] > 0 => job[b][c] = "succeeded"
  <2>1. CASE tests[b][c] > 0
    BY <2>1 DEF ReportsTrue
  <2>2. CASE tests'[b][c] # tests[b][c]
    <3>1. PICK w \in Workers : EndTests(w)
      BY <2>2, TestsSteps
    <3>2. b = BuildOf(w) /\ c = ChrootOf(w)
      BY <2>2, <3>1 DEF EndTests, TypeOK
    <3> QED
      BY <3>1, <3>2 DEF EndTests, At, BuildOf, ChrootOf, WorkerTrue
  <2> QED
    BY <2>1, <2>2
<1> QED
  BY <1>1, <1>2, <1>3, <1>4, <1>5

-----------------------------------------------------------------------------
(* The theorems                                                            *)

\* The inductive invariant holds at first ...
LEMMA InitIInv == Init => IInv
  BY DEF Init, IInv, TypeOK, BuildStatus, JobState, SubmitStep, HandlerStep, Idle, WorkerBusy,
     CurrentReady, JobsInStep, QueueTrue, WorkerTrue, WorkerKnows, TriggersInOrder, CutoffOld,
     VictimsOld, CanceledOld, PendingHasId, ReportsTrue

\* ... and every step preserves it ...
LEMMA NextIInv == IInv /\ [Next]_vars => IInv'
<1> SUFFICES ASSUME IInv, [Next]_vars PROVE IInv'
  OBVIOUS
<1> QED
  BY TypeStep, WorkerBusyStep, CurrentStep, JobsStep, QueueStep, WorkerTrueStep, WorkerKnowsStep,
     TriggersStep, CutoffStep, VictimsStep, CanceledStep, PendingStep, ReportsStep DEF IInv

\* ... so it holds throughout.
LEMMA Inductive == Spec => []IInv
  BY InitIInv, NextIInv, PTL DEF Spec

\* The variables keep their types.
THEOREM TypeCorrect == Spec => []TypeOK
<1>1. IInv => TypeOK
  BY DEF IInv
<1> QED
  BY <1>1, Inductive, PTL

\* A pending target always has the build id that check_pending_copr_builds
\* converts to an integer.
THEOREM PendingAlwaysHasId == Spec => []PendingHasId
<1>1. IInv => PendingHasId
  BY DEF IInv
<1> QED
  BY <1>1, Inductive, PTL

\* Targets succeed or fail and tests are triggered only as Copr's build ended.
THEOREM ReportsAreTrue == Spec => []ReportsTrue
<1>1. IInv => ReportsTrue
  BY DEF IInv
<1> QED
  BY <1>1, Inductive, PTL

\* The builds of the newest event are never cancelled.
THEOREM NewestIsNeverCanceled == Spec => []NewestNeverCanceled
<1>1. IInv => NewestNeverCanceled
  <2> SUFFICES ASSUME IInv, NEW b \in Builds,
                      \E c \in Chroots : target[b][c] = "canceled" \/ job[b][c] = "canceled"
               PROVE  \E t \in Triggers : trigger[b] # NULL /\ t > trigger[b] /\ pc[t] # "absent"
    BY DEF NewestNeverCanceled
  <2>1. PICK t \in Triggers : pc[t] # "absent" /\ b <= cutoff[t]
    BY DEF IInv, CanceledOld
  <2>2. trigger[b] < t
    BY <2>1 DEF IInv, CutoffOld
  <2>3. b <= count
    <3>1. count \in Nat /\ cutoff[t] \in Nat
      BY DEF IInv, TypeOK
    <3> QED
      BY <2>1, <3>1 DEF IInv, CutoffOld
  <2>4. trigger[b] \in Triggers
    BY <2>3 DEF IInv, TriggersInOrder
  <2>5. trigger[b] # NULL
    BY <2>4, NoNumber DEF Triggers
  <2> QED
    BY <2>1, <2>2, <2>5
<1> QED
  BY <1>1, Inductive, PTL
=============================================================================
