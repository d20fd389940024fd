------------------------- MODULE SyncReleaseProofs -------------------------
(***************************************************************************)
(* Proofs about SyncRelease: its states are well-typed, and a submitted    *)
(* target has the pull request of its own release.                         *)
(***************************************************************************)
EXTENDS SyncRelease, TLAPS

\* What an event asks for are versions; "no version" is asked for alone.
LEMMA ReleasesLemma ==
  ASSUME NEW e \in Events
  PROVE  /\ ReleasesToSync(e) \subseteq Versions
         /\ NoVersion \in ReleasesToSync(e) => ReleasesToSync(e) = {NoVersion}
<1> DEFINE u == Upstream[e]
<1>1. /\ u.git \in BOOLEAN /\ u.all \in BOOLEAN
      /\ u.versions \subseteq Releases /\ u.included \subseteq Releases
  BY SyncAssumption
<1>2. NoVersion \notin Releases /\ NoVersion \in Versions /\ Releases \subseteq Versions
  BY SyncAssumption DEF Versions
<1> HIDE DEF u
<1>3. CASE u.git
  <2>1. ReleasesToSync(e) = u.versions \cap u.included
    BY <1>3 DEF ReleasesToSync, u
  <2> QED BY <2>1, <1>1, <1>2
<1>4. CASE ~u.git /\ u.versions = {}
  <2>1. ReleasesToSync(e) = {NoVersion}
    BY <1>4 DEF ReleasesToSync, u
  <2> QED BY <2>1, <1>2
<1>5. CASE ~u.git /\ u.versions # {}
  <2>1. ReleasesToSync(e) \subseteq u.versions
    BY <1>5 DEF ReleasesToSync, u
  <2> QED BY <2>1, <1>1, <1>2
<1> QED BY <1>1, <1>3, <1>4, <1>5

-----------------------------------------------------------------------------
\* A worker changes its record for another one of the type.
Good(new) == /\ new.pc # "idle" => new.msg \in Message
             /\ new.pc \in {"sync", "made"} => new.branch \in Branches
LEMMA BecomeType ==
  ASSUME TypeOK, NEW w \in Workers, NEW new \in Worker, Become(w, new), Good(new)
  PROVE  worker' \in [Workers -> Worker] /\ \A x \in Workers : Good(worker[x])'
<1>1. worker \in [Workers -> Worker] /\ \A x \in Workers : Good(worker[x])
  BY DEF TypeOK, At, Good
<1>2. worker' = [worker EXCEPT ![w] = new]
  BY DEF Become
<1>3. worker' \in [Workers -> Worker]
  BY <1>1, <1>2
<1>4. ASSUME NEW x \in Workers PROVE Good(worker[x])'
  <2>1. CASE x = w
    BY <1>1, <1>2, <2>1 DEF Good
  <2>2. CASE x # w
    BY <1>1, <1>2, <2>2 DEF Good
  <2> QED BY <2>1, <2>2
<1> QED BY <1>3, <1>4

LEMMA IdleType == Idle \in Worker /\ Idle.pc = "idle"
BY SyncAssumption DEF Idle, Worker, Versions

\* Type correctness: every state of the runs, messages and workers is what the
\* declarations of the model say.
LEMMA TypeInit == Init => TypeOK
<1> SUFFICES ASSUME Init PROVE TypeOK
  OBVIOUS
<1>1. runs \in [RunIds -> Run]
  BY DEF Init, Run, Versions, ToRun
<1>2. worker \in [Workers -> Worker] /\ \A w \in Workers : worker[w].pc = "idle"
  BY IdleType DEF Init
<1>3. count \in 0..MaxRuns /\ faults \in 0..MaxFaults
  BY SyncAssumption DEF Init
<1>4. /\ prs \subseteq Versions \X Branches /\ archive \subseteq Versions /\ queue \subseteq Message
      /\ released \subseteq Events /\ failed \subseteq Events
  BY DEF Init
<1> QED BY <1>1, <1>2, <1>3, <1>4 DEF TypeOK, At

LEMMA TypeStep == TypeOK /\ [Next]_vars => TypeOK'
<1> SUFFICES ASSUME TypeOK, [Next]_vars PROVE TypeOK'
  OBVIOUS
<1> USE SyncAssumption
<1>w. ASSUME NEW w \in Workers
      PROVE  /\ worker[w] \in Worker
             /\ worker[w].pc # "idle" => /\ worker[w].msg \in Message
                                         /\ worker[w].msg.event \in Events
             /\ worker[w].pc \in {"sync", "made"} => worker[w].branch \in Branches
  BY DEF TypeOK, At, Message
<1>1. ASSUME NEW e \in Events, Release(e) PROVE TypeOK'
  <2>1. NewTask(e) \in Message
    BY DEF NewTask, Message, Versions, Retries
  <2> QED BY <1>1, <2>1 DEF Release, TypeOK, At
<1>2. ASSUME NEW v \in Versions, Upload(v) PROVE TypeOK'
  BY <1>2 DEF Upload, TypeOK, At
<1>3. ASSUME NEW w \in Workers, NEW m \in queue, Take(w, m) PROVE TypeOK'
  <2> DEFINE new == [Idle EXCEPT !.pc = "release", !.msg = m, !.todo = ReleasesToSync(m.event)]
  <2>1. m \in Message /\ m.event \in Events
    BY DEF TypeOK, Message
  <2>2. new \in Worker /\ Good(new)
    <3>1. new \in Worker
      BY <2>1, ReleasesLemma, IdleType DEF Worker
    <3>2. new.pc = "release" /\ new.msg = m
      BY IdleType DEF Worker
    <3> QED BY <2>1, <3>1, <3>2 DEF Good
  <2>3. Become(w, new) /\ queue' \subseteq queue
    BY <1>3 DEF Take
  <2> HIDE DEF new
  <2>4. worker' \in [Workers -> Worker] /\ \A x \in Workers : Good(worker[x])'
    BY <2>2, <2>3, BecomeType
  <2> QED BY <1>3, <2>3, <2>4 DEF Take, TypeOK, At, Good
<1>4. ASSUME NEW w \in Workers, NEW r \in RunIds, NEW v, Begin(w, r, v)
      PROVE  v \in Versions /\ worker' \in [Workers -> Worker] /\ \A x \in Workers : Good(worker[x])'
  <2> DEFINE new == [worker[w] EXCEPT !.pc = "targets", !.run = r, !.release = v, !.left = Branches]
  <2>1. v \in Versions /\ worker[w].pc # "idle" /\ Become(w, new)
    BY <1>4, <1>w DEF Begin, Worker, At
  <2>2. new \in Worker /\ Good(new)
    <3>1. new \in Worker
      <4>1. r \in 0..MaxRuns /\ Branches \in SUBSET Branches
        BY DEF RunIds
      <4> QED BY <4>1, <2>1, <1>w DEF Worker
    <3>2. new.pc = "targets" /\ new.msg = worker[w].msg
      BY <1>w DEF Worker
    <3> QED BY <2>1, <1>w, <3>1, <3>2 DEF Good
  <2> HIDE DEF new
  <2> QED BY <2>1, <2>2, BecomeType
<1>5. ASSUME NEW w \in Workers, NEW v \in worker[w].todo, ReuseRun(w, v) PROVE TypeOK'
  <2>1. worker[w].msg.run \in RunIds
    BY <1>5, <1>w DEF ReuseRun, Begin, At, Message, RunIds
  <2>2. Begin(w, worker[w].msg.run, v)
    BY <1>5 DEF ReuseRun
  <2>3. worker' \in [Workers -> Worker] /\ \A x \in Workers : Good(worker[x])'
    BY <1>4, <2>1, <2>2
  <2> QED BY <1>5, <2>3 DEF ReuseRun, TypeOK, At, Good
<1>6. ASSUME NEW w \in Workers, NEW v \in worker[w].todo, CreateRun(w, v) PROVE TypeOK'
  <2>1. count + 1 \in RunIds /\ count + 1 \in 0..MaxRuns
    BY <1>6 DEF CreateRun, TypeOK, RunIds
  <2>2. Begin(w, count + 1, v)
    BY <1>6 DEF CreateRun
  <2>3. v \in Versions /\ worker' \in [Workers -> Worker] /\ \A x \in Workers : Good(worker[x])'
    BY <1>4, <2>1, <2>2
  <2>4. runs' \in [RunIds -> Run]
    BY <1>6, <2>1, <2>3 DEF CreateRun, TypeOK, Run
  <2> QED BY <1>6, <2>1, <2>3, <2>4 DEF CreateRun, TypeOK, At, Good
<1>7. ASSUME NEW w \in Workers, NEW b \in worker[w].left, NextTarget(w, b) PROVE TypeOK'
  <2>1. b \in Branches /\ worker[w].run \in RunIds \cup {0} /\ worker[w].pc = "targets"
    BY <1>7, <1>w DEF NextTarget, At, Worker, RunIds
  <2>2. CASE runs[RunOf(w)].target[b] \in ToRun
    <3> DEFINE new == [worker[w] EXCEPT !.pc = "sync", !.branch = b]
    <3>1. new \in Worker /\ Good(new)
      <4>1. new \in Worker
        BY <2>1, <1>w DEF Worker
      <4>2. new.pc = "sync" /\ new.msg = worker[w].msg /\ new.branch = b
        BY <1>w DEF Worker
      <4> QED BY <2>1, <1>w, <4>1, <4>2 DEF Good
    <3>2. Become(w, new) /\ runs' = [runs EXCEPT ![RunOf(w)].target[b] = "running"]
      BY <1>7, <2>2 DEF NextTarget
    <3> HIDE DEF new
    <3>3. worker' \in [Workers -> Worker] /\ \A x \in Workers : Good(worker[x])'
      BY <3>1, <3>2, BecomeType
    <3>4. runs' \in [RunIds -> Run]
      BY <2>1, <3>2 DEF TypeOK, Run, ToRun, RunOf
    <3> QED BY <1>7, <3>3, <3>4 DEF NextTarget, TypeOK, At, Good
  <2>3. CASE runs[RunOf(w)].target[b] \notin ToRun
    <3> DEFINE new == [worker[w] EXCEPT !.left = @ \ {b}]
    <3>1. new \in Worker /\ Good(new)
      <4>1. new \in Worker
        BY <2>1, <1>w DEF Worker
      <4>2. new.pc = "targets" /\ new.msg = worker[w].msg
        BY <2>1, <1>w DEF Worker
      <4> QED BY <2>1, <1>w, <4>1, <4>2 DEF Good
    <3>2. Become(w, new) /\ runs' = runs
      BY <1>7, <2>3 DEF NextTarget
    <3> HIDE DEF new
    <3>3. worker' \in [Workers -> Worker] /\ \A x \in Workers : Good(worker[x])'
      BY <3>1, <3>2, BecomeType
    <3> QED BY <1>7, <3>2, <3>3 DEF NextTarget, TypeOK, At, Good
  <2> QED BY <2>2, <2>3
<1>8. ASSUME NEW w \in Workers, SyncBranch(w) PROVE TypeOK'
  <2> DEFINE new == [worker[w] EXCEPT !.pc = "made"]
  <2>0. worker[w].pc = "sync" /\ worker[w].branch \in Branches /\ worker[w].release \in Versions
    BY <1>8, <1>w DEF SyncBranch, At, Worker
  <2>1. new \in Worker /\ Good(new)
    <3>1. new \in Worker
      BY <1>w DEF Worker
    <3>2. new.pc = "made" /\ new.msg = worker[w].msg /\ new.branch = worker[w].branch
      BY <1>w DEF Worker
    <3> QED BY <2>0, <1>w, <3>1, <3>2 DEF Good
  <2>2. Become(w, new) /\ prs' \subseteq Versions \X Branches
    BY <1>8, <2>0 DEF SyncBranch, TypeOK
  <2> HIDE DEF new
  <2>3. worker' \in [Workers -> Worker] /\ \A x \in Workers : Good(worker[x])'
    BY <2>1, <2>2, BecomeType
  <2> QED BY <1>8, <2>2, <2>3 DEF SyncBranch, TypeOK, At, Good
<1>9. ASSUME NEW w \in Workers, NEW status \in Final, worker[w].pc \in {"sync", "made"},
             TargetDone(w, status)
      PROVE  TypeOK'
  <2> DEFINE new == [worker[w] EXCEPT !.pc = "targets", !.left = @ \ {worker[w].branch}]
  <2>1. new \in Worker /\ Good(new)
    <3>1. new \in Worker
      BY <1>w DEF Worker
    <3>2. new.pc = "targets" /\ new.msg = worker[w].msg
      BY <1>w DEF Worker
    <3> QED BY <1>9, <1>w, <3>1, <3>2 DEF Good
  <2>2. Become(w, new) /\ runs' = [runs EXCEPT ![worker[w].run].target[worker[w].branch] = status]
    BY <1>9 DEF TargetDone, Target, RunOf
  <2> HIDE DEF new
  <2>3. worker' \in [Workers -> Worker] /\ \A x \in Workers : Good(worker[x])'
    BY <2>1, <2>2, BecomeType
  <2>4. runs' \in [RunIds -> Run]
    BY <2>2, <1>9, <1>w DEF TypeOK, Run
  <2> QED BY <1>9, <2>3, <2>4 DEF TargetDone, TypeOK, At, Good
<1>10. ASSUME NEW w \in Workers, Submitted(w) PROVE TypeOK'
  BY <1>9, <1>10 DEF Submitted, At, Final
<1>11. ASSUME NEW w \in Workers, SyncFails(w) PROVE TypeOK'
  BY <1>9, <1>11 DEF SyncFails, At, Final
<1>12. ASSUME NEW w \in Workers, DownloadFails(w) PROVE TypeOK'
  <2>1. CASE worker[w].msg.retries < MaxDownloads
    <3> DEFINE new == [worker[w] EXCEPT !.pc = "abort", !.todo = {}, !.left = Branches]
               m == worker[w].msg
               retry == [event |-> m.event, run |-> worker[w].run,
                         release |-> worker[w].release, retries |-> m.retries + 1]
    <3>0. worker[w].pc = "sync" /\ m \in Message
      BY <1>12, <1>w DEF DownloadFails, At
    <3>1. new \in Worker /\ Good(new)
      <4>1. new \in Worker
        BY <1>w DEF Worker
      <4>2. new.pc = "abort" /\ new.msg = worker[w].msg
        BY <1>w DEF Worker
      <4> QED BY <3>0, <4>1, <4>2 DEF Good
    <3>2. retry \in Message
      <4>1. m.event \in Events /\ m.retries + 1 \in Retries
        BY <2>1, <3>0 DEF Message, Retries
      <4>2. worker[w].run \in 0..MaxRuns /\ worker[w].release \in Versions
        BY <1>w DEF Worker
      <4> QED BY <4>1, <4>2 DEF Message
    <3>3. Become(w, new) /\ queue' = queue \cup {retry}
          /\ UNCHANGED <<runs, count, prs, archive, released, failed, faults>>
      BY <1>12, <2>1 DEF DownloadFails, RunOf
    <3> HIDE DEF new, retry
    <3>4. worker' \in [Workers -> Worker] /\ \A x \in Workers : Good(worker[x])'
      BY <3>1, <3>3, BecomeType
    <3> QED BY <3>2, <3>3, <3>4 DEF TypeOK, At, Good
  <2>2. CASE ~(worker[w].msg.retries < MaxDownloads)
    BY <1>9, <1>12, <2>2 DEF DownloadFails, At, Final
  <2> QED BY <2>1, <2>2
<1>13. ASSUME NEW w \in Workers, NEW b \in worker[w].left, AbortTarget(w, b) PROVE TypeOK'
  <2> DEFINE new == [worker[w] EXCEPT !.left = @ \ {b}]
  <2>1. new \in Worker /\ Good(new)
    <3>1. new \in Worker
      BY <1>w DEF Worker
    <3>2. new.pc = "abort" /\ new.msg = worker[w].msg /\ worker[w].pc = "abort"
      BY <1>13, <1>w DEF AbortTarget, At, Worker
    <3> QED BY <1>w, <3>1, <3>2 DEF Good
  <2>2. Become(w, new) /\ runs' = [runs EXCEPT ![worker[w].run].target[b] = "retry"]
    BY <1>13 DEF AbortTarget, RunOf
  <2> HIDE DEF new
  <2>3. worker' \in [Workers -> Worker] /\ \A x \in Workers : Good(worker[x])'
    BY <2>1, <2>2, BecomeType
  <2>4. runs' \in [RunIds -> Run]
    BY <2>2 DEF TypeOK, Run, ToRun
  <2> QED BY <1>13, <2>3, <2>4 DEF AbortTarget, TypeOK, At, Good
<1>14. ASSUME NEW w \in Workers, FinishRun(w) PROVE TypeOK'
  <2> DEFINE new == [worker[w] EXCEPT !.pc = "release", !.todo = @ \ {worker[w].release}]
             status == IF \E b \in Branches : runs[RunOf(w)].target[b] = "error"
                       THEN "error" ELSE "finished"
  <2>1. new \in Worker /\ Good(new)
    <3>1. new \in Worker
      BY <1>w DEF Worker
    <3>2. new.pc = "release" /\ new.msg = worker[w].msg /\ worker[w].pc = "targets"
      BY <1>14, <1>w DEF FinishRun, At, Worker
    <3> QED BY <1>w, <3>1, <3>2 DEF Good
  <2>2. Become(w, new) /\ runs' = [runs EXCEPT ![worker[w].run].status = status]
    BY <1>14 DEF FinishRun, RunOf
  <2>3. status \in {"error", "finished"}
    OBVIOUS
  <2> HIDE DEF new, status
  <2>4. worker' \in [Workers -> Worker] /\ \A x \in Workers : Good(worker[x])'
    BY <2>1, <2>2, BecomeType
  <2>5. runs' \in [RunIds -> Run]
    BY <2>2, <2>3 DEF TypeOK, Run
  <2> QED BY <1>14, <2>4, <2>5 DEF FinishRun, TypeOK, At, Good
<1>15. ASSUME NEW w \in Workers, Become(w, Idle)
       PROVE  worker' \in [Workers -> Worker] /\ \A x \in Workers : Good(worker[x])'
  <2>1. Good(Idle)
    BY IdleType DEF Good
  <2> QED BY <1>15, <2>1, IdleType, BecomeType
<1>16. ASSUME NEW w \in Workers, End(w) PROVE TypeOK'
  BY <1>15, <1>16 DEF End, TypeOK, At, Good
<1>17. ASSUME NEW w \in Workers, Escape(w) PROVE TypeOK'
  <2> DEFINE m == worker[w].msg
             again == [m EXCEPT !.retries = m.retries + 1]
  <2>1. m \in Message /\ m.event \in Events /\ faults' \in 0..MaxFaults /\ Become(w, Idle)
    BY <1>17, <1>w DEF Escape, At, TypeOK
  <2>2. worker' \in [Workers -> Worker] /\ \A x \in Workers : Good(worker[x])'
    BY <2>1, <1>15
  <2>3. queue' \subseteq Message /\ failed' \subseteq Events
    <3>1. CASE m.retries < MaxRetries /\ queue' = queue \cup {again} /\ failed' = failed
      <4>1. m.retries + 1 \in Retries
        BY <2>1, <3>1 DEF Message, Retries
      <4>2. again \in Message
        BY <2>1, <4>1 DEF Message
      <4> QED BY <3>1, <4>2 DEF TypeOK
    <3>2. CASE failed' = failed \cup {m.event} /\ queue' = queue
      BY <2>1, <3>2 DEF TypeOK
    <3> QED BY <1>17, <3>1, <3>2 DEF Escape
  <2> QED BY <1>17, <2>1, <2>2, <2>3 DEF Escape, TypeOK, At, Good
<1>18. ASSUME NEW w \in Workers, Crash(w) PROVE TypeOK'
  <2>1. worker[w].msg \in Message /\ faults' \in 0..MaxFaults /\ Become(w, Idle)
    BY <1>18, <1>w DEF Crash, At, TypeOK
  <2>2. worker' \in [Workers -> Worker] /\ \A x \in Workers : Good(worker[x])'
    BY <2>1, <1>15
  <2> QED BY <1>18, <2>1, <2>2 DEF Crash, TypeOK, At, Good
<1>19. CASE UNCHANGED vars
  BY <1>19 DEF vars, TypeOK, At
<1>20. ASSUME NEW w \in Workers, Work(w) PROVE TypeOK'
  BY <1>3, <1>5, <1>6, <1>7, <1>8, <1>10, <1>11, <1>12, <1>13, <1>14, <1>16, <1>20 DEF Work
<1> QED BY <1>1, <1>2, <1>17, <1>18, <1>19, <1>20 DEF Next

THEOREM TypeCorrect == Spec => []TypeOK
BY TypeInit, TypeStep, PTL DEF Spec

-----------------------------------------------------------------------------
\* The inductive invariant.  A message that names a run names one of its
\* release, asked for by its event.
MessageTrue(m) ==
  m.run # 0 => /\ m.run \in 1..count /\ runs[m.run].release = m.release
               /\ m.release \in ReleasesToSync(m.event)
\* A worker works on a run of its release, and has made the pull request when
\* it is about to say so.
WorkerTrue(w) ==
  LET x == worker[w] IN
  /\ x.pc # "idle" => MessageTrue(x.msg) /\ x.todo \subseteq ReleasesToSync(x.msg.event)
  /\ x.pc \in {"targets", "sync", "made", "abort"} =>
       /\ x.run \in 1..count /\ runs[x.run].release = x.release
       /\ x.release \in ReleasesToSync(x.msg.event)
  /\ x.pc = "made" => <<x.release, x.branch>> \in prs
UnusedRuns == \A r \in RunIds, b \in Branches : r > count => runs[r].target[b] # "submitted"
IInv == /\ \A m \in queue : MessageTrue(m)
        /\ \A w \in Workers : WorkerTrue(w)
        /\ UnusedRuns /\ SubmittedHasPr

\* Runs keep their release, and nothing made goes away.
Frame == /\ count <= count' /\ prs \subseteq prs'
         /\ \A r \in 1..count : runs'[r].release = runs[r].release

LEMMA MessagesKept ==
  ASSUME TypeOK, TypeOK', Frame, NEW m, m \in Message, MessageTrue(m)
  PROVE  MessageTrue(m)'
<1>1. count \in Nat /\ count' \in Nat /\ m.run \in Nat
  BY SyncAssumption DEF TypeOK, Message
<1> QED BY <1>1 DEF Frame, MessageTrue

LEMMA WorkerKept ==
  ASSUME TypeOK, TypeOK', IInv, Frame, NEW w \in Workers, worker'[w] = worker[w]
  PROVE  WorkerTrue(w)'
<1>1. count \in Nat /\ count' \in Nat /\ WorkerTrue(w) /\ worker[w] \in Worker
  BY SyncAssumption DEF TypeOK, IInv
<1>2. worker[w].pc # "idle" => worker[w].msg \in Message /\ worker[w].msg.run \in Nat
  BY <1>1 DEF TypeOK, At, Message
<1>3. worker[w].run \in Nat
  BY <1>1 DEF Worker
<1>4. worker[w].pc # "idle" => MessageTrue(worker[w].msg)'
  BY <1>1, <1>2 DEF Frame, MessageTrue, WorkerTrue
<1>5. worker[w].pc \in {"targets", "sync", "made", "abort"} =>
        /\ worker[w].run \in 1..count' /\ runs'[worker[w].run].release = worker[w].release
  BY <1>1, <1>3 DEF Frame, WorkerTrue
<1>6. worker[w].pc = "made" => <<worker[w].release, worker[w].branch>> \in prs'
  BY <1>1 DEF Frame, WorkerTrue
<1> QED BY <1>1, <1>4, <1>5, <1>6 DEF WorkerTrue

\* What is left to show of a step of worker w.
LEMMA WorkerStep ==
  ASSUME TypeOK, TypeOK', IInv, Frame, NEW w \in Workers, NEW new, Become(w, new),
         WorkerTrue(w)', UnusedRuns', SubmittedHasPr',
         \A m \in queue' : m \in queue \/ MessageTrue(m)'
  PROVE  IInv'
<1>1. \A x \in Workers : x # w => worker'[x] = worker[x]
  BY DEF Become, TypeOK
<1>2. \A x \in Workers : WorkerTrue(x)'
  BY <1>1, WorkerKept
<1>3. ASSUME NEW m \in queue' PROVE MessageTrue(m)'
  <2>1. CASE m \in queue
    BY <2>1, MessagesKept DEF IInv, TypeOK
  <2> QED BY <1>3, <2>1
<1> QED BY <1>2, <1>3 DEF IInv

\* The same when neither runs nor pull requests change.
LEMMA QuietStep ==
  ASSUME TypeOK, TypeOK', IInv, UNCHANGED <<runs, count, prs>>,
         NEW w \in Workers, NEW new, Become(w, new), WorkerTrue(w)',
         \A m \in queue' : m \in queue \/ MessageTrue(m)'
  PROVE  IInv'
<1>1. Frame
  BY SyncAssumption DEF Frame, TypeOK
<1>2. UnusedRuns' /\ SubmittedHasPr'
  BY DEF IInv, UnusedRuns, SubmittedHasPr
<1> QED BY <1>1, <1>2, WorkerStep

LEMMA InvInit == Init => IInv
<1> SUFFICES ASSUME Init PROVE IInv
  OBVIOUS
<1>1. \A w \in Workers : worker[w] = Idle /\ worker[w].pc = "idle"
  BY IdleType DEF Init
<1>2. \A w \in Workers : WorkerTrue(w)
  BY <1>1 DEF WorkerTrue
<1>3. queue = {} /\ UnusedRuns /\ SubmittedHasPr
  BY SyncAssumption DEF Init, UnusedRuns, SubmittedHasPr
<1> QED BY <1>2, <1>3 DEF IInv

\* A worker becomes the record that its action names.
LEMMA NewWorker ==
  ASSUME TypeOK, NEW w \in Workers, NEW new, Become(w, new)
  PROVE  worker'[w] = new
BY DEF Become, TypeOK

\* A target of a run that is in use gets another status.
LEMMA TargetStep ==
  ASSUME TypeOK, IInv, NEW r \in 1..count, NEW b \in Branches, NEW status,
         runs' = [runs EXCEPT ![r].target[b] = status], UNCHANGED <<count, prs>>,
         status = "submitted" => <<runs[r].release, b>> \in prs
  PROVE  Frame /\ UnusedRuns' /\ SubmittedHasPr'
<1>1. count \in 0..MaxRuns /\ 1..count \subseteq RunIds
  BY SyncAssumption DEF TypeOK, RunIds
<1>2. /\ \A x \in RunIds : runs'[x].release = runs[x].release
      /\ \A x \in RunIds : x # r => runs'[x] = runs[x]
      /\ runs'[r].target = [runs[r].target EXCEPT ![b] = status]
  BY <1>1 DEF TypeOK, Run
<1>3. \A x \in Branches : runs'[r].target[x] = IF x = b THEN status ELSE runs[r].target[x]
  BY <1>1, <1>2 DEF TypeOK, Run
<1>4. Frame
  BY <1>1, <1>2, SyncAssumption DEF Frame
<1>5. UnusedRuns'
  BY <1>1, <1>2, SyncAssumption DEF IInv, UnusedRuns, RunIds
<1>6. ASSUME NEW x \in 1..count', NEW c \in Branches, runs'[x].target[c] = "submitted"
      PROVE  <<runs'[x].release, c>> \in prs'
  <2>1. x \in 1..count /\ x \in RunIds
    BY <1>1
  <2>2. CASE x = r /\ c = b
    BY <1>2, <1>3, <1>6, <2>1, <2>2
  <2>3. CASE x # r \/ c # b
    <3>1. runs[x].target[c] = "submitted"
      BY <1>2, <1>3, <1>6, <2>1, <2>3
    <3> QED BY <1>2, <2>1, <3>1 DEF IInv, SubmittedHasPr
  <2> QED BY <2>2, <2>3
<1>7. SubmittedHasPr'
  BY <1>6 DEF SubmittedHasPr
<1> QED BY <1>4, <1>5, <1>7

LEMMA InvStep == TypeOK /\ TypeOK' /\ IInv /\ [Next]_vars => IInv'
<1> SUFFICES ASSUME TypeOK, TypeOK', IInv, [Next]_vars PROVE IInv'
  OBVIOUS
<1> USE SyncAssumption
<1>w. ASSUME NEW w \in Workers
      PROVE  /\ worker[w] \in Worker /\ WorkerTrue(w)
             /\ worker[w].pc # "idle" => /\ worker[w].msg \in Message
                                         /\ worker[w].msg.event \in Events
  BY DEF TypeOK, At, Message, IInv
<1>c. count \in 0..MaxRuns /\ \A r \in 1..count : r \in RunIds
  BY DEF TypeOK, RunIds
<1>1. ASSUME NEW e \in Events, Release(e) PROVE IInv'
  <2>1. NewTask(e).run = 0
    BY DEF NewTask
  <2>2. \A m \in queue' : MessageTrue(m)'
    BY <1>1, <2>1 DEF Release, IInv, MessageTrue
  <2>3. \A w \in Workers : WorkerTrue(w)'
    BY <1>1 DEF Release, IInv, WorkerTrue, MessageTrue
  <2> QED BY <1>1, <2>2, <2>3 DEF Release, IInv, UnusedRuns, SubmittedHasPr
<1>2. ASSUME NEW v \in Versions, Upload(v) PROVE IInv'
  BY <1>2 DEF Upload, IInv, WorkerTrue, MessageTrue, UnusedRuns, SubmittedHasPr
<1>3. ASSUME NEW w \in Workers, NEW m \in queue, Take(w, m) PROVE IInv'
  <2> DEFINE new == [Idle EXCEPT !.pc = "release", !.msg = m, !.todo = ReleasesToSync(m.event)]
  <2>1. Become(w, new) /\ UNCHANGED <<runs, count, prs>> /\ queue' \subseteq queue
    BY <1>3 DEF Take
  <2>2. new.pc = "release" /\ new.msg = m /\ new.todo = ReleasesToSync(m.event)
    BY IdleType DEF Worker
  <2> HIDE DEF new
  <2>3. worker'[w] = new
    BY <2>1, NewWorker
  <2>4. MessageTrue(m)
    BY DEF IInv
  <2>5. WorkerTrue(w)'
    BY <2>1, <2>2, <2>3, <2>4 DEF WorkerTrue, MessageTrue
  <2> QED BY <2>1, <2>5, QuietStep
<1>4. ASSUME NEW w \in Workers, NEW r \in RunIds, NEW v, Begin(w, r, v), Frame,
             r <= count', runs'[r].release = v
      PROVE  WorkerTrue(w)'
  <2> DEFINE new == [worker[w] EXCEPT !.pc = "targets", !.run = r, !.release = v, !.left = Branches]
  <2>1. Become(w, new) /\ worker[w].pc = "release" /\ v \in worker[w].todo
    BY <1>4 DEF Begin, At
  <2>2. /\ new.pc = "targets" /\ new.msg = worker[w].msg /\ new.todo = worker[w].todo
        /\ new.run = r /\ new.release = v
    BY <1>w DEF Worker
  <2> HIDE DEF new
  <2>3. worker'[w] = new
    BY <2>1, NewWorker
  <2>4. /\ MessageTrue(worker[w].msg) /\ worker[w].msg \in Message
        /\ worker[w].todo \subseteq ReleasesToSync(worker[w].msg.event)
    BY <2>1, <1>w DEF WorkerTrue
  <2>5. worker[w].msg.run \in Nat
    BY <2>4 DEF Message
  <2>6. MessageTrue(worker[w].msg)'
    BY <2>2, <2>3, <2>4, <2>5, <1>4, <1>c DEF MessageTrue, Frame, TypeOK
  <2>7. r \in 1..count'
    BY <1>4 DEF RunIds, TypeOK
  <2> QED BY <1>4, <2>1, <2>2, <2>3, <2>4, <2>6, <2>7 DEF WorkerTrue
<1>5. ASSUME NEW w \in Workers, NEW v \in worker[w].todo, ReuseRun(w, v) PROVE IInv'
  <2> DEFINE m == worker[w].msg
  <2>1. /\ m.run # 0 /\ m.release \in {NoVersion, v} /\ Begin(w, m.run, v)
        /\ UNCHANGED <<runs, count, prs, queue>>
    BY <1>5 DEF ReuseRun
  <2>2. /\ MessageTrue(m) /\ m.event \in Events /\ v \in ReleasesToSync(m.event)
    BY <2>1, <1>w DEF Begin, At, WorkerTrue
  <2>3. m.run \in 1..count /\ runs[m.run].release = m.release /\ m.release = v
    BY <2>1, <2>2, ReleasesLemma DEF MessageTrue
  <2>4. Frame
    BY <2>1, <1>c DEF Frame
  <2>5. m.run \in RunIds /\ m.run <= count' /\ runs'[m.run].release = v
    BY <2>1, <2>3, <1>c
  <2>6. WorkerTrue(w)'
    BY <1>4, <2>1, <2>4, <2>5
  <2> QED BY <2>1, <2>6, QuietStep DEF Begin
<1>6. ASSUME NEW w \in Workers, NEW v \in worker[w].todo, CreateRun(w, v) PROVE IInv'
  <2>1. /\ count < MaxRuns /\ count' = count + 1 /\ queue' = queue /\ prs' = prs
        /\ runs' = [runs EXCEPT ![count + 1].release = v] /\ Begin(w, count + 1, v)
    BY <1>6 DEF CreateRun
  <2>2. count + 1 \in RunIds /\ \A r \in RunIds : r <= count => r # count + 1
    BY <2>1, <1>c DEF RunIds
  <2>3. /\ runs'[count + 1].release = v
        /\ \A r \in RunIds : runs'[r].target = runs[r].target
        /\ \A r \in RunIds : r # count + 1 => runs'[r] = runs[r]
    BY <2>1, <2>2 DEF TypeOK, Run
  <2>4. Frame
    BY <2>1, <2>2, <2>3, <1>c DEF Frame
  <2>5. WorkerTrue(w)'
    BY <1>4, <2>1, <2>2, <2>3, <2>4, <1>c
  <2>6. UnusedRuns'
    BY <2>1, <2>3, <1>c DEF IInv, UnusedRuns, RunIds
  <2>7. ASSUME NEW r \in 1..count', NEW b \in Branches, runs'[r].target[b] = "submitted"
        PROVE  <<runs'[r].release, b>> \in prs'
    <3>1. r \in RunIds /\ runs[r].target[b] = "submitted"
      BY <2>1, <2>3, <2>7, <1>c DEF RunIds
    <3>2. r <= count
      BY <3>1, <1>c DEF IInv, UnusedRuns, RunIds
    <3>3. r \in 1..count /\ runs'[r] = runs[r]
      BY <3>1, <3>2, <2>2, <2>3, <1>c DEF RunIds
    <3> QED BY <3>1, <3>3, <2>1 DEF IInv, SubmittedHasPr
  <2>8. SubmittedHasPr'
    BY <2>7 DEF SubmittedHasPr
  <2> QED BY <2>1, <2>4, <2>5, <2>6, <2>8, WorkerStep DEF Begin
<1>k. ASSUME NEW w \in Workers, NEW new, Become(w, new), Frame,
             worker[w].pc \in {"targets", "sync", "made", "abort"}, new.msg = worker[w].msg,
             new.todo \subseteq worker[w].todo,
             new.pc # "release" => new.run = worker[w].run /\ new.release = worker[w].release,
             new.pc \in {"release", "targets", "sync", "made", "abort"},
             new.pc = "made" => <<new.release, new.branch>> \in prs'
      PROVE  WorkerTrue(w)'
  <2>1. worker'[w] = new
    BY <1>k, NewWorker
  <2>2. /\ MessageTrue(worker[w].msg) /\ worker[w].msg \in Message
        /\ worker[w].todo \subseteq ReleasesToSync(worker[w].msg.event)
        /\ worker[w].run \in 1..count /\ runs[worker[w].run].release = worker[w].release
        /\ worker[w].release \in ReleasesToSync(worker[w].msg.event)
    BY <1>k, <1>w DEF WorkerTrue
  <2>3. worker[w].msg.run \in Nat /\ count \in Nat /\ count' \in Nat
    BY <2>2 DEF Message, TypeOK
  <2>4. MessageTrue(worker[w].msg)'
    BY <1>k, <2>1, <2>2, <2>3 DEF MessageTrue, Frame
  <2>5. worker[w].run \in 1..count' /\ runs'[worker[w].run].release = worker[w].release
    BY <1>k, <2>2, <2>3 DEF Frame
  <2> QED BY <1>k, <2>1, <2>2, <2>4, <2>5 DEF WorkerTrue
<1>7. ASSUME NEW w \in Workers, NEW b \in worker[w].left, NextTarget(w, b) PROVE IInv'
  <2>1. /\ b \in Branches /\ worker[w].pc = "targets" /\ RunOf(w) \in 1..count
        /\ UNCHANGED <<count, prs, queue>>
    BY <1>7, <1>w DEF NextTarget, At, Worker, WorkerTrue, RunOf
  <2>2. CASE runs[RunOf(w)].target[b] \in ToRun
    <3> DEFINE new == [worker[w] EXCEPT !.pc = "sync", !.branch = b]
    <3>1. Become(w, new) /\ runs' = [runs EXCEPT ![RunOf(w)].target[b] = "running"]
      BY <1>7, <2>2 DEF NextTarget
    <3>2. /\ new.pc = "sync" /\ new.msg = worker[w].msg /\ new.todo = worker[w].todo
          /\ new.run = worker[w].run /\ new.release = worker[w].release
      BY <1>w DEF Worker
    <3> HIDE DEF new
    <3>3. Frame /\ UnusedRuns' /\ SubmittedHasPr'
      <4>1. "running" # "submitted"
        OBVIOUS
      <4> QED BY <2>1, <3>1, <4>1, TargetStep
    <3>4. WorkerTrue(w)'
      BY <1>k, <2>1, <3>1, <3>2, <3>3
    <3> QED BY <2>1, <3>1, <3>3, <3>4, WorkerStep
  <2>3. CASE runs[RunOf(w)].target[b] \notin ToRun
    <3> DEFINE new == [worker[w] EXCEPT !.left = @ \ {b}]
    <3>1. Become(w, new) /\ runs' = runs
      BY <1>7, <2>3 DEF NextTarget
    <3>2. /\ new.pc = "targets" /\ new.msg = worker[w].msg /\ new.todo = worker[w].todo
          /\ new.run = worker[w].run /\ new.release = worker[w].release
      BY <2>1, <1>w DEF Worker
    <3> HIDE DEF new
    <3>3. Frame
      BY <2>1, <3>1, <1>c DEF Frame
    <3>4. WorkerTrue(w)'
      BY <1>k, <2>1, <3>1, <3>2, <3>3
    <3> QED BY <2>1, <3>1, <3>4, QuietStep
  <2> QED BY <2>2, <2>3
<1>8. ASSUME NEW w \in Workers, SyncBranch(w) PROVE IInv'
  <2> DEFINE new == [worker[w] EXCEPT !.pc = "made"]
  <2>1. /\ worker[w].pc = "sync" /\ Become(w, new) /\ UNCHANGED <<runs, count, queue>>
        /\ prs' = prs \cup {<<worker[w].release, worker[w].branch>>}
    BY <1>8 DEF SyncBranch, At
  <2>2. /\ new.pc = "made" /\ new.msg = worker[w].msg /\ new.todo = worker[w].todo
        /\ new.run = worker[w].run /\ new.release = worker[w].release
        /\ new.branch = worker[w].branch
    BY <1>w DEF Worker
  <2> HIDE DEF new
  <2>3. Frame
    BY <2>1, <1>c DEF Frame
  <2>4. WorkerTrue(w)'
    BY <1>k, <2>1, <2>2, <2>3
  <2>5. UnusedRuns' /\ SubmittedHasPr'
    BY <2>1 DEF IInv, UnusedRuns, SubmittedHasPr
  <2> QED BY <2>1, <2>3, <2>4, <2>5, WorkerStep
<1>9. ASSUME NEW w \in Workers, NEW status, TargetDone(w, status),
             worker[w].pc \in {"sync", "made"}, status = "submitted" => worker[w].pc = "made"
      PROVE  IInv'
  <2> DEFINE new == [worker[w] EXCEPT !.pc = "targets", !.left = @ \ {worker[w].branch}]
  <2>1. /\ Become(w, new) /\ UNCHANGED <<count, prs, queue>>
        /\ runs' = [runs EXCEPT ![RunOf(w)].target[worker[w].branch] = status]
    BY <1>9 DEF TargetDone, Target
  <2>2. /\ new.pc = "targets" /\ new.msg = worker[w].msg /\ new.todo = worker[w].todo
        /\ new.run = worker[w].run /\ new.release = worker[w].release
    BY <1>w DEF Worker
  <2> HIDE DEF new
  <2>3. /\ worker[w].branch \in Branches /\ RunOf(w) \in 1..count
        /\ runs[RunOf(w)].release = worker[w].release
        /\ status = "submitted" => <<worker[w].release, worker[w].branch>> \in prs
    BY <1>9, <1>w DEF TypeOK, At, WorkerTrue, RunOf
  <2>4. Frame /\ UnusedRuns' /\ SubmittedHasPr'
    BY <2>1, <2>3, TargetStep
  <2>5. WorkerTrue(w)'
    BY <1>k, <1>9, <2>1, <2>2, <2>4
  <2> QED BY <2>1, <2>4, <2>5, WorkerStep
<1>10. ASSUME NEW w \in Workers, Submitted(w) PROVE IInv'
  BY <1>9, <1>10 DEF Submitted, At
<1>11. ASSUME NEW w \in Workers, SyncFails(w) PROVE IInv'
  BY <1>9, <1>11 DEF SyncFails, At
<1>12. ASSUME NEW w \in Workers, DownloadFails(w) PROVE IInv'
  <2> DEFINE m == worker[w].msg
             again == [event |-> m.event, run |-> RunOf(w),
                       release |-> worker[w].release, retries |-> m.retries + 1]
             new == [worker[w] EXCEPT !.pc = "abort", !.todo = {}, !.left = Branches]
  <2>1. worker[w].pc = "sync"
    BY <1>12 DEF DownloadFails, At
  <2>2. CASE m.retries < MaxDownloads
    <3>1. Become(w, new) /\ queue' = queue \cup {again} /\ UNCHANGED <<runs, count, prs>>
      BY <1>12, <2>2 DEF DownloadFails
    <3>2. /\ new.pc = "abort" /\ new.msg = worker[w].msg /\ new.todo = {}
          /\ new.run = worker[w].run /\ new.release = worker[w].release
      BY <1>w DEF Worker
    <3>3. /\ again.event = m.event /\ again.run = worker[w].run
          /\ again.release = worker[w].release
      BY DEF RunOf
    <3> HIDE DEF new, again
    <3>4. Frame
      BY <3>1, <1>c DEF Frame
    <3>5. WorkerTrue(w)'
      BY <1>k, <2>1, <3>1, <3>2, <3>4
    <3>6. \A x \in queue' : x \in queue \/ MessageTrue(x)'
      BY <2>1, <3>1, <3>3, <1>w DEF MessageTrue, WorkerTrue
    <3> QED BY <3>1, <3>5, <3>6, QuietStep
  <2>3. CASE ~(m.retries < MaxDownloads)
    <3>1. TargetDone(w, "error")
      BY <1>12, <2>3 DEF DownloadFails
    <3> QED BY <1>9, <2>1, <3>1
  <2> QED BY <2>2, <2>3
<1>13. ASSUME NEW w \in Workers, NEW b \in worker[w].left, AbortTarget(w, b) PROVE IInv'
  <2> DEFINE new == [worker[w] EXCEPT !.left = @ \ {b}]
  <2>1. /\ b \in Branches /\ worker[w].pc = "abort" /\ RunOf(w) \in 1..count
        /\ Become(w, new) /\ UNCHANGED <<count, prs, queue>>
        /\ runs' = [runs EXCEPT ![RunOf(w)].target[b] = "retry"]
    BY <1>13, <1>w DEF AbortTarget, At, Worker, WorkerTrue, RunOf
  <2>2. /\ new.pc = "abort" /\ new.msg = worker[w].msg /\ new.todo = worker[w].todo
        /\ new.run = worker[w].run /\ new.release = worker[w].release
    BY <2>1, <1>w DEF Worker
  <2> HIDE DEF new
  <2>3. Frame /\ UnusedRuns' /\ SubmittedHasPr'
    <3>1. "retry" # "submitted"
      OBVIOUS
    <3> QED BY <2>1, <3>1, TargetStep
  <2>4. WorkerTrue(w)'
    BY <1>k, <2>1, <2>2, <2>3
  <2> QED BY <2>1, <2>3, <2>4, WorkerStep
<1>14. ASSUME NEW w \in Workers, FinishRun(w) PROVE IInv'
  <2> DEFINE new == [worker[w] EXCEPT !.pc = "release", !.todo = @ \ {worker[w].release}]
             status == IF \E b \in Branches : runs[RunOf(w)].target[b] = "error"
                       THEN "error" ELSE "finished"
  <2>1. /\ worker[w].pc = "targets" /\ Become(w, new) /\ UNCHANGED <<count, prs, queue>>
        /\ runs' = [runs EXCEPT ![RunOf(w)].status = status]
    BY <1>14 DEF FinishRun, At
  <2>2. new.pc = "release" /\ new.msg = worker[w].msg /\ new.todo \subseteq worker[w].todo
    BY <1>w DEF Worker
  <2> HIDE DEF new, status
  <2>3. \A r \in RunIds : runs'[r].release = runs[r].release /\ runs'[r].target = runs[r].target
    BY <2>1 DEF TypeOK, Run
  <2>4. Frame
    BY <2>1, <2>3, <1>c DEF Frame
  <2>5. UnusedRuns' /\ SubmittedHasPr'
    BY <2>1, <2>3, <1>c DEF IInv, UnusedRuns, SubmittedHasPr
  <2>6. WorkerTrue(w)'
    BY <1>k, <2>1, <2>2, <2>4
  <2> QED BY <2>1, <2>4, <2>5, <2>6, WorkerStep
<1>15. ASSUME NEW w \in Workers, Become(w, Idle) PROVE WorkerTrue(w)'
  BY <1>15, IdleType, NewWorker DEF WorkerTrue
<1>16. ASSUME NEW w \in Workers, End(w) PROVE IInv'
  BY <1>15, <1>16, QuietStep DEF End
<1>17. ASSUME NEW w \in Workers, Escape(w) PROVE IInv'
  <2> DEFINE m == worker[w].msg
             again == [m EXCEPT !.retries = m.retries + 1]
  <2>1. /\ MessageTrue(m) /\ m \in Message /\ Become(w, Idle)
        /\ UNCHANGED <<runs, count, prs>> /\ queue' \subseteq queue \cup {again}
    BY <1>17, <1>w DEF Escape, At, WorkerTrue
  <2>2. again.event = m.event /\ again.run = m.run /\ again.release = m.release
    BY <2>1 DEF Message
  <2> HIDE DEF again
  <2>3. \A x \in queue' : x \in queue \/ MessageTrue(x)'
    BY <2>1, <2>2 DEF MessageTrue
  <2> QED BY <1>15, <2>1, <2>3, QuietStep
<1>18. ASSUME NEW w \in Workers, Crash(w) PROVE IInv'
  <2>1. /\ MessageTrue(worker[w].msg) /\ Become(w, Idle) /\ UNCHANGED <<runs, count, prs>>
        /\ queue' = queue \cup {worker[w].msg}
    BY <1>18, <1>w DEF Crash, At, WorkerTrue
  <2>2. \A x \in queue' : x \in queue \/ MessageTrue(x)'
    BY <2>1 DEF MessageTrue
  <2> QED BY <1>15, <2>1, <2>2, QuietStep
<1>19. CASE UNCHANGED vars
  BY <1>19 DEF vars, IInv, WorkerTrue, MessageTrue, UnusedRuns, SubmittedHasPr
<1>20. ASSUME NEW w \in Workers, Work(w) PROVE IInv'
  BY <1>3, <1>5, <1>6, <1>7, <1>8, <1>10, <1>11, <1>12, <1>13, <1>14, <1>16, <1>20 DEF Work
<1> QED BY <1>1, <1>2, <1>17, <1>18, <1>19, <1>20 DEF Next

\* A submitted target has the pull request of its run's own release, for any
\* number of workers, releases, retries and crashes.
THEOREM SubmittedIsTrue == Spec => []SubmittedHasPr
<1>1. Init /\ [][Next]_vars => []IInv
  <2>1. Spec => []TypeOK
    BY TypeCorrect
  <2> QED BY <2>1, InvInit, InvStep, PTL DEF Spec
<1>2. IInv => SubmittedHasPr
  BY DEF IInv
<1> QED BY <1>1, <1>2, PTL DEF Spec
=============================================================================
