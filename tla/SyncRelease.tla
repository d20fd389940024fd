----------------------------- MODULE SyncRelease -----------------------------
(***************************************************************************)
(* propose-downstream and pull-from-upstream (AbstractSyncReleaseHandler): *)
(* a task makes a pull request in dist-git for each release of its event   *)
(* and each branch, with a run (SyncReleaseModel) for every release.  An   *)
(* archive that cannot be downloaded yet makes the task send itself again  *)
(* with the run as an argument.                                            *)
(*                                                                         *)
(* The broker has the messages of the tasks; equal ones count once.  A     *)
(* worker that dies has its message delivered again (acks_late), an        *)
(* exception that escapes lets Celery send the message once more.  The     *)
(* retried task may start before the one that sent it has ended: resetting *)
(* the submodules in between may take longer than the countdown.           *)
(***************************************************************************)
EXTENDS Naturals, FiniteSets

CONSTANTS None,
          Branches,      \* dist-git branches of the job
          Releases,      \* tags or versions; a greater number is newer
          Events,
          Upstream,      \* of each event: [git, versions, included, all]
          Workers,
          MaxRuns,       \* bound on the runs made
          MaxDownloads,  \* RETRY_LIMIT_RELEASE_ARCHIVE_DOWNLOAD_ERROR
          MaxRetries,    \* CELERY_RETRY_LIMIT
          MaxFaults      \* bound on crashes and escaping exceptions

NoVersion == 0
ASSUME SyncAssumption ==
  /\ Releases \subseteq Nat \ {NoVersion}
  /\ Upstream \in [Events -> [git : BOOLEAN, versions : SUBSET Releases,
                              included : SUBSET Releases, all : BOOLEAN]]
  /\ Workers \subseteq Nat
  /\ MaxRuns \in Nat /\ MaxDownloads \in Nat /\ MaxRetries \in Nat /\ MaxFaults \in Nat

VARIABLES runs,      \* SyncReleaseModel with its targets
          count,     \* the runs 1..count have been made
          prs,       \* pull requests in dist-git: <<release, branch>>
          archive,   \* the releases whose archive can be downloaded
          queue,     \* messages
          worker,
          released,  \* the events that have happened
          failed,    \* the events whose task was given up
          faults
vars == <<runs, count, prs, archive, queue, worker, released, failed, faults>>

Final == {"submitted", "error", "skipped"}
ToRun == {"queued", "running", "retry"}
Versions == Releases \cup {NoVersion}
RunIds == 1..MaxRuns
Run == [release : Versions, status : {"running", "finished", "error"},
        target : [Branches -> Final \cup ToRun]]

\* sync_release_run_id (0 for none) and retry_tag or retry_version.
Retries == 0..MaxDownloads \cup 0..MaxRetries
Message == [event : Events, run : 0..MaxRuns, release : Versions, retries : Retries]
NewTask(e) == [event |-> e, run |-> 0, release |-> NoVersion, retries |-> 0]
Worker == [pc : {"idle", "release", "targets", "sync", "made", "abort"}, msg : Message \cup {None},
           todo : SUBSET Versions, run : 0..MaxRuns, release : Versions, left : SUBSET Branches,
           branch : Branches \cup {None}]
Idle == [pc |-> "idle", msg |-> None, todo |-> {}, run |-> 0, release |-> NoVersion, left |-> {},
         branch |-> None]
At(w, pc) == worker[w].pc = pc
Become(w, new) == worker' = [worker EXCEPT ![w] = new]
RunOf(w) == worker[w].run
Target(w, status) == runs' = [runs EXCEPT ![RunOf(w)].target[worker[w].branch] = status]

\* _get_releases_to_sync: the tags that match, or the versions; the newest one
\* unless all versions are monitored.
ReleasesToSync(e) ==
  LET u == Upstream[e] IN
  IF u.git THEN u.versions \cap u.included
  ELSE IF u.versions = {} THEN {NoVersion}
  ELSE {v \in u.versions : u.all \/ \A x \in u.versions : v >= x}

Init ==
  /\ runs = [r \in RunIds |-> [release |-> NoVersion, status |-> "running",
                               target |-> [b \in Branches |-> "queued"]]]
  /\ count = 0 /\ prs = {} /\ archive = {} /\ queue = {}
  /\ worker = [w \in Workers |-> Idle]
  /\ released = {} /\ failed = {} /\ faults = 0

\* ------------------------------------------------------- the surroundings
\* SteveJobs has made the task.
Release(e) ==
  /\ e \notin released
  /\ released' = released \cup {e}
  /\ queue' = queue \cup {NewTask(e)}
  /\ UNCHANGED <<runs, count, prs, archive, worker, failed, faults>>

Upload(v) ==
  /\ v \notin archive /\ \E e \in released : v \in ReleasesToSync(e)
  /\ archive' = archive \cup {v}
  /\ UNCHANGED <<runs, count, prs, queue, worker, released, failed, faults>>

\* ---------------------------------------------------------------- the task
\* Idle workers do not differ, so it is always the first of them that goes on.
Take(w, m) ==
  /\ At(w, "idle") /\ \A x \in Workers : At(x, "idle") => w <= x
  /\ queue' = queue \ {m}
  /\ Become(w, [Idle EXCEPT !.pc = "release", !.msg = m, !.todo = ReleasesToSync(m.event)])
  /\ UNCHANGED <<runs, count, prs, archive, released, failed, faults>>

\* The newest release that is left.
Begin(w, r, v) ==
  /\ At(w, "release") /\ v \in worker[w].todo
  /\ \A x \in worker[w].todo : v >= x
  /\ Become(w, [worker[w] EXCEPT !.pc = "targets", !.run = r, !.release = v, !.left = Branches])

\* Mutant: the run is used for whatever release comes first.
ReuseRunAny(w, v) ==
  LET m == worker[w].msg IN
  /\ m.run # 0
  /\ Begin(w, m.run, v)
  /\ UNCHANGED <<runs, count, prs, archive, queue, released, failed, faults>>

\* _get_or_create_sync_release_run: the run of the message, for its release only.
ReuseRun(w, v) ==
  LET m == worker[w].msg IN
  /\ m.run # 0 /\ m.release \in {NoVersion, v}
  /\ Begin(w, m.run, v)
  /\ UNCHANGED <<runs, count, prs, archive, queue, released, failed, faults>>

\* The rows of its targets are committed one by one, before anybody else reads them; a
\* task that dies in between comes again and makes another run, as after CreateRun.
CreateRun(w, v) ==
  LET m == worker[w].msg IN
  /\ m.run = 0 \/ m.release \notin {NoVersion, v}
  /\ count < MaxRuns
  /\ count' = count + 1
  /\ runs' = [runs EXCEPT ![count + 1].release = v]
  /\ Begin(w, count + 1, v)
  /\ UNCHANGED <<prs, archive, queue, released, failed, faults>>

\* run_for_target skips a branch that has been processed.
NextTarget(w, b) ==
  /\ At(w, "targets") /\ b \in worker[w].left
  /\ IF runs[RunOf(w)].target[b] \in ToRun
     THEN /\ runs' = [runs EXCEPT ![RunOf(w)].target[b] = "running"]
          /\ Become(w, [worker[w] EXCEPT !.pc = "sync", !.branch = b])
     ELSE /\ Become(w, [worker[w] EXCEPT !.left = @ \ {b}])
          /\ UNCHANGED runs
  /\ UNCHANGED <<count, prs, archive, queue, released, failed, faults>>

\* packit_api.sync_release makes the pull request, or updates the one that the
\* branch has for the release.
SyncBranch(w) ==
  /\ At(w, "sync") /\ worker[w].release \in archive
  /\ prs' = prs \cup {<<worker[w].release, worker[w].branch>>}
  /\ Become(w, [worker[w] EXCEPT !.pc = "made"])
  /\ UNCHANGED <<runs, count, archive, queue, released, failed, faults>>

\* Back to the loop over the targets.
TargetDone(w, status) ==
  /\ Target(w, status)
  /\ Become(w, [worker[w] EXCEPT !.pc = "targets", !.left = @ \ {worker[w].branch}])
  /\ UNCHANGED <<count, prs, archive, queue, released, failed, faults>>

Submitted(w) == At(w, "made") /\ TargetDone(w, "submitted")

\* Any other exception of the branch is eaten; a release may also be skipped.
SyncFails(w) ==
  \/ At(w, "sync") /\ \E status \in {"error", "skipped"} : TargetDone(w, status)
  \/ At(w, "made") /\ TargetDone(w, "error")

\* Mutant: the task gives up without an error.
DownloadFailsQuietly(w) ==
  LET m == worker[w].msg IN
  /\ At(w, "sync") /\ worker[w].release \notin archive
  /\ queue' = IF m.retries < MaxDownloads
              THEN queue \cup {[event |-> m.event, run |-> RunOf(w),
                                release |-> worker[w].release, retries |-> m.retries + 1]}
              ELSE queue
  /\ Become(w, [worker[w] EXCEPT !.pc = "abort", !.todo = {}, !.left = Branches])
  /\ UNCHANGED <<runs, count, prs, archive, released, failed, faults>>

\* Mutant: the limit of the retries is forgotten.
DownloadFailsAlways(w) ==
  LET m == worker[w].msg IN
  /\ At(w, "sync") /\ worker[w].release \notin archive
  /\ queue' = queue \cup {[event |-> m.event, run |-> RunOf(w),
                           release |-> worker[w].release, retries |-> m.retries + 1]}
  /\ Become(w, [worker[w] EXCEPT !.pc = "abort", !.todo = {}, !.left = Branches])
  /\ UNCHANGED <<runs, count, prs, archive, released, failed, faults>>

\* PackitDownloadFailedException: the task is sent again, then AbortSyncRelease;
\* or an error, after the last retry.
DownloadFails(w) ==
  LET m == worker[w].msg IN
  /\ At(w, "sync") /\ worker[w].release \notin archive
  /\ IF m.retries < MaxDownloads
     THEN /\ queue' = queue \cup {[event |-> m.event, run |-> RunOf(w),
                                   release |-> worker[w].release, retries |-> m.retries + 1]}
          /\ Become(w, [worker[w] EXCEPT !.pc = "abort", !.todo = {}, !.left = Branches])
          /\ UNCHANGED <<runs, count, prs, archive, released, failed, faults>>
     ELSE TargetDone(w, "error")

\* All targets of the run, whatever their status, go to retry.
AbortTarget(w, b) ==
  /\ At(w, "abort") /\ b \in worker[w].left
  /\ runs' = [runs EXCEPT ![RunOf(w)].target[b] = "retry"]
  /\ Become(w, [worker[w] EXCEPT !.left = @ \ {b}])
  /\ UNCHANGED <<count, prs, archive, queue, released, failed, faults>>

FinishRun(w) ==
  /\ At(w, "targets") /\ worker[w].left = {}
  /\ runs' = [runs EXCEPT ![RunOf(w)].status =
                IF \E b \in Branches : runs[RunOf(w)].target[b] = "error"
                THEN "error" ELSE "finished"]
  /\ Become(w, [worker[w] EXCEPT !.pc = "release", !.todo = @ \ {worker[w].release}])
  /\ UNCHANGED <<count, prs, archive, queue, released, failed, faults>>

\* The task returns: after the last release, or aborted.
End(w) ==
  /\ \/ At(w, "release") /\ worker[w].todo = {}
     \/ At(w, "abort") /\ worker[w].left = {}
  /\ Become(w, Idle)
  /\ UNCHANGED <<runs, count, prs, archive, queue, released, failed, faults>>

\* An exception escapes (a report, the forge, the database).  If autoretry_for names it,
\* the task is retried with the arguments of the message; the tries for downloads count
\* as well.
Escape(w) ==
  LET m == worker[w].msg IN
  /\ ~At(w, "idle") /\ faults < MaxFaults
  /\ faults' = faults + 1
  /\ \/ /\ m.retries < MaxRetries
        /\ queue' = queue \cup {[m EXCEPT !.retries = m.retries + 1]} /\ UNCHANGED failed
     \/ failed' = failed \cup {m.event} /\ UNCHANGED queue
  /\ Become(w, Idle)
  /\ UNCHANGED <<runs, count, prs, archive, released>>

Crash(w) ==
  /\ ~At(w, "idle") /\ faults < MaxFaults
  /\ faults' = faults + 1
  /\ queue' = queue \cup {worker[w].msg}
  /\ Become(w, Idle)
  /\ UNCHANGED <<runs, count, prs, archive, released, failed>>

Work(w) ==
  \/ \E m \in queue : Take(w, m)
  \/ \E v \in worker[w].todo : ReuseRun(w, v) \/ CreateRun(w, v)
  \/ \E b \in worker[w].left : NextTarget(w, b) \/ AbortTarget(w, b)
  \/ SyncBranch(w) \/ Submitted(w) \/ SyncFails(w) \/ DownloadFails(w) \/ FinishRun(w) \/ End(w)

Next ==
  \/ \E e \in Events : Release(e)
  \/ \E v \in Versions : Upload(v)
  \/ \E w \in Workers : Work(w) \/ Escape(w) \/ Crash(w)

Spec == Init /\ [][Next]_vars
\* Celery's workers take tasks and carry on; nobody has to upload an archive.
FairSpec == Spec /\ \A w \in Workers : WF_vars(Work(w))

-----------------------------------------------------------------------------
TypeOK ==
  /\ runs \in [RunIds -> Run] /\ count \in 0..MaxRuns
  /\ prs \subseteq Versions \X Branches
  /\ archive \subseteq Versions
  /\ queue \subseteq Message
  /\ worker \in [Workers -> Worker]
  /\ \A w \in Workers : /\ ~At(w, "idle") => worker[w].msg \in Message
                        /\ At(w, "sync") \/ At(w, "made") => worker[w].branch \in Branches
  /\ released \subseteq Events /\ failed \subseteq Events
  /\ faults \in 0..MaxFaults

\* A run says of a branch that it is submitted only if the pull request of its
\* own release is there: the argument that lets a retried task continue a run
\* must not put another release of the same event into it, whatever is retried,
\* killed or run at the same time.
SubmittedHasPr ==
  \A r \in 1..count, b \in Branches :
    runs[r].target[b] = "submitted" => <<runs[r].release, b>> \in prs

\* No release of an event and no branch is forgotten: although a missing archive
\* aborts the whole task, with the releases that have not had their turn, each
\* gets a pull request, an error or a skip, unless Celery gives the task up.
\* (The target need not keep that status: the task that has sent the message of
\* the retry may set it to retry when the retried one has already ended.)
Outcome(v, b) ==
  \/ <<v, b>> \in prs
  \/ \E r \in 1..count : runs[r].release = v /\ runs[r].target[b] \in Final
EveryReleaseEnds ==
  \A e \in Events : \A v \in ReleasesToSync(e), b \in Branches :
    NewTask(e) \in queue ~> Outcome(v, b) \/ e \in failed
=============================================================================
