---------------------------- MODULE PipelineGroups ----------------------------
(***************************************************************************)
(* How pipelines (rows of PipelineModel) get their SRPM build, Copr build  *)
(* group and Testing Farm group when several Celery workers work on them   *)
(* at the same time: PipelineModel.create,                                 *)
(* SRPMBuildModel.create_with_new_run, CoprBuildGroupModel.create and      *)
(* TFTTestRunGroupModel.create of packit_service/models.py, over           *)
(* PostgreSQL at READ COMMITTED.                                           *)
(*                                                                         *)
(* One step is one statement that another session can observe or that can  *)
(* wait for a row lock.  A task can die before any step: PostgreSQL then   *)
(* rolls back what its session has not committed and frees its lock.       *)
(*                                                                         *)
(* Every call creates one group and at most one pipeline, so the id of the *)
(* calling task names both: group w is the group made by task w, pipeline  *)
(* w the clone made by task w.                                             *)
(***************************************************************************)
EXTENDS Naturals, FiniteSets

CONSTANTS SrpmRuns,     \* pipelines made by SRPMBuildModel.create_with_new_run
          PlainRuns,    \* pipelines made by PipelineModel.create alone
          CoprTasks,    \* calls of CoprBuildGroupModel.create
          TestTasks,    \* calls of TFTTestRunGroupModel.create
          NULL          \* SQL NULL, or "no value yet"

ASSUME Disjoint ==
    /\ SrpmRuns \cap PlainRuns = {}
    /\ CoprTasks \cap TestTasks = {}
    /\ (SrpmRuns \cup PlainRuns) \cap (CoprTasks \cup TestTasks) = {}
    /\ NULL \notin SrpmRuns \cup PlainRuns \cup CoprTasks \cup TestTasks

Runs      == SrpmRuns \cup PlainRuns
Tasks     == CoprTasks \cup TestTasks
Pipelines == Runs \cup Tasks

VARIABLES
    rows,    \* ids of the committed rows of the table pipelines
    pipe,    \* their committed columns: srpm_build, copr and test run group
    groups,  \* committed build and test groups
    lock,    \* the task whose open transaction has written or locked the row
    pc,      \* where each call of create() stands
    run,     \* the run_model each call was given
    ret      \* the pipeline that a finished call has left its group on

vars == <<rows, pipe, groups, lock, pc, run, ret>>

Row == [srpm : SrpmRuns \cup {NULL},
        copr : CoprTasks \cup {NULL},
        tft  : TestTasks \cup {NULL}]

Bare == [srpm |-> NULL, copr |-> NULL, tft |-> NULL]

CoprSteps == {"idle", "update", "updated", "forupdate", "clone", "link", "done", "crashed"}
TestSteps == {"idle", "update", "updated", "forupdate", "clone", "done", "crashed"}

TypeOK ==
    /\ rows \subseteq Pipelines
    /\ pipe \in [Pipelines -> Row]
    /\ groups \subseteq Tasks
    /\ lock \in [Pipelines -> Tasks \cup {NULL}]
    /\ pc \in [Tasks -> CoprSteps]
    /\ \A t \in TestTasks : pc[t] \in TestSteps
    /\ run \in [Tasks -> Pipelines \cup {NULL}]
    /\ ret \in [Tasks -> Pipelines \cup {NULL}]

Init ==
    /\ rows = {}
    /\ pipe = [p \in Pipelines |-> Bare]
    /\ groups = {}
    /\ lock = [p \in Pipelines |-> NULL]
    /\ pc = [w \in Tasks |-> "idle"]
    /\ run = [w \in Tasks |-> NULL]
    /\ ret = [w \in Tasks |-> NULL]

-----------------------------------------------------------------------------
\* PipelineModel.create commits the session, also when it is called by
\* create_with_new_run in the middle of a transaction of its own.
CreateRun(r) ==
    /\ r \notin rows
    /\ rows' = rows \cup {r}
    /\ UNCHANGED <<pipe, groups, lock, pc, run, ret>>

\* The rest of create_with_new_run: the pipeline is given its SRPM build in a
\* second transaction.  A worker that dies before it leaves the two apart.
LinkSrpm(r) ==
    /\ r \in rows
    /\ pipe[r].srpm = NULL
    /\ pipe' = [pipe EXCEPT ![r].srpm = r]
    /\ UNCHANGED <<rows, groups, lock, pc, run, ret>>

-----------------------------------------------------------------------------
Goto(w, step) == pc' = [pc EXCEPT ![w] = step]

Free(p) == lock[p] = NULL

\* Mutant: the locks outlive the transaction.
UnlockNothing(w) == UNCHANGED lock

\* What the end of w's transaction does to the row locks.
Unlock(w) == lock' = [p \in Pipelines |-> IF lock[p] = w THEN NULL ELSE lock[p]]

\* Mutant: UPDATE without "AND column IS NULL".
UpdateAlways(w, column) ==
    /\ Free(run[w])
    /\ lock' = [lock EXCEPT ![run[w]] = w]
    /\ Goto(w, "updated")

\* UPDATE pipelines SET column = w WHERE id = run[w] AND column IS NULL.
\* A row that does not match is skipped without waiting; one that matches is
\* waited for while another transaction holds it, and then looked at again.
UpdateWhereNull(w, column) ==
    \/ /\ column[run[w]] = NULL
       /\ Free(run[w])
       /\ lock' = [lock EXCEPT ![run[w]] = w]
       /\ Goto(w, "updated")
    \/ /\ column[run[w]] # NULL
       /\ UNCHANGED lock
       /\ Goto(w, "forupdate")

CoprColumn == [p \in Pipelines |-> pipe[p].copr]
TestColumn == [p \in Pipelines |-> pipe[p].tft]

-----------------------------------------------------------------------------
(* CoprBuildGroupModel.create                                              *)

\* The new group is flushed, not committed; the row of run_model is read.  The
\* session may still hold the column as it was when run_model was loaded.
CoprRead(w, r) ==
    /\ pc[w] = "idle"
    /\ r \in rows
    /\ pipe[r].srpm # NULL
    /\ run' = [run EXCEPT ![w] = r]
    /\ \E seen \in {NULL, pipe[r].copr} :
          Goto(w, IF seen # NULL THEN "clone" ELSE "update")
    /\ UNCHANGED <<rows, pipe, groups, lock, ret>>

CoprUpdate(w) ==
    /\ pc[w] = "update"
    /\ UpdateWhereNull(w, CoprColumn)
    /\ UNCHANGED <<rows, pipe, groups, run, ret>>

CoprCommit(w) ==
    /\ pc[w] = "updated"
    /\ pipe' = [pipe EXCEPT ![run[w]].copr = w]
    /\ groups' = groups \cup {w}
    /\ ret' = [ret EXCEPT ![w] = run[w]]
    /\ Unlock(w)
    /\ Goto(w, "done")
    /\ UNCHANGED <<rows, run>>

CoprLock(w) ==
    /\ pc[w] = "forupdate"
    /\ Free(run[w])
    /\ lock' = [lock EXCEPT ![run[w]] = w]
    /\ Goto(w, "clone")
    /\ UNCHANGED <<rows, pipe, groups, run, ret>>

\* _clone_pipeline_for_new_build_group calls PipelineModel.create, which
\* commits the session it shares with the caller: the new group and a pipeline
\* without SRPM build and group become visible and the row lock is gone.
CoprClone(w) ==
    /\ pc[w] = "clone"
    /\ rows' = rows \cup {w}
    /\ groups' = groups \cup {w}
    /\ Unlock(w)
    /\ Goto(w, "link")
    /\ UNCHANGED <<pipe, run, ret>>

CoprLink(w) ==
    /\ pc[w] = "link"
    /\ pipe' = [pipe EXCEPT ![w] = [srpm |-> pipe[run[w]].srpm, copr |-> w, tft |-> @.tft]]
    /\ ret' = [ret EXCEPT ![w] = w]
    /\ Goto(w, "done")
    /\ UNCHANGED <<rows, groups, lock, run>>

-----------------------------------------------------------------------------
(* TFTTestRunGroupModel.create                                             *)

\* Mutant: the new group is committed before it is on a pipeline.
TestStartCommitted(w, p) ==
    /\ pc[w] = "idle"
    /\ p \in rows
    /\ p \in PlainRuns \/ pipe[p].copr # NULL
    /\ run' = [run EXCEPT ![w] = p]
    /\ groups' = groups \cup {w}
    /\ Goto(w, "update")
    /\ UNCHANGED <<rows, pipe, lock, ret>>

\* The caller's run_model: a pipeline of the Copr build group the tests are
\* for (_get_or_create_group takes runs[-1]), or one just made for the tests.
TestStart(w, p) ==
    /\ pc[w] = "idle"
    /\ p \in rows
    /\ p \in PlainRuns \/ pipe[p].copr # NULL
    /\ run' = [run EXCEPT ![w] = p]
    /\ Goto(w, "update")
    /\ UNCHANGED <<rows, pipe, groups, lock, ret>>

TestUpdate(w) ==
    /\ pc[w] = "update"
    /\ UpdateWhereNull(w, TestColumn)
    /\ UNCHANGED <<rows, pipe, groups, run, ret>>

TestCommit(w) ==
    /\ pc[w] = "updated"
    /\ pipe' = [pipe EXCEPT ![run[w]].tft = w]
    /\ groups' = groups \cup {w}
    /\ ret' = [ret EXCEPT ![w] = run[w]]
    /\ Unlock(w)
    /\ Goto(w, "done")
    /\ UNCHANGED <<rows, run>>

TestLock(w) ==
    /\ pc[w] = "forupdate"
    /\ Free(run[w])
    /\ lock' = [lock EXCEPT ![run[w]] = w]
    /\ Goto(w, "clone")
    /\ UNCHANGED <<rows, pipe, groups, run, ret>>

\* Mutant: the clone keeps the test group of the pipeline it copies.
TestCloneSameGroup(w) ==
    /\ pc[w] = "clone"
    /\ rows' = rows \cup {w}
    /\ pipe' = [pipe EXCEPT ![w] = pipe[run[w]]]
    /\ groups' = groups \cup {w}
    /\ ret' = [ret EXCEPT ![w] = w]
    /\ Unlock(w)
    /\ Goto(w, "done")
    /\ UNCHANGED run

\* Mutant: the clone gets no SRPM build.
TestCloneNoSrpm(w) ==
    /\ pc[w] = "clone"
    /\ rows' = rows \cup {w}
    /\ pipe' = [pipe EXCEPT ![w] = [srpm |-> NULL, copr |-> pipe[run[w]].copr, tft |-> w]]
    /\ groups' = groups \cup {w}
    /\ ret' = [ret EXCEPT ![w] = w]
    /\ Unlock(w)
    /\ Goto(w, "done")
    /\ UNCHANGED run

\* The clone takes SRPM build and Copr group from the locked row, and is
\* committed together with the new group.
TestClone(w) ==
    /\ pc[w] = "clone"
    /\ rows' = rows \cup {w}
    /\ pipe' = [pipe EXCEPT ![w] = [pipe[run[w]] EXCEPT !.tft = w]]
    /\ groups' = groups \cup {w}
    /\ ret' = [ret EXCEPT ![w] = w]
    /\ Unlock(w)
    /\ Goto(w, "done")
    /\ UNCHANGED run

-----------------------------------------------------------------------------
\* The worker is killed: PostgreSQL rolls back what is not committed.
Crash(w) ==
    /\ pc[w] \notin {"idle", "done", "crashed"}
    /\ Unlock(w)
    /\ Goto(w, "crashed")
    /\ UNCHANGED <<rows, pipe, groups, run, ret>>

CoprStep(w) ==
    \/ CoprUpdate(w) \/ CoprCommit(w) \/ CoprLock(w) \/ CoprClone(w) \/ CoprLink(w)

TestStep(w) ==
    TestUpdate(w) \/ TestCommit(w) \/ TestLock(w) \/ TestClone(w)

Next ==
    \/ \E r \in Runs : CreateRun(r)
    \/ \E r \in SrpmRuns : LinkSrpm(r)
    \/ \E w \in CoprTasks, r \in SrpmRuns : CoprRead(w, r)
    \/ \E w \in CoprTasks : CoprStep(w)
    \/ \E w \in TestTasks, p \in Pipelines : TestStart(w, p)
    \/ \E w \in TestTasks : TestStep(w)
    \/ \E w \in Tasks : Crash(w)

Spec == Init /\ [][Next]_vars

\* A worker that runs a call keeps running it until it returns or dies.
Fairness ==
    /\ \A w \in CoprTasks : WF_vars(CoprStep(w))
    /\ \A w \in TestTasks : WF_vars(TestStep(w))

FairSpec == Spec /\ Fairness

-----------------------------------------------------------------------------
(* Properties                                                              *)

\* A call of CoprBuildGroupModel.create or TFTTestRunGroupModel.create that
\* returned has its group on the pipeline it left it on: no concurrent call
\* took the pipeline away or overwrote the column.
GroupKept ==
    \A w \in Tasks :
        pc[w] = "done" =>
            /\ ret[w] \in rows
            /\ w \in CoprTasks => pipe[ret[w]].copr = w
            /\ w \in TestTasks => pipe[ret[w]].tft = w

\* Each test group is on one pipeline only, and each Copr group on one only
\* besides the clones that test groups made of it.
GroupOnOnePipeline ==
    \A p, q \in rows :
        /\ pipe[p].tft # NULL /\ pipe[p].tft = pipe[q].tft => p = q
        /\ p \notin TestTasks /\ q \notin TestTasks
             /\ pipe[p].copr # NULL /\ pipe[p].copr = pipe[q].copr => p = q

\* All pipelines of a Copr build group have the same SRPM build: what
\* CoprBuildTargetModel.get_srpm_build relies on when it takes runs[0].
SameSrpm ==
    \A p, q \in rows :
        pipe[p].copr # NULL /\ pipe[p].copr = pipe[q].copr => pipe[p].srpm = pipe[q].srpm

\* A committed test group is always on a pipeline, whenever workers die.
NoOrphanTestGroup ==
    \A w \in groups \cap TestTasks : \E p \in rows : pipe[p].tft = w

\* The SRPM build and the groups of a pipeline never change once they are set.
WriteOnce ==
    [][\A p \in Pipelines :
         /\ pipe[p].srpm # NULL => pipe'[p].srpm = pipe[p].srpm
         /\ pipe[p].copr # NULL => pipe'[p].copr = pipe[p].copr
         /\ pipe[p].tft # NULL => pipe'[p].tft = pipe[p].tft]_vars

\* Row locks are not waited for in a circle: every call returns or dies.
CallsReturn ==
    \A w \in Tasks : pc[w] = "update" ~> pc[w] \in {"done", "crashed"}

\* What this module implements: see GroupPerPipeline.
CarriedBy(w) ==
    {p \in rows : \/ w \in TestTasks /\ pipe[p].tft = w
                  \/ w \in CoprTasks /\ pipe[p].copr = w /\ p \notin TestTasks}

Abstract == INSTANCE GroupPerPipeline WITH
    BuildCalls <- CoprTasks,
    TestCalls  <- TestTasks,
    attached   <- [w \in Tasks |->
                     IF CarriedBy(w) = {} THEN NULL
                     ELSE CHOOSE p \in CarriedBy(w) : TRUE]

\* Concurrent, dying callers implement the abstract one-group-per-pipeline rule.
ImplementsAbstract == Abstract!Spec
=============================================================================
