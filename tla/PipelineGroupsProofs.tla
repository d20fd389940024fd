------------------------- MODULE PipelineGroupsProofs -------------------------
(***************************************************************************)
(* Proofs about PipelineGroups, for any sets of pipelines and tasks.       *)
(*                                                                         *)
(* GroupKept is not inductive: a task between its UPDATE and its commit    *)
(* must know that nobody else can write the column (Held), and the value   *)
(* of a column must lead back to the finished call that wrote it (Owned).  *)
(***************************************************************************)
EXTENDS PipelineGroups, TLAPS

\* A pipeline that has no row yet has no values either.
NoRowNoValue == \A p \in Pipelines : p \notin rows => pipe[p] = Bare

\* The row that is the clone of a task is there only after it was inserted.
CloneInserted ==
    /\ \A w \in CoprTasks : w \in rows => pc[w] \in {"link", "done", "crashed"}
    /\ \A w \in CoprTasks : pc[w] = "link" => w \in rows /\ pipe[w] = Bare
    /\ \A w \in TestTasks : w \in rows => pc[w] = "done"

\* What the run_model of a call looks like once the call has started.
RunReady ==
    /\ \A w \in CoprTasks :
          pc[w] # "idle" => run[w] \in SrpmRuns \cap rows /\ pipe[run[w]].srpm = run[w]
    /\ \A w \in TestTasks :
          pc[w] # "idle" => /\ run[w] \in rows
                            /\ run[w] \in PlainRuns \/ pipe[run[w]].copr # NULL

\* Only SRPM runs and clones have an SRPM build.
SrpmOfRun ==
    /\ \A r \in SrpmRuns : pipe[r].srpm \in {NULL, r}
    /\ \A r \in PlainRuns : pipe[r].srpm = NULL /\ pipe[r].copr = NULL

\* After its UPDATE a task holds the row, whose column is still NULL.
Held ==
    \A w \in Tasks :
        pc[w] = "updated" =>
            /\ lock[run[w]] = w
            /\ w \in CoprTasks => pipe[run[w]].copr = NULL
            /\ w \in TestTasks => pipe[run[w]].tft = NULL

\* A column that is set leads back to the finished call that made the group.
Owned ==
    \A p \in Pipelines :
        /\ pipe[p].copr # NULL =>
              /\ pc[pipe[p].copr] = "done"
              /\ p \notin TestTasks => ret[pipe[p].copr] = p
              /\ pipe[p].srpm = run[pipe[p].copr]
        /\ pipe[p].tft # NULL =>
              /\ pc[pipe[p].tft] = "done"
              /\ ret[pipe[p].tft] = p

\* A test group is committed by the last step of its call only.
TestGroupsDone == \A w \in groups \cap TestTasks : pc[w] = "done"

\* The pipeline that a Copr call returns is never a clone made for tests.
CoprReturns == \A w \in CoprTasks : pc[w] = "done" => ret[w] \notin TestTasks

IInv == /\ TypeOK /\ NoRowNoValue /\ CloneInserted /\ RunReady /\ SrpmOfRun
        /\ Held /\ Owned /\ TestGroupsDone /\ CoprReturns /\ GroupKept

-----------------------------------------------------------------------------
USE DEF Runs, Tasks, Pipelines

\* Every step keeps the variables in their types.
LEMMA TypeStep == TypeOK /\ RunReady /\ [Next]_vars => TypeOK'
<1> SUFFICES ASSUME TypeOK, RunReady, [Next]_vars PROVE TypeOK'
  OBVIOUS
<1>0. \A w \in Tasks : pc[w] # "idle" => run[w] \in Pipelines
  BY DEF RunReady, TypeOK
<1> USE Disjoint DEF TypeOK, Row, Goto, Unlock, Free, CoprSteps, TestSteps
<1>1. ASSUME NEW r \in Runs, CreateRun(r) PROVE TypeOK'
  BY <1>1 DEF CreateRun
<1>2. ASSUME NEW r \in SrpmRuns, LinkSrpm(r) PROVE TypeOK'
  BY <1>2 DEF LinkSrpm
<1>3. ASSUME NEW w \in CoprTasks, NEW r \in SrpmRuns, CoprRead(w, r) PROVE TypeOK'
  BY <1>3 DEF CoprRead
<1>4. ASSUME NEW w \in CoprTasks, CoprUpdate(w) PROVE TypeOK'
  BY <1>4 DEF CoprUpdate, UpdateWhereNull
<1>5. ASSUME NEW w \in CoprTasks, CoprCommit(w) PROVE TypeOK'
  BY <1>0, <1>5 DEF CoprCommit
<1>6. ASSUME NEW w \in CoprTasks, CoprLock(w) PROVE TypeOK'
  BY <1>6 DEF CoprLock
<1>7. ASSUME NEW w \in CoprTasks, CoprClone(w) PROVE TypeOK'
  BY <1>7 DEF CoprClone
<1>8. ASSUME NEW w \in CoprTasks, CoprLink(w) PROVE TypeOK'
  BY <1>0, <1>8 DEF CoprLink
<1>9. ASSUME NEW w \in TestTasks, NEW p \in Pipelines, TestStart(w, p) PROVE TypeOK'
  BY <1>9 DEF TestStart
<1>10. ASSUME NEW w \in TestTasks, TestUpdate(w) PROVE TypeOK'
  BY <1>10 DEF TestUpdate, UpdateWhereNull
<1>11. ASSUME NEW w \in TestTasks, TestCommit(w) PROVE TypeOK'
  BY <1>0, <1>11 DEF TestCommit
<1>12. ASSUME NEW w \in TestTasks, TestLock(w) PROVE TypeOK'
  BY <1>12 DEF TestLock
<1>13. ASSUME NEW w \in TestTasks, TestClone(w) PROVE TypeOK'
  BY <1>0, <1>13 DEF TestClone
<1>14. ASSUME NEW w \in Tasks, Crash(w) PROVE TypeOK'
  BY <1>14 DEF Crash
<1>15. CASE UNCHANGED vars
  BY <1>15 DEF vars
<1> QED
  BY <1>1, <1>2, <1>3, <1>4, <1>5, <1>6, <1>7, <1>8, <1>9, <1>10,
     <1>11, <1>12, <1>13, <1>14, <1>15 DEF Next, CoprStep, TestStep

\* A row without pipeline has no values: writes go to rows that are there.
LEMMA NoRowStep ==
    ASSUME TypeOK, NoRowNoValue, RunReady, CloneInserted, [Next]_vars
    PROVE  NoRowNoValue'
<1> USE Disjoint DEF TypeOK, NoRowNoValue, RunReady, CloneInserted, Row, Bare,
     Goto, Unlock, Free, CoprSteps, TestSteps
<1>1. ASSUME NEW r \in Runs, CreateRun(r) PROVE NoRowNoValue'
  BY <1>1 DEF CreateRun
<1>2. ASSUME NEW r \in SrpmRuns, LinkSrpm(r) PROVE NoRowNoValue'
  BY <1>2 DEF LinkSrpm
<1>3. ASSUME NEW w \in CoprTasks, NEW r \in SrpmRuns, CoprRead(w, r) PROVE NoRowNoValue'
  BY <1>3 DEF CoprRead
<1>4. ASSUME NEW w \in CoprTasks, CoprUpdate(w) PROVE NoRowNoValue'
  BY <1>4 DEF CoprUpdate, UpdateWhereNull
<1>5. ASSUME NEW w \in CoprTasks, CoprCommit(w) PROVE NoRowNoValue'
  BY <1>5 DEF CoprCommit
<1>6. ASSUME NEW w \in CoprTasks, CoprLock(w) PROVE NoRowNoValue'
  BY <1>6 DEF CoprLock
<1>7. ASSUME NEW w \in CoprTasks, CoprClone(w) PROVE NoRowNoValue'
  BY <1>7 DEF CoprClone
<1>8. ASSUME NEW w \in CoprTasks, CoprLink(w) PROVE NoRowNoValue'
  BY <1>8 DEF CoprLink
<1>9. ASSUME NEW w \in TestTasks, NEW p \in Pipelines, TestStart(w, p) PROVE NoRowNoValue'
  BY <1>9 DEF TestStart
<1>10. ASSUME NEW w \in TestTasks, TestUpdate(w) PROVE NoRowNoValue'
  BY <1>10 DEF TestUpdate, UpdateWhereNull
<1>11. ASSUME NEW w \in TestTasks, TestCommit(w) PROVE NoRowNoValue'
  BY <1>11 DEF TestCommit
<1>12. ASSUME NEW w \in TestTasks, TestLock(w) PROVE NoRowNoValue'
  BY <1>12 DEF TestLock
<1>13. ASSUME NEW w \in TestTasks, TestClone(w) PROVE NoRowNoValue'
  BY <1>13 DEF TestClone
<1>14. ASSUME NEW w \in Tasks, Crash(w) PROVE NoRowNoValue'
  BY <1>14 DEF Crash
<1>15. CASE UNCHANGED vars
  BY <1>15 DEF vars
<1> QED
  BY <1>1, <1>2, <1>3, <1>4, <1>5, <1>6, <1>7, <1>8, <1>9, <1>10,
     <1>11, <1>12, <1>13, <1>14, <1>15 DEF Next, CoprStep, TestStep

\* A clone's row is only there once its task has inserted it.
LEMMA CloneStep ==
    ASSUME TypeOK, CloneInserted, RunReady, NoRowNoValue, [Next]_vars
    PROVE  CloneInserted'
<1> USE Disjoint DEF TypeOK, CloneInserted, RunReady, NoRowNoValue, Row, Bare,
     Goto, Unlock, Free, CoprSteps, TestSteps
<1>1. ASSUME NEW r \in Runs, CreateRun(r) PROVE CloneInserted'
  BY <1>1 DEF CreateRun
<1>2. ASSUME NEW r \in SrpmRuns, LinkSrpm(r) PROVE CloneInserted'
  BY <1>2 DEF LinkSrpm
<1>3. ASSUME NEW w \in CoprTasks, NEW r \in SrpmRuns, CoprRead(w, r) PROVE CloneInserted'
  BY <1>3 DEF CoprRead
<1>4. ASSUME NEW w \in CoprTasks, CoprUpdate(w) PROVE CloneInserted'
  BY <1>4 DEF CoprUpdate, UpdateWhereNull
<1>5. ASSUME NEW w \in CoprTasks, CoprCommit(w) PROVE CloneInserted'
  BY <1>5 DEF CoprCommit
<1>6. ASSUME NEW w \in CoprTasks, CoprLock(w) PROVE CloneInserted'
  BY <1>6 DEF CoprLock
<1>7. ASSUME NEW w \in CoprTasks, CoprClone(w) PROVE CloneInserted'
  BY <1>7 DEF CoprClone
<1>8. ASSUME NEW w \in CoprTasks, CoprLink(w) PROVE CloneInserted'
  BY <1>8 DEF CoprLink
<1>9. ASSUME NEW w \in TestTasks, NEW p \in Pipelines, TestStart(w, p) PROVE CloneInserted'
  BY <1>9 DEF TestStart
<1>10. ASSUME NEW w \in TestTasks, TestUpdate(w) PROVE CloneInserted'
  BY <1>10 DEF TestUpdate, UpdateWhereNull
<1>11. ASSUME NEW w \in TestTasks, TestCommit(w) PROVE CloneInserted'
  BY <1>11 DEF TestCommit
<1>12. ASSUME NEW w \in TestTasks, TestLock(w) PROVE CloneInserted'
  BY <1>12 DEF TestLock
<1>13. ASSUME NEW w \in TestTasks, TestClone(w) PROVE CloneInserted'
  BY <1>13 DEF TestClone
<1>14. ASSUME NEW w \in Tasks, Crash(w) PROVE CloneInserted'
  BY <1>14 DEF Crash
<1>15. CASE UNCHANGED vars
  BY <1>15 DEF vars
<1> QED
  BY <1>1, <1>2, <1>3, <1>4, <1>5, <1>6, <1>7, <1>8, <1>9, <1>10,
     <1>11, <1>12, <1>13, <1>14, <1>15 DEF Next, CoprStep, TestStep

\* A call's run_model stays as the call found it, or better.
LEMMA RunReadyStep ==
    ASSUME TypeOK, RunReady, SrpmOfRun, CloneInserted, [Next]_vars
    PROVE  RunReady'
<1> USE Disjoint DEF TypeOK, RunReady, SrpmOfRun, CloneInserted, Row, Goto, Unlock,
     Free, CoprSteps, TestSteps
<1>1. ASSUME NEW r \in Runs, CreateRun(r) PROVE RunReady'
  BY <1>1 DEF CreateRun
<1>2. ASSUME NEW r \in SrpmRuns, LinkSrpm(r) PROVE RunReady'
  BY <1>2 DEF LinkSrpm
<1>3. ASSUME NEW w \in CoprTasks, NEW r \in SrpmRuns, CoprRead(w, r) PROVE RunReady'
  BY <1>3 DEF CoprRead
<1>4. ASSUME NEW w \in CoprTasks, CoprUpdate(w) PROVE RunReady'
  BY <1>4 DEF CoprUpdate, UpdateWhereNull
<1>5. ASSUME NEW w \in CoprTasks, CoprCommit(w) PROVE RunReady'
  BY <1>5 DEF CoprCommit
<1>6. ASSUME NEW w \in CoprTasks, CoprLock(w) PROVE RunReady'
  BY <1>6 DEF CoprLock
<1>7. ASSUME NEW w \in CoprTasks, CoprClone(w) PROVE RunReady'
  BY <1>7 DEF CoprClone
<1>8. ASSUME NEW w \in CoprTasks, CoprLink(w) PROVE RunReady'
  BY <1>8 DEF CoprLink
<1>9. ASSUME NEW w \in TestTasks, NEW p \in Pipelines, TestStart(w, p) PROVE RunReady'
  BY <1>9 DEF TestStart
<1>10. ASSUME NEW w \in TestTasks, TestUpdate(w) PROVE RunReady'
  BY <1>10 DEF TestUpdate, UpdateWhereNull
<1>11. ASSUME NEW w \in TestTasks, TestCommit(w) PROVE RunReady'
  BY <1>11 DEF TestCommit
<1>12. ASSUME NEW w \in TestTasks, TestLock(w) PROVE RunReady'
  BY <1>12 DEF TestLock
<1>13. ASSUME NEW w \in TestTasks, TestClone(w) PROVE RunReady'
  BY <1>13 DEF TestClone
<1>14. ASSUME NEW w \in Tasks, Crash(w) PROVE RunReady'
  BY <1>14 DEF Crash
<1>15. CASE UNCHANGED vars
  BY <1>15 DEF vars
<1> QED
  BY <1>1, <1>2, <1>3, <1>4, <1>5, <1>6, <1>7, <1>8, <1>9, <1>10,
     <1>11, <1>12, <1>13, <1>14, <1>15 DEF Next, CoprStep, TestStep

\* Runs keep the SRPM build they were created with.
LEMMA SrpmStep ==
    ASSUME TypeOK, SrpmOfRun, RunReady, [Next]_vars
    PROVE  SrpmOfRun'
<1> USE Disjoint DEF TypeOK, SrpmOfRun, RunReady, Row, Goto, Unlock, Free,
     CoprSteps, TestSteps
<1>1. ASSUME NEW r \in Runs, CreateRun(r) PROVE SrpmOfRun'
  BY <1>1 DEF CreateRun
<1>2. ASSUME NEW r \in SrpmRuns, LinkSrpm(r) PROVE SrpmOfRun'
  BY <1>2 DEF LinkSrpm
<1>3. ASSUME NEW w \in CoprTasks, NEW r \in SrpmRuns, CoprRead(w, r) PROVE SrpmOfRun'
  BY <1>3 DEF CoprRead
<1>4. ASSUME NEW w \in CoprTasks, CoprUpdate(w) PROVE SrpmOfRun'
  BY <1>4 DEF CoprUpdate, UpdateWhereNull
<1>5. ASSUME NEW w \in CoprTasks, CoprCommit(w) PROVE SrpmOfRun'
  BY <1>5 DEF CoprCommit
<1>6. ASSUME NEW w \in CoprTasks, CoprLock(w) PROVE SrpmOfRun'
  BY <1>6 DEF CoprLock
<1>7. ASSUME NEW w \in CoprTasks, CoprClone(w) PROVE SrpmOfRun'
  BY <1>7 DEF CoprClone
<1>8. ASSUME NEW w \in CoprTasks, CoprLink(w) PROVE SrpmOfRun'
  BY <1>8 DEF CoprLink
<1>9. ASSUME NEW w \in TestTasks, NEW p \in Pipelines, TestStart(w, p) PROVE SrpmOfRun'
  BY <1>9 DEF TestStart
<1>10. ASSUME NEW w \in TestTasks, TestUpdate(w) PROVE SrpmOfRun'
  BY <1>10 DEF TestUpdate, UpdateWhereNull
<1>11. ASSUME NEW w \in TestTasks, TestCommit(w) PROVE SrpmOfRun'
  BY <1>11 DEF TestCommit
<1>12. ASSUME NEW w \in TestTasks, TestLock(w) PROVE SrpmOfRun'
  BY <1>12 DEF TestLock
<1>13. ASSUME NEW w \in TestTasks, TestClone(w) PROVE SrpmOfRun'
  BY <1>13 DEF TestClone
<1>14. ASSUME NEW w \in Tasks, Crash(w) PROVE SrpmOfRun'
  BY <1>14 DEF Crash
<1>15. CASE UNCHANGED vars
  BY <1>15 DEF vars
<1> QED
  BY <1>1, <1>2, <1>3, <1>4, <1>5, <1>6, <1>7, <1>8, <1>9, <1>10,
     <1>11, <1>12, <1>13, <1>14, <1>15 DEF Next, CoprStep, TestStep

\* Nobody writes the column of a row that an open transaction holds.
LEMMA HeldStep ==
    ASSUME TypeOK, Held, RunReady, CloneInserted, [Next]_vars
    PROVE  Held'
<1> USE Disjoint DEF TypeOK, Held, RunReady, CloneInserted, Row, Goto, Unlock,
     Free, CoprSteps, TestSteps
<1>1. ASSUME NEW r \in Runs, CreateRun(r) PROVE Held'
  BY <1>1 DEF CreateRun
<1>2. ASSUME NEW r \in SrpmRuns, LinkSrpm(r) PROVE Held'
  BY <1>2 DEF LinkSrpm
<1>3. ASSUME NEW w \in CoprTasks, NEW r \in SrpmRuns, CoprRead(w, r) PROVE Held'
  BY <1>3 DEF CoprRead
<1>4. ASSUME NEW w \in CoprTasks, CoprUpdate(w) PROVE Held'
  BY <1>4 DEF CoprUpdate, UpdateWhereNull, CoprColumn, TestColumn
<1>5. ASSUME NEW w \in CoprTasks, CoprCommit(w) PROVE Held'
  BY <1>5 DEF CoprCommit
<1>6. ASSUME NEW w \in CoprTasks, CoprLock(w) PROVE Held'
  BY <1>6 DEF CoprLock
<1>7. ASSUME NEW w \in CoprTasks, CoprClone(w) PROVE Held'
  BY <1>7 DEF CoprClone
<1>8. ASSUME NEW w \in CoprTasks, CoprLink(w) PROVE Held'
  BY <1>8 DEF CoprLink
<1>9. ASSUME NEW w \in TestTasks, NEW p \in Pipelines, TestStart(w, p) PROVE Held'
  BY <1>9 DEF TestStart
<1>10. ASSUME NEW w \in TestTasks, TestUpdate(w) PROVE Held'
  BY <1>10 DEF TestUpdate, UpdateWhereNull, CoprColumn, TestColumn
<1>11. ASSUME NEW w \in TestTasks, TestCommit(w) PROVE Held'
  BY <1>11 DEF TestCommit
<1>12. ASSUME NEW w \in TestTasks, TestLock(w) PROVE Held'
  BY <1>12 DEF TestLock
<1>13. ASSUME NEW w \in TestTasks, TestClone(w) PROVE Held'
  BY <1>13 DEF TestClone
<1>14. ASSUME NEW w \in Tasks, Crash(w) PROVE Held'
  BY <1>14 DEF Crash
<1>15. CASE UNCHANGED vars
  BY <1>15 DEF vars
<1> QED
  BY <1>1, <1>2, <1>3, <1>4, <1>5, <1>6, <1>7, <1>8, <1>9, <1>10,
     <1>11, <1>12, <1>13, <1>14, <1>15 DEF Next, CoprStep, TestStep

\* A column is only written by the call whose group it names.
LEMMA OwnedStep ==
    ASSUME TypeOK, Owned, RunReady, CloneInserted, Held, SrpmOfRun, NoRowNoValue, [Next]_vars
    PROVE  Owned'
<1> USE Disjoint DEF TypeOK, Owned, RunReady, CloneInserted, Held, SrpmOfRun,
     NoRowNoValue, Row, Bare, Goto, Unlock, Free, CoprSteps, TestSteps
<1>1. ASSUME NEW r \in Runs, CreateRun(r) PROVE Owned'
  BY <1>1 DEF CreateRun
<1>2. ASSUME NEW r \in SrpmRuns, LinkSrpm(r) PROVE Owned'
  BY <1>2 DEF LinkSrpm
<1>3. ASSUME NEW w \in CoprTasks, NEW r \in SrpmRuns, CoprRead(w, r) PROVE Owned'
  BY <1>3 DEF CoprRead
<1>4. ASSUME NEW w \in CoprTasks, CoprUpdate(w) PROVE Owned'
  BY <1>4 DEF CoprUpdate, UpdateWhereNull
<1>5. ASSUME NEW w \in CoprTasks, CoprCommit(w) PROVE Owned'
  BY <1>5 DEF CoprCommit
<1>6. ASSUME NEW w \in CoprTasks, CoprLock(w) PROVE Owned'
  BY <1>6 DEF CoprLock
<1>7. ASSUME NEW w \in CoprTasks, CoprClone(w) PROVE Owned'
  BY <1>7 DEF CoprClone
<1>8. ASSUME NEW w \in CoprTasks, CoprLink(w) PROVE Owned'
  BY <1>8 DEF CoprLink
<1>9. ASSUME NEW w \in TestTasks, NEW p \in Pipelines, TestStart(w, p) PROVE Owned'
  BY <1>9 DEF TestStart
<1>10. ASSUME NEW w \in TestTasks, TestUpdate(w) PROVE Owned'
  BY <1>10 DEF TestUpdate, UpdateWhereNull
<1>11. ASSUME NEW w \in TestTasks, TestCommit(w) PROVE Owned'
  BY <1>11 DEF TestCommit
<1>12. ASSUME NEW w \in TestTasks, TestLock(w) PROVE Owned'
  BY <1>12 DEF TestLock
<1>13. ASSUME NEW w \in TestTasks, TestClone(w) PROVE Owned'
  BY <1>13 DEF TestClone
<1>14. ASSUME NEW w \in Tasks, Crash(w) PROVE Owned'
  BY <1>14 DEF Crash
<1>15. CASE UNCHANGED vars
  BY <1>15 DEF vars
<1> QED
  BY <1>1, <1>2, <1>3, <1>4, <1>5, <1>6, <1>7, <1>8, <1>9, <1>10,
     <1>11, <1>12, <1>13, <1>14, <1>15 DEF Next, CoprStep, TestStep

\* Test groups are committed by finished calls.
LEMMA GroupsDoneStep ==
    ASSUME TypeOK, TestGroupsDone, [Next]_vars
    PROVE  TestGroupsDone'
<1> USE Disjoint DEF TypeOK, TestGroupsDone, Row, Goto, Unlock, Free, CoprSteps, TestSteps
<1>1. ASSUME NEW r \in Runs, CreateRun(r) PROVE TestGroupsDone'
  BY <1>1 DEF CreateRun
<1>2. ASSUME NEW r \in SrpmRuns, LinkSrpm(r) PROVE TestGroupsDone'
  BY <1>2 DEF LinkSrpm
<1>3. ASSUME NEW w \in CoprTasks, NEW r \in SrpmRuns, CoprRead(w, r) PROVE TestGroupsDone'
  BY <1>3 DEF CoprRead
<1>4. ASSUME NEW w \in CoprTasks, CoprUpdate(w) PROVE TestGroupsDone'
  BY <1>4 DEF CoprUpdate, UpdateWhereNull
<1>5. ASSUME NEW w \in CoprTasks, CoprCommit(w) PROVE TestGroupsDone'
  BY <1>5 DEF CoprCommit
<1>6. ASSUME NEW w \in CoprTasks, CoprLock(w) PROVE TestGroupsDone'
  BY <1>6 DEF CoprLock
<1>7. ASSUME NEW w \in CoprTasks, CoprClone(w) PROVE TestGroupsDone'
  BY <1>7 DEF CoprClone
<1>8. ASSUME NEW w \in CoprTasks, CoprLink(w) PROVE TestGroupsDone'
  BY <1>8 DEF CoprLink
<1>9. ASSUME NEW w \in TestTasks, NEW p \in Pipelines, TestStart(w, p) PROVE TestGroupsDone'
  BY <1>9 DEF TestStart
<1>10. ASSUME NEW w \in TestTasks, TestUpdate(w) PROVE TestGroupsDone'
  BY <1>10 DEF TestUpdate, UpdateWhereNull
<1>11. ASSUME NEW w \in TestTasks, TestCommit(w) PROVE TestGroupsDone'
  BY <1>11 DEF TestCommit
<1>12. ASSUME NEW w \in TestTasks, TestLock(w) PROVE TestGroupsDone'
  BY <1>12 DEF TestLock
<1>13. ASSUME NEW w \in TestTasks, TestClone(w) PROVE TestGroupsDone'
  BY <1>13 DEF TestClone
<1>14. ASSUME NEW w \in Tasks, Crash(w) PROVE TestGroupsDone'
  BY <1>14 DEF Crash
<1>15. CASE UNCHANGED vars
  BY <1>15 DEF vars
<1> QED
  BY <1>1, <1>2, <1>3, <1>4, <1>5, <1>6, <1>7, <1>8, <1>9, <1>10,
     <1>11, <1>12, <1>13, <1>14, <1>15 DEF Next, CoprStep, TestStep

\* Copr calls return a run or a clone of their own kind.
LEMMA ReturnsStep ==
    ASSUME TypeOK, CoprReturns, RunReady, [Next]_vars
    PROVE  CoprReturns'
<1> USE Disjoint DEF TypeOK, CoprReturns, RunReady, Row, Goto, Unlock, Free,
     CoprSteps, TestSteps
<1>1. ASSUME NEW r \in Runs, CreateRun(r) PROVE CoprReturns'
  BY <1>1 DEF CreateRun
<1>2. ASSUME NEW r \in SrpmRuns, LinkSrpm(r) PROVE CoprReturns'
  BY <1>2 DEF LinkSrpm
<1>3. ASSUME NEW w \in CoprTasks, NEW r \in SrpmRuns, CoprRead(w, r) PROVE CoprReturns'
  BY <1>3 DEF CoprRead
<1>4. ASSUME NEW w \in CoprTasks, CoprUpdate(w) PROVE CoprReturns'
  BY <1>4 DEF CoprUpdate, UpdateWhereNull
<1>5. ASSUME NEW w \in CoprTasks, CoprCommit(w) PROVE CoprReturns'
  BY <1>5 DEF CoprCommit
<1>6. ASSUME NEW w \in CoprTasks, CoprLock(w) PROVE CoprReturns'
  BY <1>6 DEF CoprLock
<1>7. ASSUME NEW w \in CoprTasks, CoprClone(w) PROVE CoprReturns'
  BY <1>7 DEF CoprClone
<1>8. ASSUME NEW w \in CoprTasks, CoprLink(w) PROVE CoprReturns'
  BY <1>8 DEF CoprLink
<1>9. ASSUME NEW w \in TestTasks, NEW p \in Pipelines, TestStart(w, p) PROVE CoprReturns'
  BY <1>9 DEF TestStart
<1>10. ASSUME NEW w \in TestTasks, TestUpdate(w) PROVE CoprReturns'
  BY <1>10 DEF TestUpdate, UpdateWhereNull
<1>11. ASSUME NEW w \in TestTasks, TestCommit(w) PROVE CoprReturns'
  BY <1>11 DEF TestCommit
<1>12. ASSUME NEW w \in TestTasks, TestLock(w) PROVE CoprReturns'
  BY <1>12 DEF TestLock
<1>13. ASSUME NEW w \in TestTasks, TestClone(w) PROVE CoprReturns'
  BY <1>13 DEF TestClone
<1>14. ASSUME NEW w \in Tasks, Crash(w) PROVE CoprReturns'
  BY <1>14 DEF Crash
<1>15. CASE UNCHANGED vars
  BY <1>15 DEF vars
<1> QED
  BY <1>1, <1>2, <1>3, <1>4, <1>5, <1>6, <1>7, <1>8, <1>9, <1>10,
     <1>11, <1>12, <1>13, <1>14, <1>15 DEF Next, CoprStep, TestStep

\* What a finished call left on its pipeline is still there.
LEMMA KeptStep ==
    ASSUME TypeOK, GroupKept, RunReady, CloneInserted, Held, NoRowNoValue, [Next]_vars
    PROVE  GroupKept'
<1> USE Disjoint DEF TypeOK, GroupKept, RunReady, CloneInserted, Held,
     NoRowNoValue, Row, Bare, Goto, Unlock, Free, CoprSteps, TestSteps
<1>1. ASSUME NEW r \in Runs, CreateRun(r) PROVE GroupKept'
  BY <1>1 DEF CreateRun
<1>2. ASSUME NEW r \in SrpmRuns, LinkSrpm(r) PROVE GroupKept'
  BY <1>2 DEF LinkSrpm
<1>3. ASSUME NEW w \in CoprTasks, NEW r \in SrpmRuns, CoprRead(w, r) PROVE GroupKept'
  BY <1>3 DEF CoprRead
<1>4. ASSUME NEW w \in CoprTasks, CoprUpdate(w) PROVE GroupKept'
  BY <1>4 DEF CoprUpdate, UpdateWhereNull
<1>5. ASSUME NEW w \in CoprTasks, CoprCommit(w) PROVE GroupKept'
  BY <1>5 DEF CoprCommit
<1>6. ASSUME NEW w \in CoprTasks, CoprLock(w) PROVE GroupKept'
  BY <1>6 DEF CoprLock
<1>7. ASSUME NEW w \in CoprTasks, CoprClone(w) PROVE GroupKept'
  BY <1>7 DEF CoprClone
<1>8. ASSUME NEW w \in CoprTasks, CoprLink(w) PROVE GroupKept'
  BY <1>8 DEF CoprLink
<1>9. ASSUME NEW w \in TestTasks, NEW p \in Pipelines, TestStart(w, p) PROVE GroupKept'
  BY <1>9 DEF TestStart
<1>10. ASSUME NEW w \in TestTasks, TestUpdate(w) PROVE GroupKept'
  BY <1>10 DEF TestUpdate, UpdateWhereNull
<1>11. ASSUME NEW w \in TestTasks, TestCommit(w) PROVE GroupKept'
  BY <1>11 DEF TestCommit
<1>12. ASSUME NEW w \in TestTasks, TestLock(w) PROVE GroupKept'
  BY <1>12 DEF TestLock
<1>13. ASSUME NEW w \in TestTasks, TestClone(w) PROVE GroupKept'
  BY <1>13 DEF TestClone
<1>14. ASSUME NEW w \in Tasks, Crash(w) PROVE GroupKept'
  BY <1>14 DEF Crash
<1>15. CASE UNCHANGED vars
  BY <1>15 DEF vars
<1> QED
  BY <1>1, <1>2, <1>3, <1>4, <1>5, <1>6, <1>7, <1>8, <1>9, <1>10,
     <1>11, <1>12, <1>13, <1>14, <1>15 DEF Next, CoprStep, TestStep

-----------------------------------------------------------------------------
LEMMA Initially == Init => IInv
  BY Disjoint DEF Init, IInv, TypeOK, Row, Bare, NoRowNoValue, CloneInserted, RunReady,
     SrpmOfRun, Held, Owned, TestGroupsDone, CoprReturns, GroupKept, CoprSteps, TestSteps

LEMMA Inductive == IInv /\ [Next]_vars => IInv'
  BY TypeStep, NoRowStep, CloneStep, RunReadyStep, SrpmStep, HeldStep, OwnedStep,
     GroupsDoneStep, ReturnsStep, KeptStep DEF IInv

LEMMA Invariant == Spec => []IInv
  BY Initially, Inductive, PTL DEF Spec

\* The variables stay in their types, for any number of pipelines and tasks.
THEOREM TypeCorrect == Spec => []TypeOK
<1>1. IInv => TypeOK
  BY DEF IInv
<1> QED
  BY <1>1, Invariant, PTL

\* No concurrent call of create() takes a pipeline away from a call that
\* returned, or overwrites the group that call left on it.
THEOREM GroupsAreKept == Spec => []GroupKept
<1>1. IInv => GroupKept
  BY DEF IInv
<1> QED
  BY <1>1, Invariant, PTL

\* The clones made by the losers of a race never share a group with the winner.
THEOREM OnePipelinePerGroup == Spec => []GroupOnOnePipeline
<1>1. IInv => GroupOnOnePipeline
  BY DEF IInv, Owned, GroupOnOnePipeline, TypeOK
<1> QED
  BY <1>1, Invariant, PTL

\* All pipelines of a Copr build group, clones included, have one SRPM build,
\* so get_srpm_build may look at any of them.
THEOREM OneSrpmPerGroup == Spec => []SameSrpm
<1>1. IInv => SameSrpm
  BY DEF IInv, Owned, SameSrpm, TypeOK
<1> QED
  BY <1>1, Invariant, PTL

\* A worker that dies inside TFTTestRunGroupModel.create leaves no group
\* without a pipeline.
THEOREM NoOrphans == Spec => []NoOrphanTestGroup
<1>1. IInv => NoOrphanTestGroup
  BY DEF IInv, TestGroupsDone, GroupKept, NoOrphanTestGroup, TypeOK
<1> QED
  BY <1>1, Invariant, PTL

\* A step writes only columns that are NULL.
LEMMA WriteOnceStep ==
    ASSUME IInv, [Next]_vars
    PROVE  \A q \in Pipelines :
              /\ pipe[q].srpm # NULL => pipe'[q].srpm = pipe[q].srpm
              /\ pipe[q].copr # NULL => pipe'[q].copr = pipe[q].copr
              /\ pipe[q].tft # NULL => pipe'[q].tft = pipe[q].tft
<1> DEFINE Kept == \A q \in Pipelines :
              /\ pipe[q].srpm # NULL => pipe'[q].srpm = pipe[q].srpm
              /\ pipe[q].copr # NULL => pipe'[q].copr = pipe[q].copr
              /\ pipe[q].tft # NULL => pipe'[q].tft = pipe[q].tft
<1> USE Disjoint DEF IInv, TypeOK, Row, Bare, RunReady, CloneInserted, Held,
     NoRowNoValue, CoprSteps, TestSteps
<1>1. ASSUME NEW r \in SrpmRuns, LinkSrpm(r) PROVE Kept
  BY <1>1 DEF LinkSrpm
<1>2. ASSUME NEW w \in CoprTasks, CoprCommit(w) PROVE Kept
  BY <1>2 DEF CoprCommit
<1>3. ASSUME NEW w \in CoprTasks, CoprLink(w) PROVE Kept
  BY <1>3 DEF CoprLink
<1>4. ASSUME NEW w \in TestTasks, TestCommit(w) PROVE Kept
  BY <1>4 DEF TestCommit
<1>5. ASSUME NEW w \in TestTasks, TestClone(w) PROVE Kept
  BY <1>5 DEF TestClone
<1>6. CASE UNCHANGED pipe
  BY <1>6
<1>7. CASE UNCHANGED vars
  BY <1>6, <1>7 DEF vars
<1> QED
  BY <1>1, <1>2, <1>3, <1>4, <1>5, <1>6, <1>7
     DEF Next, CoprStep, TestStep, CreateRun, CoprRead, CoprUpdate, CoprLock,
          CoprClone, TestStart, TestUpdate, TestLock, Crash

\* The SRPM build and the groups of a pipeline are set once and for good.
THEOREM ColumnsAreWriteOnce == Spec => WriteOnce
<1> DEFINE Kept == \A p \in Pipelines :
         /\ pipe[p].srpm # NULL => pipe'[p].srpm = pipe[p].srpm
         /\ pipe[p].copr # NULL => pipe'[p].copr = pipe[p].copr
         /\ pipe[p].tft # NULL => pipe'[p].tft = pipe[p].tft
<1>1. IInv /\ [Next]_vars => [Kept]_vars
  BY WriteOnceStep
<1> QED
  BY <1>1, Invariant, PTL DEF Spec, WriteOnce

-----------------------------------------------------------------------------
(* PipelineGroups implements GroupPerPipeline.                             *)

Attached == [w \in Tasks |->
               IF CarriedBy(w) = {} THEN NULL ELSE CHOOSE p \in CarriedBy(w) : TRUE]

Finished == [w \in Tasks |-> IF pc[w] = "done" THEN ret[w] ELSE NULL]

\* The group of a call is on a pipeline as soon as the call has returned.
LEMMA AttachedWhenDone ==
    IInv => Attached = Finished
<1> SUFFICES ASSUME IInv PROVE Attached = Finished
  OBVIOUS
<1>1. ASSUME NEW w \in Tasks
      PROVE  CarriedBy(w) = IF pc[w] = "done" THEN {ret[w]} ELSE {}
  BY Disjoint DEF IInv, TypeOK, Owned, GroupKept, CoprReturns, CarriedBy
<1>2. ASSUME NEW w \in Tasks
      PROVE  (IF CarriedBy(w) = {} THEN NULL ELSE CHOOSE p \in CarriedBy(w) : TRUE)
                = IF pc[w] = "done" THEN ret[w] ELSE NULL
  BY <1>1
<1> QED
  BY <1>2 DEF Attached, Finished

\* The steps that finish a call attach its group to a pipeline that has none
\* of its kind.
LEMMA FinishAttaches ==
    ASSUME IInv, IInv', NEW w \in Tasks, NEW p \in Pipelines,
           pc[w] # "done",
           pc' = [pc EXCEPT ![w] = "done"],
           ret' = [ret EXCEPT ![w] = p],
           w \in CoprTasks => pipe[p].copr = NULL,
           w \in TestTasks => pipe[p].tft = NULL
    PROVE  Abstract!Attach(w, p)
<1>1. Attached = Finished
  BY AttachedWhenDone
<1>2. (Attached = Finished)'
  BY AttachedWhenDone, PTL
<1>3. Attached[w] = NULL
  BY <1>1 DEF Finished
<1>4. Attached' = [Attached EXCEPT ![w] = p]
  BY <1>1, <1>2 DEF Finished, IInv, TypeOK
<1>5. ASSUME NEW v \in Tasks, Abstract!SameKind(v, w)
      PROVE  Attached[v] # p
  BY <1>1, <1>5, Disjoint DEF Finished, Abstract!SameKind, IInv, TypeOK, GroupKept
<1> QED
  BY <1>3, <1>4, <1>5 DEF Abstract!Attach, Abstract!Calls, Attached

\* Every step of the workers is a step of the abstract rule, or none.
LEMMA StepRefines ==
    ASSUME IInv, IInv', [Next]_vars
    PROVE  [Abstract!Next]_Attached
<1> USE Disjoint DEF IInv, TypeOK, Goto
<1>1. ASSUME NEW w \in CoprTasks, CoprCommit(w) PROVE Abstract!Attach(w, run[w])
  <2>1. run[w] \in Pipelines /\ pipe[run[w]].copr = NULL /\ w \in Tasks
    BY <1>1 DEF CoprCommit, RunReady, Held
  <2>2. pc[w] # "done" /\ pc' = [pc EXCEPT ![w] = "done"] /\ ret' = [ret EXCEPT ![w] = run[w]]
    BY <1>1 DEF CoprCommit
  <2> QED
    BY <2>1, <2>2, FinishAttaches
<1>2. ASSUME NEW w \in CoprTasks, CoprLink(w) PROVE Abstract!Attach(w, w)
  <2>1. w \in Pipelines /\ pipe[w].copr = NULL /\ w \in Tasks
    BY <1>2 DEF CoprLink, CloneInserted, Bare
  <2>2. pc[w] # "done" /\ pc' = [pc EXCEPT ![w] = "done"] /\ ret' = [ret EXCEPT ![w] = w]
    BY <1>2 DEF CoprLink
  <2> QED
    BY <2>1, <2>2, FinishAttaches
<1>3. ASSUME NEW w \in TestTasks, TestCommit(w) PROVE Abstract!Attach(w, run[w])
  <2>1. run[w] \in Pipelines /\ pipe[run[w]].tft = NULL /\ w \in Tasks
    BY <1>3 DEF TestCommit, RunReady, Held
  <2>2. pc[w] # "done" /\ pc' = [pc EXCEPT ![w] = "done"] /\ ret' = [ret EXCEPT ![w] = run[w]]
    BY <1>3 DEF TestCommit
  <2> QED
    BY <2>1, <2>2, FinishAttaches
<1>4. ASSUME NEW w \in TestTasks, TestClone(w) PROVE Abstract!Attach(w, w)
  <2>1. w \in Pipelines /\ pipe[w].tft = NULL /\ w \in Tasks
    BY <1>4 DEF TestClone, CloneInserted, NoRowNoValue, Bare
  <2>2. pc[w] # "done" /\ pc' = [pc EXCEPT ![w] = "done"] /\ ret' = [ret EXCEPT ![w] = w]
    BY <1>4 DEF TestClone
  <2> QED
    BY <2>1, <2>2, FinishAttaches
<1>5. ASSUME \A w \in Tasks : (pc'[w] = "done") <=> (pc[w] = "done"), UNCHANGED ret
      PROVE  UNCHANGED Attached
  <2>1. (Attached = Finished)'
    BY AttachedWhenDone, PTL
  <2> QED
    BY <1>5, <2>1, AttachedWhenDone DEF Finished
<1>6. CASE UNCHANGED vars
  BY <1>5, <1>6 DEF vars
<1>7. ASSUME NEW w \in Tasks, pc[w] # "done", UNCHANGED ret,
             \E step \in CoprSteps \ {"done"} : Goto(w, step)
      PROVE  UNCHANGED Attached
  BY <1>5, <1>7
<1>8. ASSUME NEW r \in Runs, CreateRun(r) \/ LinkSrpm(r) PROVE UNCHANGED Attached
  BY <1>5, <1>8 DEF CreateRun, LinkSrpm
<1>9. ASSUME NEW w \in CoprTasks, NEW r \in SrpmRuns, CoprRead(w, r)
      PROVE  UNCHANGED Attached
  BY <1>7, <1>9 DEF CoprRead, CoprSteps
<1>10. ASSUME NEW w \in CoprTasks, CoprUpdate(w) \/ CoprLock(w) \/ CoprClone(w)
       PROVE  UNCHANGED Attached
  BY <1>7, <1>10 DEF CoprUpdate, CoprLock, CoprClone, UpdateWhereNull, CoprSteps
<1>11. ASSUME NEW w \in TestTasks, NEW p \in Pipelines, TestStart(w, p)
       PROVE  UNCHANGED Attached
  BY <1>7, <1>11 DEF TestStart, CoprSteps
<1>12. ASSUME NEW w \in TestTasks, TestUpdate(w) \/ TestLock(w) PROVE UNCHANGED Attached
  BY <1>7, <1>12 DEF TestUpdate, TestLock, UpdateWhereNull, CoprSteps
<1>13. ASSUME NEW w \in Tasks, Crash(w) PROVE UNCHANGED Attached
  BY <1>7, <1>13 DEF Crash, CoprSteps
<1>14. \A w \in TestTasks : pc[w] # "idle" => run[w] \in Pipelines
  BY DEF RunReady
<1>15. \A w \in CoprTasks : pc[w] # "idle" => run[w] \in Pipelines
  BY DEF RunReady
<1>16. \A w \in Tasks, p \in Pipelines : Abstract!Attach(w, p) => Abstract!Next
  BY DEF Abstract!Next, Abstract!Calls
<1>17. \A w \in CoprTasks : CoprCommit(w) \/ CoprLink(w) => Abstract!Next
  BY <1>1, <1>2, <1>15, <1>16 DEF CoprCommit
<1>18. \A w \in TestTasks : TestCommit(w) \/ TestClone(w) => Abstract!Next
  BY <1>3, <1>4, <1>14, <1>16 DEF TestCommit
<1> QED
  BY <1>6, <1>8, <1>9, <1>10, <1>11, <1>12, <1>13, <1>17, <1>18
     DEF Next, CoprStep, TestStep

\* Callers that race and die implement "one group per pipeline".
THEOREM Implements == Spec => ImplementsAbstract
<1>1. Init => Abstract!Init
  BY Initially, AttachedWhenDone DEF Finished, Init, Abstract!Init, Abstract!Calls,
       Attached
<1>2. IInv /\ IInv' /\ [Next]_vars => [Abstract!Next]_Attached
  BY StepRefines
<1> QED
  BY <1>1, <1>2, Invariant, PTL DEF Spec, ImplementsAbstract, Abstract!Spec, Attached
=============================================================================
