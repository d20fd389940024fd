-------------------------- MODULE ApprovalsProofs --------------------------
(***************************************************************************)
(* Proofs about Approvals: types; automatic approvals are of those who     *)
(* installed the App; who waits has an issue.                              *)
(***************************************************************************)
EXTENDS Approvals, SequenceTheorems, TLAPS

LEMMA FreshType ==
  ASSUME NEW kind \in DOMAIN FirstStep, NEW pc \in Steps, NEW a \in Accounts \cup {NoOne},
         NEW p \in People \cup {NoOne}, NEW f \in FasAccounts \cup {NoOne}
  PROVE  /\ Fresh(kind, pc, a, p, f) \in Task
         /\ Fresh(kind, pc, a, p, f).kind = kind /\ Fresh(kind, pc, a, p, f).pc = pc
         /\ Fresh(kind, pc, a, p, f).account = a /\ Fresh(kind, pc, a, p, f).person = p
         /\ Fresh(kind, pc, a, p, f).fas = f
BY ApprovalsAssumption DEF Fresh, Task, EntryRow, Statuses

LEMMA FirstSteps ==
  /\ DOMAIN FirstStep = {"installation", "verification"}
  /\ FirstStep["installation"] = "read" /\ FirstStep["verification"] = "sender"
  /\ \A kind \in DOMAIN FirstStep : FirstStep[kind] \in Steps
BY DEF FirstStep, Steps

LEMMA IdleType == Idle \in Task /\ Idle.pc = "free"
<1>1. "installation" \in DOMAIN FirstStep /\ "free" \in Steps
  BY FirstSteps DEF Steps
<1> QED BY <1>1, FreshType DEF Idle

LEMMA FieldTypes ==
  ASSUME NEW x \in Task, NEW step \in Steps
  PROVE  /\ \A p \in People \cup {NoOne} : [x EXCEPT !.previous = p, !.pc = step] \in Task
         /\ \A s \in Statuses : [x EXCEPT !.status = s, !.pc = step] \in Task
         /\ \A i \in 0..MaxRows, e \in EntryRow :
              [x EXCEPT !.row = i, !.pc = step, !.seen = e] \in Task
         /\ [x EXCEPT !.row = Gone] \in Task
BY DEF Task

\* A task in use has its arguments.
Good(x) == x.pc # "free" => x.account \in Accounts /\ x.person \in People /\ x.fas \in FasAccounts

LEMMA TaskType ==
  ASSUME TypeOK, NEW t \in Tasks, NEW new \in Task, Good(new), task' = [task EXCEPT ![t] = new]
  PROVE  task' \in [Tasks -> Task] /\ \A x \in Tasks : Good(task[x])'
<1>1. task \in [Tasks -> Task] /\ \A x \in Tasks : Good(task[x])
  BY DEF TypeOK, Good, At
<1>2. ASSUME NEW x \in Tasks PROVE Good(task[x])'
  <2>1. CASE x = t
    BY <1>1, <2>1 DEF Good
  <2>2. CASE x # t
    BY <1>1, <2>2 DEF Good
  <2> QED BY <2>1, <2>2
<1> QED BY <1>1, <1>2

LEMMA MoveType ==
  ASSUME TypeOK, NEW t \in Tasks, NEW step \in Steps, ~At(t, "free"), Go(t, step) \/ Free(t)
  PROVE  task' \in [Tasks -> Task] /\ \A x \in Tasks : Good(task[x])'
<1>1. CASE Go(t, step)
  <2> DEFINE new == [task[t] EXCEPT !.pc = step]
  <2>1. new \in Task /\ task' = [task EXCEPT ![t] = new]
    BY <1>1 DEF Go, TypeOK, Task
  <2>2. Good(new)
    BY DEF TypeOK, Task, Good, At
  <2> HIDE DEF new
  <2> QED BY <2>1, <2>2, TaskType
<1>2. CASE Free(t)
  <2>1. Good(Idle)
    BY IdleType DEF Good
  <2> QED BY <1>2, <2>1, IdleType, TaskType DEF Free
<1> QED BY <1>1, <1>2

LEMMA RowsKept ==
  ASSUME TypeOK, NEW n \in Namespaces, NEW s \in Seq(EntryRow), Len(s) <= MaxRows,
         rows' = [rows EXCEPT ![n] = s]
  PROVE  /\ rows' \in [Namespaces -> Seq(EntryRow)]
         /\ \A x \in Namespaces : Len(rows'[x]) <= MaxRows
BY DEF TypeOK

LEMMA TypeInit == Init => TypeOK
<1> SUFFICES ASSUME Init PROVE TypeOK
  OBVIOUS
<1>1. rows \in [Namespaces -> Seq(EntryRow)] /\ \A n \in Namespaces : Len(rows[n]) <= MaxRows
  BY ApprovalsAssumption DEF Init, Gone
<1>2. task \in [Tasks -> Task] /\ \A t \in Tasks : task[t].pc = "free"
  BY IdleType DEF Init
<1> QED BY <1>1, <1>2, ApprovalsAssumption DEF Init, TypeOK, At

LEMMA TypeStep == TypeOK /\ [Next]_vars => TypeOK'
<1> SUFFICES ASSUME TypeOK, [Next]_vars PROVE TypeOK'
  OBVIOUS
<1> USE ApprovalsAssumption DEF Gone
<1>a. ASSUME NEW t \in Tasks
      PROVE  /\ task[t] \in Task /\ task[t].kind \in DOMAIN FirstStep /\ Good(task[t])
             /\ task[t].account \in Accounts \cup {NoOne} /\ task[t].person \in People \cup {NoOne}
             /\ task[t].fas \in FasAccounts \cup {NoOne}
  BY DEF TypeOK, Task, Good, At
<1>s. /\ "update" \in Steps /\ "decide" \in Steps /\ "query" \in Steps /\ "issue" \in Steps
      /\ "find" \in Steps /\ "write" \in Steps /\ "check" \in Steps
  BY DEF Steps
<1>i. (\A x \in Tasks : Good(task[x])') =>
        (\A x \in Tasks : ~At(x, "free") => /\ task[x].account \in Accounts
                             /\ task[x].person \in People /\ task[x].fas \in FasAccounts)'
  BY DEF Good, At
<1>1. ASSUME NEW t \in Tasks, NEW kind \in DOMAIN FirstStep, NEW a \in Accounts, NEW p \in People,
             NEW f \in FasAccounts, Start(t, kind, a, p, f)
      PROVE  /\ task' \in [Tasks -> Task] /\ (\A x \in Tasks : Good(task[x])')
             /\ started' \in 0..MaxTasks /\ UNCHANGED <<rows, sender, issue, crashes>>
  <2> DEFINE new == Fresh(kind, FirstStep[kind], a, p, f)
  <2>1. new \in Task /\ Good(new)
    BY FirstSteps, FreshType DEF Good
  <2>2. task' = [task EXCEPT ![t] = new]
    BY <1>1 DEF Start
  <2> HIDE DEF new
  <2>3. task' \in [Tasks -> Task] /\ \A x \in Tasks : Good(task[x])'
    BY <2>1, <2>2, TaskType
  <2> QED BY <1>1, <2>3 DEF Start, TypeOK
<1>2. ASSUME NEW t \in Tasks, NEW a \in Accounts, NEW p \in People, Install(t, a, p) PROVE TypeOK'
  <2>1. p \in FasAccounts /\ "installation" \in DOMAIN FirstStep
    BY FirstSteps
  <2>2. Start(t, "installation", a, p, p)
    BY <1>2 DEF Install
  <2> QED BY <1>1, <1>2, <2>1, <2>2, <1>i DEF Install, TypeOK
<1>3. ASSUME NEW t \in Tasks, NEW a \in Accounts, NEW p \in People, NEW f \in FasAccounts,
             Comment(t, a, p, f)
      PROVE  TypeOK'
  <2>1. "verification" \in DOMAIN FirstStep
    BY FirstSteps
  <2>2. Start(t, "verification", a, p, f)
    BY <1>3 DEF Comment
  <2> QED BY <1>1, <1>3, <2>1, <2>2, <1>i DEF Comment, TypeOK
<1>4. ASSUME NEW t \in Tasks, ReadPrevious(t) PROVE TypeOK'
  <2> DEFINE new == [task[t] EXCEPT !.previous = sender[task[t].account], !.pc = "update"]
  <2>1. task[t].pc = "read" /\ task[t].account \in Accounts
    BY <1>4, <1>a DEF ReadPrevious, At, Good
  <2>2. sender[task[t].account] \in People \cup {NoOne}
    BY <2>1 DEF TypeOK
  <2>3. new \in Task
    BY <2>2, <1>a, <1>s, FieldTypes
  <2>4. Good(new)
    BY <2>1, <1>a DEF Good, Task
  <2>5. task' = [task EXCEPT ![t] = new]
    BY <1>4 DEF ReadPrevious, TypeOK
  <2> HIDE DEF new
  <2>6. task' \in [Tasks -> Task] /\ \A x \in Tasks : Good(task[x])'
    BY <2>3, <2>4, <2>5, TaskType
  <2> QED BY <1>4, <2>6, <1>i DEF ReadPrevious, TypeOK
\* A task that only goes on, ends, or also changes a row of its own account.
<1>m. ASSUME NEW t \in Tasks, NEW step \in Steps, ~At(t, "free"), Go(t, step) \/ Free(t),
             rows' \in [Namespaces -> Seq(EntryRow)], \A n \in Namespaces : Len(rows'[n]) <= MaxRows,
             sender' \in [Accounts -> People \cup {NoOne}],
             issue' \in [Accounts -> {"none", "open", "closed"}],
             UNCHANGED <<started, crashes, installers>>
      PROVE  TypeOK'
  BY <1>m, <1>i, MoveType DEF TypeOK
<1>5. ASSUME NEW t \in Tasks, create_or_update(t) PROVE TypeOK'
  <2>1. task[t].account \in Accounts /\ task[t].person \in People /\ ~At(t, "free")
    BY <1>5, <1>a DEF create_or_update, At, Good
  <2>2. sender' \in [Accounts -> People \cup {NoOne}]
    BY <1>5, <2>1 DEF create_or_update, TypeOK
  <2>3. Go(t, "decide") /\ UNCHANGED <<rows, issue, started, crashes, installers>>
    BY <1>5 DEF create_or_update
  <2> QED BY <2>1, <2>2, <2>3, <1>m, <1>s DEF TypeOK
<1>6. ASSUME NEW t \in Tasks, Decide(t) PROVE TypeOK'
  <2>1. /\ ~At(t, "free") /\ (Go(t, "query") \/ Free(t))
        /\ UNCHANGED <<rows, sender, issue, started, crashes, installers>>
    BY <1>6 DEF Decide, At
  <2> QED BY <2>1, <1>m, <1>s DEF TypeOK
<1>7. ASSUME NEW t \in Tasks, NoMatch(t) PROVE TypeOK'
  <2>1. /\ ~At(t, "free") /\ (Go(t, "issue") \/ Free(t))
        /\ UNCHANGED <<rows, sender, issue, started, crashes, installers>>
    BY <1>7 DEF NoMatch, At
  <2> QED BY <2>1, <1>m, <1>s DEF TypeOK
<1>8. ASSUME NEW t \in Tasks, CheckSender(t) PROVE TypeOK'
  <2>1. /\ ~At(t, "free") /\ (Go(t, "check") \/ Free(t))
        /\ UNCHANGED <<rows, sender, issue, started, crashes, installers>>
    BY <1>8 DEF CheckSender, At
  <2> QED BY <2>1, <1>m, <1>s DEF TypeOK
<1>9. ASSUME NEW t \in Tasks, verify(t) PROVE TypeOK'
  <2>1. /\ ~At(t, "free") /\ (Go(t, "query") \/ Free(t))
        /\ UNCHANGED <<rows, sender, started, crashes, installers>>
        /\ issue' \in {issue, [issue EXCEPT ![task[t].account] = "closed"]}
    BY <1>9 DEF verify, At
  <2>2. issue' \in [Accounts -> {"none", "open", "closed"}]
    BY <2>1 DEF TypeOK
  <2> QED BY <2>1, <2>2, <1>m, <1>s DEF TypeOK
\* A task that has its status goes to look for the row.
<1>f. ASSUME NEW t \in Tasks, NEW status \in Statuses, task[t].pc # "free",
             task' = [task EXCEPT ![t].status = status, ![t].pc = "find"]
      PROVE  task' \in [Tasks -> Task] /\ \A x \in Tasks : Good(task[x])'
  <2> DEFINE new == [task[t] EXCEPT !.status = status, !.pc = "find"]
  <2>1. new \in Task
    BY <1>a, <1>f, <1>s, FieldTypes
  <2>2. Good(new)
    BY <1>f, <1>a DEF Good, Task
  <2>3. task' = [task EXCEPT ![t] = new]
    BY <1>f DEF TypeOK
  <2> HIDE DEF new
  <2> QED BY <2>1, <2>2, <2>3, TaskType
<1>10. ASSUME NEW t \in Tasks, Match(t) PROVE TypeOK'
  <2>1. /\ task[t].pc # "free" /\ "approved_automatically" \in Statuses
        /\ task' = [task EXCEPT ![t].status = "approved_automatically", ![t].pc = "find"]
    BY <1>10 DEF Match, At, Statuses
  <2>2. issue' \in [Accounts -> {"none", "open", "closed"}]
    BY <1>10 DEF Match, TypeOK
  <2> QED BY <1>10, <1>f, <1>i, <2>1, <2>2 DEF Match, TypeOK
<1>11. ASSUME NEW t \in Tasks, CreateIssue(t) PROVE TypeOK'
  <2>1. /\ task[t].pc # "free" /\ "waiting" \in Statuses
        /\ task' = [task EXCEPT ![t].status = "waiting", ![t].pc = "find"]
    BY <1>11 DEF CreateIssue, At, Statuses
  <2>2. issue' \in [Accounts -> {"none", "open", "closed"}]
    BY <1>11 DEF CreateIssue, TypeOK
  <2> QED BY <1>11, <1>f, <1>i, <2>1, <2>2 DEF CreateIssue, TypeOK
<1>12. ASSUME NEW t \in Tasks, FindRow(t) PROVE TypeOK'
  <2> DEFINE r == rows[task[t].account]
  <2>1. task[t].pc = "find" /\ task[t].account \in Namespaces
    BY <1>12, <1>a DEF FindRow, At, Good, Namespaces
  <2>2. r \in Seq(EntryRow) /\ Len(r) <= MaxRows /\ Len(r) \in Nat
    BY <2>1 DEF TypeOK
  <2>3. PICK i \in IF r = <<>> THEN {0} ELSE DOMAIN r :
          task' = [task EXCEPT ![t].row = i, ![t].pc = "write",
                               ![t].seen = IF i = 0 THEN @ ELSE r[i]]
    BY <1>12 DEF FindRow
  <2>4. i \in 0..MaxRows /\ (i # 0 => r[i] \in EntryRow)
    <3>1. CASE r = <<>>
      <4>1. i \in {0}
        BY <2>3, <3>1
      <4> HIDE DEF r
      <4> QED BY <4>1
    <3>2. CASE r # <<>>
      <4>1. i \in 1..Len(r)
        BY <2>2, <2>3, <3>2
      <4> QED BY <2>2, <4>1
    <3> QED BY <3>1, <3>2
  <2> DEFINE seen == IF i = 0 THEN task[t].seen ELSE r[i]
             new == [task[t] EXCEPT !.row = i, !.pc = "write", !.seen = seen]
  <2>5. seen \in EntryRow
    <3>1. task[t].seen \in EntryRow
      BY <1>a DEF Task
    <3> QED BY <2>4, <3>1
  <2> HIDE DEF seen
  <2>6. new \in Task
    BY <2>4, <2>5, <1>a, <1>s, FieldTypes
  <2>7. Good(new)
    BY <2>1, <1>a DEF Good, Task
  <2>8. task' = [task EXCEPT ![t] = new]
    BY <2>3 DEF seen, TypeOK, Task
  <2> HIDE DEF new
  <2>9. task' \in [Tasks -> Task] /\ \A x \in Tasks : Good(task[x])'
    BY <2>6, <2>7, <2>8, TaskType
  <2> QED BY <1>12, <2>9, <1>i DEF FindRow, TypeOK
<1>13. ASSUME NEW t \in Tasks, WriteRow(t) PROVE TypeOK'
  <2> DEFINE x == task[t]
             r == rows[x.account]
             entry == [status |-> x.status, fas |-> FasOf(t)]
             changed == Changed(r[x.row], x.seen, x.status, FasOf(t))
  <2>1. ~At(t, "free") /\ x.account \in Namespaces
    BY <1>13, <1>a DEF WriteRow, At, Good, Namespaces
  <2>2. r \in Seq(EntryRow) /\ Len(r) <= MaxRows /\ Len(r) \in Nat
    BY <2>1 DEF TypeOK
  <2>3. x.status \in Statuses /\ FasOf(t) \in FasAccounts \cup {NoOne}
    BY <1>a DEF Task, FasOf
  <2>4. entry \in EntryRow
    BY <2>3 DEF EntryRow
  <2>5. rows' \in [Namespaces -> Seq(EntryRow)] /\ \A n \in Namespaces : Len(rows'[n]) <= MaxRows
    <3>1. CASE x.row = 0
      <4>1. rows' = [rows EXCEPT ![x.account] = Append(r, entry)] /\ Len(r) < MaxRows
        BY <1>13, <3>1 DEF WriteRow
      <4>2. Append(r, entry) \in Seq(EntryRow) /\ Len(Append(r, entry)) <= MaxRows
        BY <2>2, <2>4, <4>1
      <4> HIDE DEF entry
      <4> QED BY <2>1, <4>1, <4>2, RowsKept
    <3>2. CASE x.row # 0 /\ x.row \in DOMAIN r
      <4>1. rows' = [rows EXCEPT ![x.account] = [r EXCEPT ![x.row] = changed]]
        BY <1>13, <3>2 DEF WriteRow
      <4>2. changed \in EntryRow
        <5>1. r[x.row] \in EntryRow
          BY <2>2, <3>2
        <5> QED BY <2>3, <5>1 DEF Changed, EntryRow
      <4> HIDE DEF changed
      <4>3. /\ [r EXCEPT ![x.row] = changed] \in Seq(EntryRow)
            /\ Len([r EXCEPT ![x.row] = changed]) <= MaxRows
        BY <2>2, <3>2, <4>2, ExceptSeq
      <4> QED BY <2>1, <4>1, <4>3, RowsKept
    <3>3. CASE x.row # 0 /\ x.row \notin DOMAIN r
      BY <1>13, <3>3 DEF WriteRow, TypeOK
    <3> QED BY <3>1, <3>2, <3>3
  <2>6. Free(t) /\ UNCHANGED <<sender, issue, started, crashes, installers>>
    BY <1>13 DEF WriteRow
  <2> QED BY <2>1, <2>5, <2>6, <1>m, <1>s DEF TypeOK
<1>14. ASSUME NEW n \in Namespaces, NEW status \in Statuses, SetStatus(n, status) PROVE TypeOK'
  <2>1. rows[n] \in Seq(EntryRow) /\ Len(rows[n]) <= MaxRows
    BY DEF TypeOK
  <2>2. rows' \in [Namespaces -> Seq(EntryRow)] /\ \A x \in Namespaces : Len(rows'[x]) <= MaxRows
    <3>1. CASE rows[n] = <<>>
      <4> DEFINE s == <<[status |-> status, fas |-> NoOne]>>
      <4>1. s \in Seq(EntryRow) /\ Len(s) <= MaxRows
        BY DEF EntryRow
      <4>2. rows' = [rows EXCEPT ![n] = s]
        BY <1>14, <3>1 DEF SetStatus
      <4> HIDE DEF s
      <4> QED BY <4>1, <4>2, RowsKept
    <3>2. CASE rows[n] # <<>>
      <4>1. PICK i \in DOMAIN rows[n] : rows' = [rows EXCEPT ![n][i].status = status]
        BY <1>14, <3>2 DEF SetStatus
      <4> DEFINE e == [rows[n][i] EXCEPT !.status = status]
                 s == [rows[n] EXCEPT ![i] = e]
      <4>2. e \in EntryRow
        <5>1. rows[n][i] \in EntryRow
          BY <2>1, <4>1
        <5> QED BY <5>1 DEF EntryRow
      <4>3. rows' = [rows EXCEPT ![n] = s]
        BY <4>1
      <4> HIDE DEF e
      <4>4. s \in Seq(EntryRow) /\ Len(s) <= MaxRows
        BY <2>1, <4>1, <4>2, ExceptSeq
      <4> HIDE DEF s
      <4> QED BY <4>3, <4>4, RowsKept
    <3> QED BY <3>1, <3>2
  <2> QED BY <1>14, <2>2 DEF SetStatus, TypeOK, At
<1>15. ASSUME NEW n \in Namespaces, remove_namespace(n) PROVE TypeOK'
  <2>1. rows' = [rows EXCEPT ![n] = <<>>]
    BY <1>15 DEF remove_namespace
  <2>e. <<>> \in Seq(EntryRow) /\ Len(<<>>) <= MaxRows
    BY EmptySeq
  <2>2. rows' \in [Namespaces -> Seq(EntryRow)] /\ \A x \in Namespaces : Len(rows'[x]) <= MaxRows
    BY <2>1, <2>e, RowsKept
  <2>3. ASSUME NEW t \in Tasks
        PROVE  /\ task'[t] \in {task[t], [task[t] EXCEPT !.row = Gone]}
               /\ task'[t] \in Task /\ Good(task[t])'
    <3>1. task'[t] \in {task[t], [task[t] EXCEPT !.row = Gone]}
      BY <1>15 DEF remove_namespace
    <3>2. [task[t] EXCEPT !.row = Gone] \in Task
      BY <1>a DEF Task
    <3> QED BY <3>1, <3>2, <1>a DEF Good, Task
  <2>4. task' \in [Tasks -> Task]
    BY <1>15, <2>3 DEF remove_namespace
  <2> QED BY <1>15, <2>2, <2>3, <2>4, <1>i DEF remove_namespace, TypeOK
<1>16. ASSUME NEW t \in Tasks, Crash(t) PROVE TypeOK'
  <2> DEFINE x == task[t]
             new == Fresh(x.kind, FirstStep[x.kind], x.account, x.person, x.fas)
  <2>1. task' = [task EXCEPT ![t] = new]
    BY <1>16 DEF Crash, TypeOK
  <2>2. new \in Task /\ Good(new)
    BY <1>16, <1>a, FreshType, FirstSteps DEF Good, Crash, At
  <2> HIDE DEF new
  <2>3. task' \in [Tasks -> Task] /\ \A y \in Tasks : Good(task[y])'
    BY <2>1, <2>2, TaskType
  <2> QED BY <1>16, <2>3, <1>i DEF Crash, TypeOK
<1>17. CASE UNCHANGED vars
  BY <1>17 DEF vars, TypeOK, At
<1>18. ASSUME NEW n \in Namespaces, approve_namespace(n) \/ deny_namespace(n) PROVE TypeOK'
  BY <1>14, <1>18 DEF approve_namespace, deny_namespace, Statuses
<1>19. ASSUME NEW t \in Tasks, Step(t) PROVE TypeOK'
  BY <1>4, <1>5, <1>6, <1>7, <1>8, <1>9, <1>10, <1>11, <1>12, <1>13, <1>19 DEF Step
<1> QED BY <1>2, <1>3, <1>15, <1>16, <1>17, <1>18, <1>19 DEF Next

\* Type correctness: every state of rows, installations, issues and tasks is
\* what the declarations of the model say.
THEOREM TypeCorrect == Spec => []TypeOK
BY TypeInit, TypeStep, PTL DEF Spec

-----------------------------------------------------------------------------
\* The inductive invariant.  A row's FAS account is that of somebody who has
\* installed the App; an automatic approval has one; who waits has an issue.
RowsTrue ==
  \A a \in Accounts : \A i \in DOMAIN rows[a] :
    LET row == rows[a][i] IN
    /\ row.fas # NoOne => \E p \in installers[a] : <<row.fas, p>> \in Matching
    /\ row.status = "approved_automatically" => row.fas # NoOne
    /\ row.status = "waiting" => issue[a] # "none"
SendersTrue == \A a \in Accounts : sender[a] # NoOne => sender[a] \in installers[a]
\* A task works for somebody who has installed the App, unless it still has to
\* check that; what it writes is true; and a row keeps the FAS account that the
\* task has read.
TaskTrue(t) ==
  LET x == task[t] IN
  x.pc # "free" =>
    /\ x.kind = "installation" \/ x.pc # "sender" => x.person \in installers[x.account]
    /\ x.pc \in {"find", "write"} =>
         \/ x.status = "approved_automatically" /\ <<x.fas, x.person>> \in Matching
         \/ x.status = "waiting" /\ issue[x.account] # "none"
    /\ x.pc = "write" =>
         \/ x.row \in {0, Gone}
         \/ /\ x.row \in DOMAIN rows[x.account]
            /\ x.seen.fas # NoOne => rows[x.account][x.row].fas # NoOne
IInv == RowsTrue /\ SendersTrue /\ \A t \in Tasks : TaskTrue(t)

\* What no step undoes.
Frame ==
  /\ \A a \in Accounts : installers[a] \subseteq installers'[a]
  /\ \A a \in Accounts : issue[a] # "none" => issue'[a] # "none"
  /\ \A a \in Accounts : \A i \in DOMAIN rows[a] :
       i \in DOMAIN rows'[a] /\ (rows[a][i].fas # NoOne => rows'[a][i].fas # NoOne)

LEMMA TaskKept ==
  ASSUME TypeOK, IInv, Frame, NEW t \in Tasks, task'[t] = task[t]
  PROVE  TaskTrue(t)'
<1>1. TaskTrue(t) /\ (task[t].pc # "free" => task[t].account \in Accounts)
  BY DEF IInv, TypeOK, At
<1> QED BY <1>1 DEF Frame, TaskTrue

\* What is left to show of a step of task t.
LEMMA TaskStep ==
  ASSUME TypeOK, IInv, Frame, NEW t \in Tasks, NEW new, task' = [task EXCEPT ![t] = new],
         TaskTrue(t)', RowsTrue', SendersTrue'
  PROVE  IInv'
<1>1. \A x \in Tasks : x # t => task'[x] = task[x]
  BY DEF TypeOK
<1>2. \A x \in Tasks : TaskTrue(x)'
  BY <1>1, TaskKept
<1> QED BY <1>2 DEF IInv

\* The same when neither rows nor senders change.
LEMMA QuietStep ==
  ASSUME TypeOK, IInv, UNCHANGED <<rows, sender>>,
         \A a \in Accounts : installers[a] \subseteq installers'[a],
         \A a \in Accounts : issue[a] # "none" => issue'[a] # "none",
         NEW t \in Tasks, NEW new, task' = [task EXCEPT ![t] = new], TaskTrue(t)'
  PROVE  IInv'
<1>1. Frame
  BY DEF Frame
<1>2. SendersTrue'
  BY DEF IInv, SendersTrue
<1>3. ASSUME NEW a \in Accounts, NEW i \in DOMAIN rows'[a]
      PROVE  /\ rows'[a][i].fas # NoOne =>
                  \E p \in installers'[a] : <<rows'[a][i].fas, p>> \in Matching
             /\ rows'[a][i].status = "approved_automatically" => rows'[a][i].fas # NoOne
             /\ rows'[a][i].status = "waiting" => issue'[a] # "none"
  BY DEF IInv, RowsTrue
<1>4. RowsTrue'
  BY <1>3 DEF RowsTrue
<1> QED BY <1>1, <1>2, <1>4, TaskStep

LEMMA InvInit == Init => IInv
<1> SUFFICES ASSUME Init PROVE IInv
  OBVIOUS
<1>1. \A t \in Tasks : task[t].pc = "free"
  BY IdleType DEF Init
<1>2. \A a \in Accounts : rows[a] = <<>> /\ sender[a] = NoOne
  BY DEF Init, Namespaces
<1> QED BY <1>1, <1>2 DEF IInv, RowsTrue, SendersTrue, TaskTrue

LEMMA InvStep == TypeOK /\ TypeOK' /\ IInv /\ [Next]_vars => IInv'
<1> SUFFICES ASSUME TypeOK, TypeOK', IInv, [Next]_vars PROVE IInv'
  OBVIOUS
<1> USE ApprovalsAssumption DEF Gone
<1>a. ASSUME NEW t \in Tasks
      PROVE  /\ task[t] \in Task /\ task[t].kind \in DOMAIN FirstStep /\ TaskTrue(t)
             /\ task[t].pc # "free" => /\ task[t].account \in Accounts /\ task[t].person \in People
                                       /\ task[t].fas \in FasAccounts
  BY DEF TypeOK, Task, At, IInv
\* A task that goes on, not to where it writes.
<1>g. ASSUME NEW t \in Tasks, NEW new, task' = [task EXCEPT ![t] = new],
             UNCHANGED <<rows, sender, installers>>,
             \A a \in Accounts : issue[a] # "none" => issue'[a] # "none",
             new.pc # "free" =>
               /\ new.kind = task[t].kind /\ new.person = task[t].person
               /\ new.account = task[t].account /\ task[t].pc # "free"
               /\ new.pc \notin {"find", "write", "sender"}
               /\ \/ task[t].pc # "sender"
                  \/ task[t].person \in installers[task[t].account]
      PROVE  IInv'
  <2>1. task'[t] = new
    BY <1>g DEF TypeOK
  <2>2. TaskTrue(t)'
    BY <1>g, <1>a, <2>1 DEF TaskTrue
  <2> QED BY <1>g, <2>2, QuietStep
<1>1. ASSUME NEW t \in Tasks, NEW a \in Accounts, NEW p \in People, Install(t, a, p) PROVE IInv'
  <2> DEFINE new == Fresh("installation", FirstStep["installation"], a, p, p)
  <2>1. /\ task' = [task EXCEPT ![t] = new] /\ UNCHANGED <<rows, sender, issue>>
        /\ installers' = [installers EXCEPT ![a] = @ \cup {p}]
    BY <1>1 DEF Install, Start
  <2>2. new.kind = "installation" /\ new.account = a /\ new.person = p /\ new.pc = "read"
    BY FreshType, FirstSteps
  <2> HIDE DEF new
  <2>3. (\A x \in Accounts : installers[x] \subseteq installers'[x]) /\ p \in installers'[a]
    BY <2>1 DEF TypeOK
  <2>4. task'[t] = new
    BY <2>1 DEF TypeOK
  <2>5. TaskTrue(t)'
    BY <2>2, <2>3, <2>4 DEF TaskTrue
  <2> QED BY <2>1, <2>3, <2>5, QuietStep
<1>2. ASSUME NEW t \in Tasks, NEW a \in Accounts, NEW p \in People, NEW f \in FasAccounts,
             Comment(t, a, p, f)
      PROVE  IInv'
  <2> DEFINE new == Fresh("verification", FirstStep["verification"], a, p, f)
  <2>1. task' = [task EXCEPT ![t] = new] /\ UNCHANGED <<rows, sender, issue, installers>>
    BY <1>2 DEF Comment, Start
  <2>2. new.kind = "verification" /\ new.pc = "sender"
    BY FreshType, FirstSteps
  <2> HIDE DEF new
  <2>3. task'[t] = new
    BY <2>1 DEF TypeOK
  <2>4. TaskTrue(t)'
    BY <2>2, <2>3 DEF TaskTrue
  <2> QED BY <2>1, <2>4, QuietStep
<1>h. ASSUME NEW t \in Tasks, NEW step \in {"update", "decide", "query", "issue", "check"}, task[t].pc # "free",
             \/ Free(t)
             \/ /\ Go(t, step)
                /\ task[t].pc # "sender" \/ task[t].person \in installers[task[t].account],
             UNCHANGED <<rows, sender, installers>>,
             \A a \in Accounts : issue[a] # "none" => issue'[a] # "none"
      PROVE  IInv'
  <2>1. CASE /\ Go(t, step)
             /\ task[t].pc # "sender" \/ task[t].person \in installers[task[t].account]
    <3> DEFINE new == [task[t] EXCEPT !.pc = step]
    <3>1. task' = [task EXCEPT ![t] = new]
      BY <2>1 DEF Go
    <3>2. /\ new.kind = task[t].kind /\ new.person = task[t].person
          /\ new.account = task[t].account /\ new.pc = step
      BY <1>a DEF Task
    <3> HIDE DEF new
    <3> QED BY <1>g, <1>h, <2>1, <3>1, <3>2
  <2>2. CASE Free(t)
    BY <1>g, <1>h, <2>2, IdleType DEF Free
  <2> QED BY <1>h, <2>1, <2>2
<1>3. ASSUME NEW t \in Tasks, ReadPrevious(t) PROVE IInv'
  <2> DEFINE new == [task[t] EXCEPT !.previous = sender[task[t].account], !.pc = "update"]
  <2>1. /\ task[t].pc = "read" /\ UNCHANGED <<rows, sender, issue, installers>>
        /\ task' = [task EXCEPT ![t].previous = sender[task[t].account], ![t].pc = "update"]
    BY <1>3 DEF ReadPrevious, At
  <2>2. task' = [task EXCEPT ![t] = new]
    BY <2>1 DEF TypeOK
  <2>3. /\ new.kind = task[t].kind /\ new.person = task[t].person
        /\ new.account = task[t].account /\ new.pc = "update"
    BY <1>a DEF Task
  <2> HIDE DEF new
  <2> QED BY <1>g, <2>1, <2>2, <2>3
<1>4. ASSUME NEW t \in Tasks, create_or_update(t) PROVE IInv'
  <2> DEFINE new == [task[t] EXCEPT !.pc = "decide"]
  <2>1. /\ task[t].pc = "update" /\ UNCHANGED <<rows, issue, installers>>
        /\ sender' = [sender EXCEPT ![task[t].account] = task[t].person]
        /\ task' = [task EXCEPT ![t] = new]
    BY <1>4 DEF create_or_update, At, Go
  <2>2. /\ new.kind = task[t].kind /\ new.person = task[t].person
        /\ new.account = task[t].account /\ new.pc = "decide"
    BY <1>a DEF Task
  <2> HIDE DEF new
  <2>3. task'[t] = new
    BY <2>1 DEF TypeOK
  <2>4. task[t].account \in Accounts /\ task[t].person \in installers[task[t].account]
    BY <2>1, <1>a DEF TaskTrue
  <2>5. TaskTrue(t)'
    BY <2>1, <2>2, <2>3, <2>4 DEF TaskTrue
  <2>6. SendersTrue'
    BY <2>1, <2>4 DEF SendersTrue, IInv, TypeOK
  <2>7. Frame /\ RowsTrue'
    BY <2>1 DEF Frame, IInv, RowsTrue
  <2> QED BY <2>1, <2>5, <2>6, <2>7, TaskStep
<1>5. ASSUME NEW t \in Tasks, Decide(t) PROVE IInv'
  <2>1. /\ task[t].pc = "decide" /\ (Go(t, "query") \/ Free(t))
        /\ UNCHANGED <<rows, sender, issue, installers>>
    BY <1>5 DEF Decide, At
  <2> QED BY <2>1, <1>h
<1>6. ASSUME NEW t \in Tasks, NoMatch(t) PROVE IInv'
  <2>1. /\ task[t].pc = "query" /\ (Go(t, "issue") \/ Free(t))
        /\ UNCHANGED <<rows, sender, issue, installers>>
    BY <1>6 DEF NoMatch, At
  <2> QED BY <2>1, <1>h
<1>7. ASSUME NEW t \in Tasks, CheckSender(t) PROVE IInv'
  <2>1. /\ task[t].pc = "sender" /\ UNCHANGED <<rows, sender, issue, installers>>
        /\ Free(t) \/ (Go(t, "check") /\ sender[task[t].account] = task[t].person)
    BY <1>7 DEF CheckSender, At
  <2>2. sender[task[t].account] = task[t].person => task[t].person \in installers[task[t].account]
    BY <2>1, <1>a DEF IInv, SendersTrue
  <2> QED BY <2>1, <2>2, <1>h
<1>8. ASSUME NEW t \in Tasks, verify(t) PROVE IInv'
  <2>1. /\ task[t].pc = "check" /\ (Go(t, "query") \/ Free(t))
        /\ UNCHANGED <<rows, sender, installers>>
        /\ issue' \in {issue, [issue EXCEPT ![task[t].account] = "closed"]}
    BY <1>8 DEF verify, At
  <2>2. \A a \in Accounts : issue[a] # "none" => issue'[a] # "none"
    BY <2>1 DEF TypeOK
  <2> QED BY <2>1, <2>2, <1>h
<1>9. ASSUME NEW t \in Tasks, Match(t) PROVE IInv'
  <2>1. /\ task[t].pc = "query" /\ <<task[t].fas, task[t].person>> \in Matching
        /\ task' = [task EXCEPT ![t].status = "approved_automatically", ![t].pc = "find"]
        /\ UNCHANGED <<rows, sender, installers>>
        /\ issue' \in {issue, [issue EXCEPT ![task[t].account] = "closed"]}
    BY <1>9 DEF Match, At, is_github_username_from_fas_account_matching
  <2>2. \A a \in Accounts : issue[a] # "none" => issue'[a] # "none"
    BY <2>1 DEF TypeOK
  <2> DEFINE new == [task[t] EXCEPT !.status = "approved_automatically", !.pc = "find"]
  <2>n. task' = [task EXCEPT ![t] = new]
    BY <2>1 DEF TypeOK
  <2>w. /\ new.kind = task[t].kind /\ new.person = task[t].person /\ new.fas = task[t].fas
        /\ new.account = task[t].account /\ new.pc = "find" /\ new.status = "approved_automatically"
    BY <1>a DEF Task
  <2> HIDE DEF new
  <2>d. /\ task[t].pc \in {"query", "issue"}
        /\ \/ new.status = "approved_automatically" /\ <<task[t].fas, task[t].person>> \in Matching
           \/ new.status = "waiting" /\ issue'[task[t].account] # "none"
    BY <2>1, <2>w
  <2>t. task'[t] = new
    BY <2>n DEF TypeOK
  <2>u. TaskTrue(t)'
    BY <2>1, <2>2, <2>w, <2>d, <2>t, <1>a DEF TaskTrue
  <2> QED BY <2>1, <2>2, <2>n, <2>u, QuietStep
<1>10. ASSUME NEW t \in Tasks, CreateIssue(t) PROVE IInv'
  <2>1. /\ task[t].pc = "issue"
        /\ task' = [task EXCEPT ![t].status = "waiting", ![t].pc = "find"]
        /\ UNCHANGED <<rows, sender, installers>>
        /\ issue' = [issue EXCEPT ![task[t].account] = "open"]
    BY <1>10 DEF CreateIssue, At
  <2>2. \A a \in Accounts : issue[a] # "none" => issue'[a] # "none"
    BY <2>1 DEF TypeOK
  <2>3. issue'[task[t].account] # "none"
    BY <2>1, <1>a DEF TypeOK
  <2> DEFINE new == [task[t] EXCEPT !.status = "waiting", !.pc = "find"]
  <2>n. task' = [task EXCEPT ![t] = new]
    BY <2>1 DEF TypeOK
  <2>w. /\ new.kind = task[t].kind /\ new.person = task[t].person /\ new.fas = task[t].fas
        /\ new.account = task[t].account /\ new.pc = "find" /\ new.status = "waiting"
    BY <1>a DEF Task
  <2> HIDE DEF new
  <2>d. /\ task[t].pc \in {"query", "issue"}
        /\ \/ new.status = "approved_automatically" /\ <<task[t].fas, task[t].person>> \in Matching
           \/ new.status = "waiting" /\ issue'[task[t].account] # "none"
    BY <2>1, <2>3, <2>w
  <2>t. task'[t] = new
    BY <2>n DEF TypeOK
  <2>u. TaskTrue(t)'
    BY <2>1, <2>2, <2>w, <2>d, <2>t, <1>a DEF TaskTrue
  <2> QED BY <2>1, <2>2, <2>n, <2>u, QuietStep
<1>11. ASSUME NEW t \in Tasks, FindRow(t) PROVE IInv'
  <2> DEFINE r == rows[task[t].account]
  <2>1. task[t].pc = "find" /\ UNCHANGED <<rows, sender, issue, installers>>
    BY <1>11 DEF FindRow, At
  <2>2. r \in Seq(EntryRow)
    BY <2>1, <1>a DEF TypeOK, Namespaces
  <2>3. PICK i \in IF r = <<>> THEN {0} ELSE DOMAIN r :
          task' = [task EXCEPT ![t].row = i, ![t].pc = "write",
                               ![t].seen = IF i = 0 THEN @ ELSE r[i]]
    BY <1>11 DEF FindRow
  <2>4. i = 0 \/ i \in DOMAIN r
    BY <2>3
  <2> DEFINE seen == IF i = 0 THEN task[t].seen ELSE r[i]
             new == [task[t] EXCEPT !.row = i, !.pc = "write", !.seen = seen]
  <2>5. task' = [task EXCEPT ![t] = new]
    BY <2>3 DEF seen, TypeOK, Task
  <2>6. i # 0 => seen = r[i]
    OBVIOUS
  <2> HIDE DEF seen
  <2>7. /\ new.kind = task[t].kind /\ new.person = task[t].person /\ new.fas = task[t].fas
        /\ new.account = task[t].account /\ new.pc = "write" /\ new.status = task[t].status
        /\ new.row = i /\ new.seen = seen
    BY <1>a DEF Task
  <2> HIDE DEF new
  <2>8. task'[t] = new
    BY <2>5 DEF TypeOK
  <2>9. TaskTrue(t)'
    BY <2>1, <2>4, <2>6, <2>7, <2>8, <1>a DEF TaskTrue
  <2> QED BY <2>1, <2>5, <2>9, QuietStep
<1>12. ASSUME NEW t \in Tasks, WriteRow(t) PROVE IInv'
  <2> DEFINE x == task[t]
             r == rows[x.account]
             fas == FasOf(t)
             entry == [status |-> x.status, fas |-> fas]
  <2>1. x.pc = "write" /\ Free(t) /\ UNCHANGED <<sender, issue, installers>>
    BY <1>12 DEF WriteRow, At
  <2>2. x.account \in Accounts /\ r \in Seq(EntryRow) /\ Len(r) <= MaxRows /\ Len(r) \in Nat
    BY <2>1, <1>a DEF TypeOK, Namespaces
  <2>3. \/ /\ x.status = "approved_automatically" /\ fas # NoOne
           /\ \E p \in installers[x.account] : <<fas, p>> \in Matching
        \/ x.status = "waiting" /\ fas = NoOne /\ issue[x.account] # "none"
    <3>1. CASE x.status = "approved_automatically"
      <4>1. /\ fas = x.fas /\ x.fas \in FasAccounts /\ <<x.fas, x.person>> \in Matching
            /\ x.person \in installers[x.account]
        BY <2>1, <3>1, <1>a DEF TaskTrue, FasOf
      <4> QED BY <3>1, <4>1
    <3>2. CASE x.status # "approved_automatically"
      BY <2>1, <3>2, <1>a DEF TaskTrue, FasOf
    <3> QED BY <3>1, <3>2
  <2> HIDE DEF fas
  <2>r. \A i \in DOMAIN r : /\ r[i].fas # NoOne => \E p \in installers[x.account] : <<r[i].fas, p>> \in Matching
                            /\ r[i].status = "approved_automatically" => r[i].fas # NoOne
                            /\ r[i].status = "waiting" => issue[x.account] # "none"
    BY <2>2 DEF IInv, RowsTrue
  \* The new rows of the account.
  <2> DEFINE Right(s) ==
        /\ \A i \in DOMAIN r : i \in DOMAIN s /\ (r[i].fas # NoOne => s[i].fas # NoOne)
        /\ \A i \in DOMAIN s :
             /\ s[i].fas # NoOne => \E p \in installers[x.account] : <<s[i].fas, p>> \in Matching
             /\ s[i].status = "approved_automatically" => s[i].fas # NoOne
             /\ s[i].status = "waiting" => issue[x.account] # "none"
  <2>4. PICK s \in {rows'[x.account]} : rows' = [rows EXCEPT ![x.account] = s] /\ Right(s)
    <3>1. CASE x.row = 0
      <4>1. rows' = [rows EXCEPT ![x.account] = Append(r, entry)]
        BY <1>12, <3>1 DEF WriteRow, fas
      <4>2. rows'[x.account] = Append(r, entry)
        BY <4>1, <2>2 DEF TypeOK, Namespaces
      <4> DEFINE s == Append(r, entry)
      <4>3. /\ DOMAIN s = 1..(Len(r) + 1) /\ DOMAIN r = 1..Len(r)
            /\ \A i \in 1..Len(r) : s[i] = r[i]
            /\ s[Len(r) + 1] = entry /\ entry.fas = fas /\ entry.status = x.status
        BY <2>2
      <4> HIDE DEF s, entry
      <4>4. Right(s)
        <5>1. \A i \in DOMAIN r : i \in DOMAIN s /\ s[i] = r[i]
          BY <2>2, <4>3
        <5>2. ASSUME NEW i \in DOMAIN s
              PROVE  /\ s[i].fas # NoOne => \E p \in installers[x.account] : <<s[i].fas, p>> \in Matching
                     /\ s[i].status = "approved_automatically" => s[i].fas # NoOne
                     /\ s[i].status = "waiting" => issue[x.account] # "none"
          <6>1. CASE i \in DOMAIN r
            BY <6>1, <5>1, <2>r
          <6>2. CASE i = Len(r) + 1
            <7>1. s[i].fas = fas /\ s[i].status = x.status
              BY <6>2, <4>3
            <7>2. CASE x.status = "waiting" /\ fas = NoOne /\ issue[x.account] # "none"
              <8>1. "waiting" # "approved_automatically"
                OBVIOUS
              <8> QED BY <7>1, <7>2, <8>1
            <7>3. CASE /\ x.status = "approved_automatically" /\ fas # NoOne
                       /\ \E p \in installers[x.account] : <<fas, p>> \in Matching
              <8>1. "waiting" # "approved_automatically"
                OBVIOUS
              <8> QED BY <7>1, <7>3, <8>1
            <7> QED BY <7>2, <7>3, <2>3
          <6>3. i \in DOMAIN r \/ i = Len(r) + 1
            BY <4>3, <2>2
          <6> QED BY <6>1, <6>2, <6>3
        <5> QED BY <5>1, <5>2
      <4> QED BY <4>1, <4>2, <4>4 DEF s
    <3>2. CASE x.row # 0 /\ x.row \in DOMAIN r
      <4> DEFINE changed == Changed(r[x.row], x.seen, x.status, fas)
                 s == [r EXCEPT ![x.row] = changed]
      <4>1. rows' = [rows EXCEPT ![x.account] = s]
        BY <1>12, <3>2 DEF WriteRow, fas
      <4>2. rows'[x.account] = s
        BY <4>1, <2>2 DEF TypeOK, Namespaces
      <4>3. /\ changed.status = IF x.status = x.seen.status THEN r[x.row].status ELSE x.status
            /\ changed.fas = IF fas \in {NoOne, x.seen.fas} THEN r[x.row].fas ELSE fas
        BY DEF Changed
      <4>4. x.seen.fas # NoOne => r[x.row].fas # NoOne
        <5>1. x.row # Gone
          BY <2>2, <3>2
        <5> QED BY <2>1, <3>2, <5>1, <1>a DEF TaskTrue
      <4>5. /\ DOMAIN s = DOMAIN r /\ s[x.row] = changed
            /\ \A i \in DOMAIN r : i # x.row => s[i] = r[i]
        BY <2>2, <3>2
      <4> HIDE DEF s, changed
      <4>6. /\ r[x.row].fas # NoOne => changed.fas # NoOne
            /\ changed.fas # NoOne => \E p \in installers[x.account] : <<changed.fas, p>> \in Matching
            /\ changed.status = "approved_automatically" => changed.fas # NoOne
            /\ changed.status = "waiting" => issue[x.account] # "none"
        BY <2>3, <2>r, <3>2, <4>3, <4>4
      <4>7. Right(s)
        BY <2>r, <3>2, <4>5, <4>6
      <4> QED BY <4>1, <4>2, <4>7
    <3>3. CASE x.row # 0 /\ x.row \notin DOMAIN r
      <4>1. rows' = rows
        BY <1>12, <3>3 DEF WriteRow
      <4>2. rows' = [rows EXCEPT ![x.account] = r] /\ rows'[x.account] = r
        BY <4>1, <2>2 DEF TypeOK, Namespaces
      <4>3. Right(r)
        BY <2>r
      <4> QED BY <4>2, <4>3
    <3> QED BY <3>1, <3>2, <3>3
  <2> HIDE DEF r
  <2>5. rows'[x.account] = s /\ \A a \in Accounts : a # x.account => rows'[a] = rows[a]
    BY <2>2, <2>4 DEF TypeOK, Namespaces
  <2>6. Frame
    BY <2>1, <2>4, <2>5 DEF Frame, r
  <2>7. ASSUME NEW a \in Accounts, NEW i \in DOMAIN rows'[a]
        PROVE  /\ rows'[a][i].fas # NoOne => \E p \in installers[a] : <<rows'[a][i].fas, p>> \in Matching
               /\ rows'[a][i].status = "approved_automatically" => rows'[a][i].fas # NoOne
               /\ rows'[a][i].status = "waiting" => issue[a] # "none"
    <3>1. CASE a = x.account
      BY <2>4, <2>5, <2>7, <3>1
    <3>2. CASE a # x.account
      BY <2>5, <3>2 DEF IInv, RowsTrue
    <3> QED BY <3>1, <3>2
  <2>8. RowsTrue'
    BY <2>1, <2>7 DEF RowsTrue
  <2>9. SendersTrue'
    BY <2>1 DEF IInv, SendersTrue
  <2>10. task' = [task EXCEPT ![t] = Idle] /\ task'[t].pc = "free"
    BY <2>1, IdleType DEF Free, TypeOK
  <2>11. TaskTrue(t)'
    BY <2>10 DEF TaskTrue
  <2> QED BY <2>6, <2>8, <2>9, <2>10, <2>11, TaskStep
<1>13. ASSUME NEW n \in Namespaces, NEW status \in {"approved_manually", "denied"},
              SetStatus(n, status)
       PROVE  IInv'
  <2>1. rows[n] \in Seq(EntryRow) /\ UNCHANGED <<sender, issue, task, installers>>
    BY <1>13 DEF SetStatus, TypeOK
  <2>2. ASSUME NEW a \in Accounts, NEW i \in DOMAIN rows'[a]
        PROVE  \/ i \in DOMAIN rows[a] /\ rows'[a][i] = rows[a][i]
               \/ i \in DOMAIN rows[a] /\ rows'[a][i].fas = rows[a][i].fas /\ rows'[a][i].status = status
               \/ rows'[a][i].fas = NoOne /\ rows'[a][i].status = status
    <3>1. CASE a # n
      BY <1>13, <3>1 DEF SetStatus, TypeOK, Namespaces
    <3>2. CASE a = n /\ rows[n] = <<>>
      <4>1. rows'[a] = <<[status |-> status, fas |-> NoOne]>>
        BY <1>13, <3>2 DEF SetStatus, TypeOK
      <4> QED BY <2>2, <4>1
    <3>3. CASE a = n /\ rows[n] # <<>>
      <4>1. PICK j \in DOMAIN rows[n] : rows' = [rows EXCEPT ![n][j].status = status]
        BY <1>13, <3>3 DEF SetStatus
      <4>2. rows'[n] = [rows[n] EXCEPT ![j].status = status]
        BY <4>1 DEF TypeOK
      <4>3. i \in DOMAIN rows[n] /\ rows[n][j] \in EntryRow
        BY <2>1, <2>2, <3>3, <4>1, <4>2
      <4>4. CASE i = j
        BY <3>3, <4>2, <4>3, <4>4 DEF EntryRow
      <4>5. CASE i # j
        BY <3>3, <4>2, <4>3, <4>5
      <4> QED BY <4>4, <4>5
    <3> QED BY <3>1, <3>2, <3>3
  <2>3. ASSUME NEW a \in Accounts, NEW i \in DOMAIN rows[a]
        PROVE  i \in DOMAIN rows'[a] /\ rows'[a][i].fas = rows[a][i].fas
    <3>1. CASE a # n
      BY <1>13, <3>1 DEF SetStatus, TypeOK, Namespaces
    <3>2. CASE a = n
      <4>1. PICK j \in DOMAIN rows[n] : rows' = [rows EXCEPT ![n][j].status = status]
        BY <1>13, <2>3, <3>2 DEF SetStatus
      <4>2. rows'[n] = [rows[n] EXCEPT ![j].status = status] /\ rows[n][j] \in EntryRow
        BY <2>1, <4>1 DEF TypeOK
      <4>3. i \in DOMAIN rows'[a]
        BY <2>3, <3>2, <4>2
      <4>4. CASE i = j
        BY <3>2, <4>2, <4>3, <4>4 DEF EntryRow
      <4>5. CASE i # j
        BY <3>2, <4>2, <4>3, <4>5
      <4> QED BY <4>3, <4>4, <4>5
    <3> QED BY <3>1, <3>2
  <2>4. status # "approved_automatically" /\ status # "waiting"
    OBVIOUS
  <2>5. ASSUME NEW a \in Accounts, NEW i \in DOMAIN rows'[a]
        PROVE  /\ rows'[a][i].fas # NoOne => \E p \in installers[a] : <<rows'[a][i].fas, p>> \in Matching
               /\ rows'[a][i].status = "approved_automatically" => rows'[a][i].fas # NoOne
               /\ rows'[a][i].status = "waiting" => issue[a] # "none"
    BY <2>2, <2>4 DEF IInv, RowsTrue
  <2>6. RowsTrue' /\ SendersTrue'
    BY <2>1, <2>5 DEF RowsTrue, IInv, SendersTrue
  <2>7. Frame
    BY <2>1, <2>3 DEF Frame
  <2>8. \A t \in Tasks : TaskTrue(t)'
    BY <2>1, <2>7, TaskKept
  <2> QED BY <2>6, <2>8 DEF IInv
<1>14. ASSUME NEW n \in Namespaces, remove_namespace(n) PROVE IInv'
  <2>1. /\ rows' = [rows EXCEPT ![n] = <<>>] /\ UNCHANGED <<sender, issue, installers>>
        /\ \A a \in Accounts : a # n => rows'[a] = rows[a]
        /\ rows'[n] = <<>>
    BY <1>14 DEF remove_namespace, TypeOK, Namespaces
  <2>2. ASSUME NEW a \in Accounts, NEW i \in DOMAIN rows'[a] PROVE a # n
    BY <2>1, <2>2
  <2>3. ASSUME NEW a \in Accounts, NEW i \in DOMAIN rows'[a]
        PROVE  /\ rows'[a][i].fas # NoOne => \E p \in installers[a] : <<rows'[a][i].fas, p>> \in Matching
               /\ rows'[a][i].status = "approved_automatically" => rows'[a][i].fas # NoOne
               /\ rows'[a][i].status = "waiting" => issue[a] # "none"
    BY <2>1, <2>2 DEF IInv, RowsTrue
  <2>4. RowsTrue' /\ SendersTrue'
    BY <2>1, <2>3 DEF RowsTrue, IInv, SendersTrue
  <2>5. ASSUME NEW t \in Tasks PROVE TaskTrue(t)'
    <3>1. CASE task[t].pc = "write" /\ task[t].account = n /\ task[t].row # 0
      <4> DEFINE new == [task[t] EXCEPT !.row = Gone]
      <4>1. task'[t] = new
        BY <1>14, <3>1 DEF remove_namespace
      <4>2. /\ new.kind = task[t].kind /\ new.person = task[t].person /\ new.fas = task[t].fas
            /\ new.account = task[t].account /\ new.pc = "write" /\ new.status = task[t].status
            /\ new.row = Gone
        BY <3>1, <1>a DEF Task
      <4> HIDE DEF new
      <4> QED BY <2>1, <3>1, <4>1, <4>2, <1>a DEF TaskTrue
    <3>2. CASE ~(task[t].pc = "write" /\ task[t].account = n /\ task[t].row # 0)
      <4>1. task'[t] = task[t]
        BY <1>14, <3>2 DEF remove_namespace
      <4> QED BY <2>1, <3>2, <4>1, <1>a DEF TaskTrue
    <3> QED BY <3>1, <3>2
  <2> QED BY <2>4, <2>5 DEF IInv
<1>15. ASSUME NEW t \in Tasks, Crash(t) PROVE IInv'
  <2> DEFINE x == task[t]
             new == Fresh(x.kind, FirstStep[x.kind], x.account, x.person, x.fas)
  <2>1. /\ x.pc # "free" /\ task' = [task EXCEPT ![t] = new]
        /\ UNCHANGED <<rows, sender, issue, installers>>
    BY <1>15 DEF Crash, At, TypeOK
  <2>2. /\ new.kind = x.kind /\ new.person = x.person /\ new.account = x.account
        /\ new.pc = FirstStep[x.kind]
    BY <2>1, <1>a, FreshType, FirstSteps
  <2>3. \/ x.kind = "installation" /\ new.pc = "read"
        \/ x.kind = "verification" /\ new.pc = "sender"
    BY <2>2, <1>a, FirstSteps
  <2> HIDE DEF new
  <2>4. task'[t] = new
    BY <2>1 DEF TypeOK
  <2>5. TaskTrue(t)'
    BY <2>1, <2>2, <2>3, <2>4, <1>a DEF TaskTrue
  <2> QED BY <2>1, <2>5, QuietStep
<1>16. CASE UNCHANGED vars
  BY <1>16 DEF vars, IInv, RowsTrue, SendersTrue, TaskTrue
<1>17. ASSUME NEW n \in Namespaces, approve_namespace(n) \/ deny_namespace(n) PROVE IInv'
  BY <1>13, <1>17 DEF approve_namespace, deny_namespace
<1>18. ASSUME NEW t \in Tasks, Step(t) PROVE IInv'
  BY <1>3, <1>4, <1>5, <1>6, <1>7, <1>8, <1>9, <1>10, <1>11, <1>12, <1>18 DEF Step
<1> QED BY <1>1, <1>2, <1>14, <1>15, <1>16, <1>17, <1>18 DEF Next

LEMMA Invariant == Spec => []IInv
<1>1. Spec => []TypeOK
  BY TypeCorrect
<1> QED BY <1>1, InvInit, InvStep, PTL DEF Spec

\* Nobody is approved automatically but with the FAS account of somebody who has
\* installed the App, for any number of tasks, people, rows and deaths.
THEOREM ApprovalsAreOfInstallers == Spec => []ApprovedInstaller
<1>1. IInv => ApprovedInstaller
  BY DEF IInv, RowsTrue, ApprovedInstaller
<1> QED BY <1>1, Invariant, PTL

\* Who waits for an approval has an issue to ask for it in.
THEOREM WaitingIsAnswerable == Spec => []WaitingHasIssue
<1>1. IInv => WaitingHasIssue
  BY DEF IInv, RowsTrue, WaitingHasIssue
<1> QED BY <1>1, Invariant, PTL
=============================================================================
