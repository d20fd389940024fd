------------------------------ MODULE Approvals ------------------------------
(***************************************************************************)
(* How a namespace gets its entry in the allowlist: the task of an         *)
(* installation of the GitHub App (GithubAppInstallationHandler), the task *)
(* of a comment "verify-fas" in the issue that it opens                    *)
(* (GithubFasVerificationHandler), and the admins' commands.               *)
(*                                                                         *)
(* A task is a Celery task of a worker: it may die between two statements  *)
(* and is then delivered again (acks_late, TaskWithRetry).  The table has  *)
(* no unique key for the namespace and add_namespace reads before it       *)
(* writes, so a namespace may get two rows; first() then returns either.   *)
(***************************************************************************)
EXTENDS Allowlist, Naturals, Sequences

CONSTANTS Accounts,     \* the GitHub accounts with an installation
          Host,         \* the namespace above all accounts
          People,       \* GitHub users, named as in FAS
          FasAccounts,  \* the accounts of the Fedora Account System
          Matching,     \* <<f, p>>: the public profile of f names p
          Tasks,        \* the installation and verification tasks
          AdminNamespaces, \* what the admins touch
          MaxRows,      \* bound on the rows of one namespace
          MaxTasks,     \* bound on the tasks started
          MaxCrashes,   \* bound on the deaths of workers
          NoOne         \* no person, no FAS account

Gone == 99
ASSUME ApprovalsAssumption ==
  /\ Host \notin Accounts /\ NoOne \notin Accounts \cup People
  /\ People \subseteq FasAccounts /\ NoOne \notin FasAccounts
  /\ Matching \subseteq FasAccounts \X People
  /\ AdminNamespaces \subseteq Accounts \cup {Host}
  /\ MaxRows \in 1..(Gone - 1) /\ MaxTasks \in Nat /\ MaxCrashes \in Nat

VARIABLES rows,        \* AllowlistModel: the rows of each namespace
          sender,      \* GithubInstallationModel.sender_login of each account
          issue,       \* the issue in the notifications repository
          task,
          started,
          crashes,
          installers   \* who has ever installed the App for the account
vars == <<rows, sender, issue, task, started, crashes, installers>>

Namespaces == Accounts \cup {Host}
EntryRow == [status : Statuses, fas : FasAccounts \cup {NoOne}]
FirstStep == [installation |-> "read", verification |-> "sender"]
Steps == {"free", "read", "update", "decide", "query", "issue", "find", "write", "sender", "check"}

\* A task: what it is, where it is, its arguments and what it has read.  row is
\* the index of the row read (0: there was none, Gone: it has been deleted since).
Task == [kind : DOMAIN FirstStep, pc : Steps, account : Accounts \cup {NoOne},
         person : People \cup {NoOne}, fas : FasAccounts \cup {NoOne},
         previous : People \cup {NoOne}, status : Statuses,
         row : 0..MaxRows \cup {Gone}, seen : EntryRow]
Fresh(kind, pc, a, p, f) ==
  [kind |-> kind, pc |-> pc, account |-> a, person |-> p, fas |-> f, previous |-> NoOne,
   status |-> "waiting", row |-> 0, seen |-> [status |-> "waiting", fas |-> NoOne]]
Idle == Fresh("installation", "free", NoOne, NoOne, NoOne)
At(t, step) == task[t].pc = step
Go(t, step) == task' = [task EXCEPT ![t].pc = step]
Free(t) == task' = [task EXCEPT ![t] = Idle]

\* Each get_namespace returns one of the rows: any, there is no ORDER BY.
Read(entry) ==
  /\ DOMAIN entry = Namespaces
  /\ \A n \in Namespaces :
       IF rows[n] = <<>> THEN entry[n] = "none"
       ELSE \E i \in DOMAIN rows[n] : entry[n] = rows[n][i].status
Entries == {entry \in [Namespaces -> Statuses \cup {"none"}] : Read(entry)}
Approves(entry, a) == is_namespace_or_parent_approved(entry, <<a, Host>>)

Init ==
  /\ rows = [n \in Namespaces |-> <<>>]
  /\ sender = [a \in Accounts |-> NoOne]
  /\ issue = [a \in Accounts |-> "none"]
  /\ task = [t \in Tasks |-> Idle]
  /\ started = 0 /\ crashes = 0
  /\ installers = [a \in Accounts |-> {}]

\* ------------------------------------------------- the two kinds of task
\* SteveJobs.process makes a task.
Start(t, kind, a, p, f) ==
  /\ At(t, "free")
  /\ task' = [task EXCEPT ![t] = Fresh(kind, FirstStep[kind], a, p, f)]
  /\ started < MaxTasks /\ started' = started + 1
  /\ UNCHANGED <<rows, sender, issue, crashes>>

\* A GitHub user installs the App for an account (or installs it again); the
\* FAS account asked about is the one with the sender's name.
Install(t, a, p) ==
  /\ Start(t, "installation", a, p, p)
  /\ installers' = [installers EXCEPT ![a] = @ \cup {p}]

\* Anybody comments "verify-fas" with any FAS account in Packit's issue.
Comment(t, a, p, f) ==
  /\ issue[a] # "none"
  /\ Start(t, "verification", a, p, f)
  /\ UNCHANGED installers

ReadPrevious(t) ==
  /\ At(t, "read")
  /\ task' = [task EXCEPT ![t].previous = sender[task[t].account], ![t].pc = "update"]
  /\ UNCHANGED <<started, rows, sender, issue, crashes, installers>>

\* One step here: the row is read and inserted or changed.
create_or_update(t) ==
  /\ At(t, "update")
  /\ sender' = [sender EXCEPT ![task[t].account] = task[t].person]
  /\ Go(t, "decide")
  /\ UNCHANGED <<started, rows, issue, crashes, installers>>

\* Mutant: only a change of the sender is looked at.
DecideChanged(t) ==
  LET x == task[t] IN
  /\ At(t, "decide")
  /\ \E entry \in Entries :
       IF x.previous # NoOne /\ ~Approves(entry, x.account) /\ x.previous # x.person
       THEN Go(t, "query") ELSE Free(t)
  /\ UNCHANGED <<started, rows, sender, issue, crashes, installers>>

\* No entry, or not approved and installed by somebody else than before.
Decide(t) ==
  LET x == task[t] IN
  /\ At(t, "decide")
  /\ \E entry \in Entries :
       IF \/ entry[x.account] = "none"
          \/ x.previous # NoOne /\ ~Approves(entry, x.account) /\ x.previous # x.person
       THEN Go(t, "query") ELSE Free(t)
  /\ UNCHANGED <<started, rows, sender, issue, crashes, installers>>

\* FAS: any failure, and a private profile, is no match.
is_github_username_from_fas_account_matching(t) == <<task[t].fas, task[t].person>> \in Matching

\* A match of an installation adds the entry; of a verification, after the
\* issue has been closed.
Match(t) ==
  LET x == task[t] IN
  /\ At(t, "query")
  /\ is_github_username_from_fas_account_matching(t)
  /\ task' = [task EXCEPT ![t].status = "approved_automatically", ![t].pc = "find"]
  /\ issue' = IF x.kind = "verification" THEN [issue EXCEPT ![x.account] = "closed"] ELSE issue
  /\ UNCHANGED <<started, rows, sender, crashes, installers>>

\* Mutant: the entry is made before the issue.
NoMatchEntryFirst(t) ==
  /\ At(t, "query")
  /\ IF task[t].kind = "installation"
     THEN task' = [task EXCEPT ![t].status = "waiting", ![t].pc = "find"] ELSE Free(t)
  /\ UNCHANGED <<started, rows, sender, issue, crashes, installers>>

NoMatch(t) ==
  /\ At(t, "query")
  /\ IF task[t].kind = "installation" THEN Go(t, "issue") ELSE Free(t)
  /\ UNCHANGED <<started, rows, sender, issue, crashes, installers>>

\* create_issue_if_needed looks for open issues only.
CreateIssue(t) ==
  /\ At(t, "issue")
  /\ issue' = [issue EXCEPT ![task[t].account] = "open"]
  /\ task' = [task EXCEPT ![t].status = "waiting", ![t].pc = "find"]
  /\ UNCHANGED <<started, rows, sender, crashes, installers>>

\* Mutant: anybody may verify.
CheckSenderAnybody(t) ==
  /\ At(t, "sender")
  /\ Go(t, "check")
  /\ UNCHANGED <<started, rows, sender, issue, crashes, installers>>

\* Only who installed the App may verify; without an installation the handler
\* fails.
CheckSender(t) ==
  /\ At(t, "sender")
  /\ IF sender[task[t].account] = task[t].person THEN Go(t, "check") ELSE Free(t)
  /\ UNCHANGED <<started, rows, sender, issue, crashes, installers>>

verify(t) ==
  LET a == task[t].account IN
  /\ At(t, "check")
  /\ \E entry \in Entries :
       /\ IF Approves(entry, a) \/ is_denied(entry, a) THEN Free(t) ELSE Go(t, "query")
       /\ issue' = IF Approves(entry, a) THEN [issue EXCEPT ![a] = "closed"] ELSE issue
  /\ UNCHANGED <<started, rows, sender, crashes, installers>>

\* ------------------------------------------------- AllowlistModel
\* add_namespace: the row is read, then changed or inserted and committed.
\* Only columns whose value changes are written.
FindRow(t) ==
  LET r == rows[task[t].account] IN
  /\ At(t, "find")
  /\ \E i \in IF r = <<>> THEN {0} ELSE DOMAIN r :
       task' = [task EXCEPT ![t].row = i, ![t].pc = "write",
                            ![t].seen = IF i = 0 THEN @ ELSE r[i]]
  /\ UNCHANGED <<started, rows, sender, issue, crashes, installers>>

FasOf(t) == IF task[t].status = "waiting" THEN NoOne ELSE task[t].fas
Changed(old, seen, status, fas) ==
  [status |-> IF status = seen.status THEN old.status ELSE status,
   fas |-> IF fas \in {NoOne, seen.fas} THEN old.fas ELSE fas]

\* Mutant: a new row every time.
WriteRowInsert(t) ==
  LET x == task[t] IN
  /\ At(t, "write")
  /\ rows' = [rows EXCEPT ![x.account] = Append(@, [status |-> x.status, fas |-> FasOf(t)])]
  /\ Free(t)
  /\ UNCHANGED <<started, sender, issue, crashes, installers>>

\* A row deleted meanwhile: StaleDataError, which no autoretry_for names, and the task ends.
WriteRow(t) ==
  LET x == task[t]
      r == rows[x.account]
  IN /\ At(t, "write")
     /\ x.row = 0 => Len(r) < MaxRows
     /\ IF x.row = 0
        THEN rows' = [rows EXCEPT ![x.account] =
                         Append(r, [status |-> x.status, fas |-> FasOf(t)])]
        ELSE IF x.row \in DOMAIN r
        THEN rows' = [rows EXCEPT ![x.account] =
                         [r EXCEPT ![x.row] = Changed(r[x.row], x.seen, x.status, FasOf(t))]]
        ELSE UNCHANGED rows
     /\ Free(t)
     /\ UNCHANGED <<started, sender, issue, crashes, installers>>

\* ------------------------------------------------------------ the admins
\* approve_namespace and deny_namespace; the script is one transaction here.
SetStatus(n, status) ==
  /\ n \in AdminNamespaces
  /\ IF rows[n] = <<>>
     THEN rows' = [rows EXCEPT ![n] = <<[status |-> status, fas |-> NoOne]>>]
     ELSE \E i \in DOMAIN rows[n] : rows' = [rows EXCEPT ![n][i].status = status]
  /\ UNCHANGED <<started, sender, issue, task, crashes, installers>>
approve_namespace(n) == SetStatus(n, "approved_manually")
deny_namespace(n) == SetStatus(n, "denied")

\* one_or_none: with two rows nothing is removed, the command fails.
remove_namespace(n) ==
  /\ n \in AdminNamespaces /\ Len(rows[n]) = 1
  /\ rows' = [rows EXCEPT ![n] = <<>>]
  /\ task' = [t \in Tasks |->
                IF task[t].pc = "write" /\ task[t].account = n /\ task[t].row # 0
                THEN [task[t] EXCEPT !.row = Gone] ELSE task[t]]
  /\ UNCHANGED <<started, sender, issue, crashes, installers>>

\* The worker dies, or a call of a service fails: the task starts again.
Crash(t) ==
  /\ ~At(t, "free") /\ crashes < MaxCrashes
  /\ crashes' = crashes + 1
  /\ task' = [task EXCEPT ![t] =
                 Fresh(@.kind, FirstStep[@.kind], @.account, @.person, @.fas)]
  /\ UNCHANGED <<started, rows, sender, issue, installers>>

Step(t) ==
  \/ ReadPrevious(t) \/ create_or_update(t) \/ Decide(t) \/ Match(t) \/ NoMatch(t)
  \/ CreateIssue(t) \/ CheckSender(t) \/ verify(t) \/ FindRow(t) \/ WriteRow(t)

Next ==
  \/ \E t \in Tasks : Step(t) \/ Crash(t)
  \/ \E t \in Tasks, a \in Accounts, p \in People : Install(t, a, p)
  \/ \E t \in Tasks, a \in Accounts, p \in People, f \in FasAccounts : Comment(t, a, p, f)
  \/ \E n \in Namespaces : approve_namespace(n) \/ deny_namespace(n) \/ remove_namespace(n)

Spec == Init /\ [][Next]_vars
\* Celery delivers a task until it has ended.
FairSpec == Spec /\ \A t \in Tasks : WF_vars(Step(t))

-----------------------------------------------------------------------------
TypeOK ==
  /\ rows \in [Namespaces -> Seq(EntryRow)]
  /\ \A n \in Namespaces : Len(rows[n]) <= MaxRows
  /\ sender \in [Accounts -> People \cup {NoOne}]
  /\ issue \in [Accounts -> {"none", "open", "closed"}]
  /\ task \in [Tasks -> Task]
  /\ \A t \in Tasks : ~At(t, "free") =>
       /\ task[t].account \in Accounts
       /\ task[t].person \in People /\ task[t].fas \in FasAccounts
  /\ started \in 0..MaxTasks /\ crashes \in 0..MaxCrashes
  /\ installers \in [Accounts -> SUBSET People]

\* An account is approved automatically only with the FAS account of somebody
\* who has installed the App for it, whatever happens between the query, the
\* comments and the commits (GithubInstallationModel.sender_login is the only
\* thing that ties a comment to an installation).
ApprovedInstaller ==
  \A a \in Accounts : \A i \in DOMAIN rows[a] :
    rows[a][i].status = "approved_automatically" =>
      \E p \in installers[a] : <<rows[a][i].fas, p>> \in Matching

\* Who waits for an approval has an issue to ask for it in: the entry is made
\* after the issue, by tasks that may die in between and start again.
WaitingHasIssue ==
  \A a \in Accounts : \A i \in DOMAIN rows[a] :
    rows[a][i].status = "waiting" => issue[a] # "none"

\* An installation gets an entry in the allowlist, although its task may be
\* killed anywhere and started again and although it looks at the installation
\* that it has itself stored.
InstallationAnswered ==
  \A t \in Tasks, a \in Accounts :
    (task[t].kind = "installation" /\ task[t].account = a /\ task[t].pc = "read")
      ~> (rows[a] # <<>>)
=============================================================================
