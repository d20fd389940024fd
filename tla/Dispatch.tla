------------------------------ MODULE Dispatch ------------------------------
(***************************************************************************)
(* The task process_message: SteveJobs (packit_service.worker.jobs) makes  *)
(* of a document the tasks of the handlers.  Parser, Events, Handlers with *)
(* their Checkers, and Allowlist come together here.                       *)
(*                                                                         *)
(* The handlers that match are taken one after the other in any order (a   *)
(* set), each with a look into the allowlist, which the admins may change  *)
(* meanwhile; its tasks are sent at once.  A failing call or a dying       *)
(* worker lets Celery run process_message again: what has been sent stays. *)
(*                                                                         *)
(* An input is a document with what the code finds around it: the comment  *)
(* (prefix, command, args, package), the identifier, the configured jobs,  *)
(* what is true of the world, and the entries of the allowlist.            *)
(***************************************************************************)
EXTENDS Parser, Handlers, Allowlist, Tasks

CONSTANTS Inputs,     \* records [doc, said, jobs, world, entry]
          NoInput,    \* nothing to process
          Changes,    \* what the admins change: <<namespace, status>>
          MaxTries,   \* CELERY_RETRY_LIMIT
          MaxChanges  \* bound on the admins' changes while a message is processed

\* The key that GitHub's documents of a type have and those of another do not, and
\* the object_kind of GitLab's.
Marks == [pull_request |-> "pull_request", issue_comment |-> "issue.number",
          commit_comment |-> "comment.commit_id", release |-> "release.tag_name",
          push |-> "pusher.name", check_run |-> "check_run",
          installation |-> "installation.account"]
object_kind(hook) ==
  CASE hook = "Merge Request Hook" -> "merge_request" [] hook = "Note Hook" -> "note"
    [] hook = "Push Hook" -> "push" [] hook = "Tag Push Hook" -> "tag_push"
    [] hook = "Pipeline Hook" -> "pipeline" [] hook = "Release Hook" -> "release"

\* What services send.  A note is on one object; a check of Packit has the name
\* that a helper gave it.
Document(d) ==
  LET marks == {Marks[type] : type \in DOMAIN Marks} \cap d.has
  IN /\ d.source = "github" =>
          d.kind = "" /\ (d.type \in DOMAIN Marks => marks \subseteq {Marks[d.type]})
     /\ d.source = "gitlab" =>
          /\ marks = {} /\ (d.type \in GitlabHooks => d.kind = object_kind(d.type))
          /\ \A a, b \in {"merge_request", "issue", "commit"} \cap d.has : a = b
     /\ d.source \in {"fedora-messaging", "testing-farm"} => d.kind = "" /\ marks = {}
     /\ d.source \in {"github", "gitlab", "fedora-messaging"} => "source=testing-farm" \notin d.has
     /\ "ours" \in d.has =>
          /\ d.name = get_check_cls(d.check.job, d.object, d.check.target, d.check.identifier)
          /\ d.check.job \in STRING /\ d.object \in STRING /\ d.check.target \in STRING
          /\ d.check.identifier \in Seq(STRING)
          /\ d.check.job \in Prefixes => d.check.target # ""

Input(in, entry) ==
  [doc |-> in.doc, said |-> in.said, jobs |-> in.jobs, world |-> in.world, entry |-> entry]

ASSUME DispatchAssumption ==
  /\ NoInput \notin Inputs /\ MaxTries \in Nat \ {0} /\ MaxChanges \in Nat
  /\ \A in \in Inputs : in = Input(in, in.entry) /\ Document(in.doc)

VARIABLES input,    \* what is processed
          event,    \* the event it has been parsed to
          phase,    \* "idle", "received", "ci", "jobs" or "done"
          left,     \* the handlers not looked at yet
          tasks,    \* what has been sent: records [handler, job, try]
          try,
          changes,
          blocked   \* what has spoken against the project or the user all along
vars == <<input, event, phase, left, tasks, try, changes, blocked>>

\* ------------------------------------------------------------ the event
doc == input.doc
said == input.said
world == input.world
kind == event.kind
Parsed == kind \in Kinds
Is(class) == class \in event.is
tagged == "release" \in said.args
TriggerOfRun == [pull_request |-> "pull_request", release |-> "release", branch |-> "commit",
                 unknown |-> "none"]

NotParsed(k) ==
  [kind |-> k, actor |-> "", args |-> {}, command |-> "", keys |-> {}, is |-> {k},
   trigger |-> "none", identifier |-> <<>>]

EventOf(in) ==
  LET k == parse_message(in.doc)
      release == "release" \in in.said.args
      keys == Event(k, release).keys
  IN IF k \notin Kinds THEN NotParsed(k) ELSE
     [kind |-> k,
      actor |-> IF "actor" \in keys /\ Person(in.doc) THEN "somebody" ELSE "",
      args |-> in.said.args, command |-> in.said.command, keys |-> keys,
      is |-> Event(k, release).is \cup {k},
      trigger |-> job_config_trigger_type(k, release, TriggerOfRun[in.doc.object]),
      identifier |-> IF IsInstance(k, "Rerun")
                     THEN parse_check_name(in.doc.name, in.doc.object)[3]
                     ELSE in.doc.identifier]

\* What the decorators have put into the maps; it depends on no event.
Registered == [h \in HandlerNames |-> HandlerOf(h, NotParsed(None), NoJob, {})]
RegisteredForFedoraCI == [h \in FedoraCINames |-> FedoraCIOf(h, NotParsed(None), {})]
H(h) == Registered[h]
CI(h) == RegisteredForFedoraCI[h]
PreCheckForFedoraCI(h) == FedoraCIOf(h, event, world).ok

\* The first word of a line is the prefix, exactly; "" for no command.
parse_comment(prefix) == IF said.prefix = prefix THEN said.command ELSE ""
get_handlers_for_command(command) == {h \in HandlerNames : command \in H(h).commands}
get_handlers_for_check_rerun(job) == {h \in HandlerNames : job \in H(h).prefixes}
is_help_comment == said.prefix = "/packit" /\ said.command = "help"
is_fas_verification_comment == said.prefix = "/packit" /\ said.command = "verify-fas"

is_project_public_or_enabled_private ==
  Is("Result") \/ ~Holds(world, "private") \/ Holds(world, "private enabled")

\* ------------------------------------------------------ matching the jobs
MANUAL_OR_RESULT_EVENTS == {"CommentEvent", "Result", "Rerun"}

\* Mutant: a rerun is for the jobs of every identifier.
MatchesTriggerOnly(j) == j.trigger = event.trigger

MatchesTrigger(j) ==
  /\ j.trigger = event.trigger
  /\ Is("Rerun") => j.identifier = event.identifier
  /\ Opt(j, "manual_trigger") => \E class \in MANUAL_OR_RESULT_EVENTS : Is(class)
  /\ j.trigger = "pull_request" /\ Opt(j, "require label") /\ Is("ForgeIndependent") =>
       Holds(world, "labels match")

\* Of Koji build jobs that differ in the trigger only, one.
Retriggered(js) ==
  LET SameBut(j, k) == [j EXCEPT !.trigger = ""] = [k EXCEPT !.trigger = ""]
  IN {j \in js : j.type = "bodhi_update"}
     \cup {CHOOSE k \in js : SameBut(j, k) : j \in {k \in js : k.type = "koji_build"}}

check_explicit_matching ==
  LET builds == {j \in input.jobs : /\ j.type \in {"koji_build", "bodhi_update"}
                                    /\ j.trigger \in {"commit", "koji_build"}}
      untaggable == {j \in builds : /\ j.type = "koji_build" /\ ~Opt(j, "sidetag_group")
                                    /\ parse_comment("/packit") = "koji-tag"}
  IN CASE kind = "pagure.pr.Comment" ->
            Retriggered(builds \ untaggable)
              \cup {j \in input.jobs : j.type = "pull_from_upstream" /\ j.trigger = "release"}
       [] Is("comment.Issue") /\ event.trigger = "release" -> Retriggered(builds)
       [] kind = "koji.tag.Build" /\ Holds(world, "package configured") ->
            {[NoJob EXCEPT !.type = "koji_build_tag", !.trigger = "koji_build"]}
       [] OTHER -> {}

get_jobs_matching_event ==
  LET js == {j \in input.jobs : MatchesTrigger(j)} \cup check_explicit_matching
  IN IF said.package = "" THEN js ELSE {j \in js : said.package = j.package}

get_handlers_for_comment_and_rerun_event ==
  CASE Is("CommentEvent") -> get_handlers_for_command(parse_comment("/packit"))
    [] Is("Rerun") -> get_handlers_for_check_rerun(parse_check_name(doc.name, doc.object)[1])
    [] OTHER -> HandlerNames

is_handler_matching_the_event(h) ==
  /\ \E class \in H(h).events : Is(class)
  /\ h \in get_handlers_for_comment_and_rerun_event

\* Mutant: the job types of the handler are not looked at.
get_config_for_handler_klsAny(h) == get_jobs_matching_event

get_config_for_handler_kls(h) == {j \in get_jobs_matching_event : j.type \in H(h).jobs}

get_handlers_for_event ==
  {h \in HandlerNames : is_handler_matching_the_event(h) /\ get_config_for_handler_kls(h) # {}}

is_packit_config_present == Holds(world, "packit config")

\* The handlers of process_jobs; none for a comment without a command.
JobHandlers ==
  IF \/ Is("CommentEvent") /\ get_handlers_for_command(parse_comment("/packit")) = {}
     \/ ~is_packit_config_present
  THEN {} ELSE get_handlers_for_event

\* ---------------------------------------------------------- Fedora CI
FedoraCIEvents == {"pagure.pr.Action", "pagure.pr.Comment", "koji.result.Task",
                   "testing_farm.Result", "logdetective.Result"}
ForFedoraCI == kind \in FedoraCIEvents /\ Holds(world, "enabled for Fedora CI")

get_handlers_for_command_fedora_ci(command, target) ==
  {h \in FedoraCINames : command \in CI(h).commands /\ (target # "" => CI(h).target = target)}

FedoraCIMatching ==
  {h \in FedoraCINames :
     /\ \E class \in CI(h).events : Is(class)
     /\ Is("CommentEvent") =>
          h \in get_handlers_for_command_fedora_ci(parse_comment("/packit-ci"), said.target)}

\* ------------------------------------------------------------- actions
Sent(h, js) == {[handler |-> h, job |-> j, try |-> try] : j \in js}
JustSent == {x \in tasks : x.try = try}
\* When no handler is left of a phase.
Continue(handlers) == left' = handlers /\ phase' = IF handlers = {} THEN "done" ELSE "jobs"
Kept == UNCHANGED <<input, event, changes, blocked>>

\* Why somebody is not to be let in: the user is denied, or some level of the
\* project is, or none is approved.
Reasons(entry) ==
  LET statuses == {entry[n] : n \in {"project", "namespace", "host"}}
  IN (IF entry["user"] = "denied" THEN {"user"} ELSE {})
     \cup (IF "denied" \in statuses \/ statuses \cap Approved = {} THEN {"project"} ELSE {})

Receive ==
  /\ phase = "idle" /\ phase' = "received"
  /\ \E in \in Inputs : /\ input' = in /\ event' = EventOf(in)
                         /\ blocked' = Reasons(in.entry)
  /\ UNCHANGED <<left, tasks, try, changes>>

\* No event, or one that is not to be processed.  Event.pre_check refuses none: only that
\* of a Copr build looks at anything, the row without which parse_copr_event has no event.
Ignore ==
  /\ phase = "received" /\ (~Parsed \/ (Parsed /\ ~is_project_public_or_enabled_private))
  /\ phase' = "done"
  /\ UNCHANGED <<left, tasks, try>> /\ Kept

Processed == phase = "received" /\ Parsed /\ is_project_public_or_enabled_private

\* A task that needs no configuration.
SendOne(h) ==
  /\ tasks' = tasks \cup Sent(h, {NoJob}) /\ phase' = "done"
  /\ UNCHANGED <<left, try>> /\ Kept

Installation == Processed /\ Is("github.installation.Installation")
                /\ SendOne("GithubAppInstallationHandler")

VerifyComment == Is("github.issue.Comment") /\ is_fas_verification_comment
Verification ==
  /\ Processed /\ VerifyComment
  /\ IF IsIssueInNotificationRepoChecker(event, NoJob, world)
     THEN SendOne("GithubFasVerificationHandler")
     ELSE phase' = "done" /\ UNCHANGED <<left, tasks, try>> /\ Kept

HelpComment ==
  /\ kind \in {"github.pr.Comment", "gitlab.mr.Comment", "pagure.pr.Comment",
               "github.issue.Comment", "gitlab.issue.Comment"}
  /\ is_help_comment
Help ==
  /\ Processed /\ HelpComment
  /\ SendOne(IF Is("comment.PullRequest") THEN "GitPullRequestCommentHelpHandler"
             ELSE "GitIssueCommentHelpHandler")

\* process_fedora_ci_jobs first, and process_jobs if it has no results.
ProcessJobs ==
  /\ Processed /\ ~Is("github.installation.Installation") /\ ~VerifyComment /\ ~HelpComment
  /\ IF ForFedoraCI /\ FedoraCIMatching # {}
     THEN left' = FedoraCIMatching /\ phase' = "ci" ELSE Continue(JobHandlers)
  /\ UNCHANGED <<tasks, try>> /\ Kept

\* Mutant: process_jobs after process_fedora_ci_jobs, whatever its results.
process_fedora_ci_jobsToo(h) ==
  /\ phase = "ci" /\ h \in left
  /\ tasks' = IF PreCheckForFedoraCI(h) THEN tasks \cup Sent(h, {NoJob}) ELSE tasks
  /\ IF left # {h} THEN left' = left \ {h} /\ UNCHANGED phase ELSE Continue(JobHandlers)
  /\ UNCHANGED try /\ Kept

process_fedora_ci_jobs(h) ==
  /\ phase = "ci" /\ h \in left
  /\ tasks' = IF PreCheckForFedoraCI(h) THEN tasks \cup Sent(h, {NoJob}) ELSE tasks
  /\ CASE left # {h} -> left' = left \ {h} /\ UNCHANGED phase
       [] left = {h} /\ (PreCheckForFedoraCI(h) \/ JustSent # {}) -> left' = {} /\ phase' = "done"
       [] OTHER -> Continue(JobHandlers)
  /\ UNCHANGED try /\ Kept

should_task_be_created_for_job_config_and_handler(j, h) ==
  ~Opt(j, "other deployment") /\ HandlerOf(h, event, j, world).ok

create_tasks(h) ==
  Sent(h, {j \in get_config_for_handler_kls(h) :
             should_task_be_created_for_job_config_and_handler(j, h)})

\* The next handler; a project that is refused ends the whole message.
process_jobs(h) ==
  /\ phase = "jobs" /\ h \in left
  /\ LET verdict == check_and_report(input.entry, event, world)
     IN CASE verdict = "passed" -> tasks' = tasks \cup create_tasks(h) /\ Continue(left \ {h})
          [] verdict = "refused" -> UNCHANGED tasks /\ Continue({})
          [] OTHER -> FALSE   \* raises: Retry
  /\ UNCHANGED try /\ Kept

\* A call fails, or the worker dies: everything again, or Celery gives up.
Retry ==
  /\ phase \in {"received", "ci", "jobs"} /\ Parsed
  /\ IF try < MaxTries THEN phase' = "received" /\ try' = try + 1
     ELSE phase' = "done" /\ UNCHANGED try
  /\ left' = {}
  /\ UNCHANGED tasks /\ Kept

\* An admin (or a task of Approvals) changes an entry; only process_jobs looks
\* at them.
ChangeEntry(n, status) ==
  /\ phase = "jobs" /\ changes < MaxChanges
  /\ input' = [input EXCEPT !.entry[n] = status]
  /\ changes' = changes + 1
  /\ blocked' = blocked \cap Reasons(input'.entry)
  /\ UNCHANGED <<event, phase, left, tasks, try>>

Finish ==
  /\ phase = "done" /\ phase' = "idle"
  /\ input' = NoInput /\ event' = None /\ left' = {} /\ tasks' = {}
  /\ try' = 1 /\ changes' = 0 /\ blocked' = {}

Next ==
  \/ Receive
  \/ Ignore \/ Installation \/ Verification \/ Help \/ ProcessJobs
  \/ \E h \in left : process_fedora_ci_jobs(h) \/ process_jobs(h)
  \/ Retry \/ Finish
  \/ \E c \in Changes : ChangeEntry(c[1], c[2])

Init ==
  /\ input = NoInput /\ event = None /\ phase = "idle" /\ left = {} /\ tasks = {}
  /\ try = 1 /\ changes = 0 /\ blocked = {}

Spec == Init /\ [][Next]_vars
-----------------------------------------------------------------------------
NoHandlers == {"GithubAppInstallationHandler", "GithubFasVerificationHandler",
               "GitPullRequestCommentHelpHandler", "GitIssueCommentHelpHandler"}

\* The message and what is kept of it are well-typed; a task is sent for a
\* configured job, for the virtual koji_build_tag job, or without a job, by a name
\* under which a worker finds a function that runs this handler.
TypeOK ==
  /\ phase \in {"idle", "received", "ci", "jobs", "done"}
  /\ try \in 1..MaxTries /\ changes \in 0..MaxChanges /\ blocked \subseteq {"project", "user"}
  /\ phase \in {"ci", "jobs"} <=> left # {}
  /\ phase = "ci" => left \subseteq FedoraCINames
  /\ phase = "jobs" => left \subseteq HandlerNames
  /\ \A x \in tasks :
       /\ x.try \in 1..try
       /\ x.handler \in HandlerNames \cup FedoraCINames \cup NoHandlers
       /\ Runs(x.handler) = x.handler
       /\ x.handler \in HandlerNames =>
            x.job.type \in H(x.handler).jobs
              /\ (x.job \in input.jobs \/ x.job.type = "koji_build_tag")

\* A document is taken for the same event whether it comes through a webhook
\* or Fedora messaging with its source and type, or without (a message of an
\* older web service or of a script): Parser.MAPPING and Parser.parse_event
\* are two lists of the same parsers.
SameEventEitherWay == phase = "received" => parse_message(doc) = parse_event(doc)

\* Rerunning a check asks for the target of the job that reported under the check's
\* name, and for jobs of its kind and identifier only: the name made by get_check_cls
\* is taken apart by parse_check_name in another process, and target, identifier and
\* handlers are looked up with it.  That is so for names that can be read back: a name
\* without a branch or a tag is cut inside an identifier with a colon (split with
\* maxsplit=3), and such a rerun is for another target and identifier.
ReadBack(check) == NamesEvent(check.job, doc.object) \/ Len(check.identifier) <= 1

RerunRunsItsJob ==
  phase # "idle" /\ Parsed /\ Is("Rerun") /\ ReadBack(doc.check) =>
    /\ <<doc.check.job, doc.check.target, doc.check.identifier>>
         = parse_check_name(doc.name, doc.object)
    /\ \A x \in tasks : /\ doc.check.job \in H(Runs(x.handler)).prefixes
                        /\ x.job.identifier = doc.check.identifier

\* One result is reported once: no Testing Farm result and no Koji task goes to
\* the handlers of both Fedora CI and the configured jobs, not even if it is
\* about a run nobody knows.
OneReporter ==
  LET served == {Runs(x.handler) : x \in tasks}
  IN /\ ~({"TestingFarmResultsHandler", "DownstreamTestingFarmResultsHandler"} \subseteq served)
     /\ ~({"KojiTaskReportHandler", "KojiTaskReportDownstreamHandler"} \subseteq served)

\* What somebody else than an admin does on GitHub or GitLab starts no job while
\* the project is not allowed: denied at some level, or not approved, or the
\* user denied, for as long as the message has been processed.  Reruns and
\* installations are exempt, they need rights on the project or the account.
NotAllowedGetsNothing ==
  /\ phase # "idle" /\ Parsed
  /\ "project" \in blocked \/ ("user" \in blocked /\ event.actor # "")
  /\ doc.source \in {"github", "gitlab"}
  /\ ~Is("Rerun") /\ ~Admin(world)
  => \A x \in tasks : Runs(x.handler) \notin HandlerNames

\* A task sees the project event that process_message has seen: EventData finds
\* the row with nothing but the type and the dictionary of the event.  It knows
\* no event of Forgejo; of these, only comments in issues get to a task, when an
\* admin of the service writes propose-downstream.
TaskFindsRow ==
  /\ phase = "done" /\ \E x \in tasks : Runs(x.handler) \in HandlerNames
  /\ kind # "forgejo.issue.Comment"
  => LET row == Event(kind, tagged).row
     IN row.type \in {"release", "branch", "pull_request", "issue", "anitya"} =>
          FoundByTask(kind, tagged) = row
=============================================================================
