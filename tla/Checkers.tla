------------------------------ MODULE Checkers ------------------------------
(***************************************************************************)
(* packit_service.worker.checker: the conditions under which a handler's   *)
(* task is made.  A checker looks at the event (e), the job's              *)
(* configuration (j) and the world: w is the set of what is true of it     *)
(* ("can_merge_pr", "packager", ...); the names are those of the questions *)
(* the code asks the forge, Koji, the database or the service's settings.  *)
(*   e   kind, is (its classes), actor ("" for none), args (what the       *)
(*       comment says)                                                     *)
(*   j   type, trigger, identifier, opts (what is set in the job)          *)
(***************************************************************************)
EXTENDS Sequences, FiniteSets, TLC

Holds(w, fact) == fact \in w
Opt(j, option) == option \in j.opts
Admin(w) == Holds(w, "actor is admin")

IssueComments == {"github.issue.Comment", "gitlab.issue.Comment"}
PullRequestActions == {"github.pr.Action", "gitlab.mr.Action"}

\* ActorChecker: an event without an actor passes.
ForActor(e, check) == e.actor = "" \/ check

\* ---------------------------------------------- helpers the checkers ask
\* BaseBuildJobHelper.is_job_config_trigger_matching: the type of the object
\* in the database, the pushed branch, and the target branch if one is set.
is_job_config_trigger_matching(e, j, w) ==
  /\ e.trigger = j.trigger
  /\ j.trigger = "commit" => Holds(w, "branch configured")
  /\ j.trigger = "pull_request" /\ Opt(j, "branch") => Holds(w, "branch configured")

\* DistgitAccountsChecker: named, by a group or as maintainer or committer; a
\* group the forge does not know is passed over.
check_allowed_accounts(w, account) ==
  \/ Holds(w, account \o " is named")
  \/ Holds(w, account \o " in group") /\ Holds(w, "group known")
  \/ Holds(w, account \o " has access")

MergeRequestClosed(e, w) == e.kind = "gitlab.mr.Action" /\ Holds(w, "closed")

\* ----------------------------------------------------- upstream: copr.py
IsJobConfigTriggerMatching(e, j, w) == is_job_config_trigger_matching(e, j, w)

IsGitForgeProjectAndEventOk(e, j, w) ==
  /\ ~MergeRequestClosed(e, w)
  /\ Holds(w, "job_build") \/ Holds(w, "job_tests")
  /\ Opt(j, "custom copr") => Holds(w, "custom copr can be used")

AreOwnerAndProjectMatchingJob(e, j, w) == Holds(w, "owner and project of the job")
IsPackageMatchingJobView(e, j, w) == ~Opt(j, "package") \/ Holds(w, "build of the package")
BuildNotAlreadyStarted(e, j, w) == ~Holds(w, "start time set")

CanActorRunTestsJob(e, j, w) ==
  ForActor(e, \/ ~Holds(w, "internal tests with build")
              \/ Holds(w, "can_merge_pr") \/ Admin(w))

\* ------------------------------------------------------ testing_farm.py
IsInternalTFEnabled(e, j, w) == Opt(j, "use_internal_tf") => ~Holds(w, "DISABLE_INTERNAL_TF")

\* Another pull request named in the comment is checked (and reported) first.
IsEventOk(e, j, w) ==
  /\ ~MergeRequestClosed(e, w)
  /\ IF "pull request" \in e.args THEN Holds(w, "other pull request ok")
     ELSE ~(Opt(j, "skip_build") /\ e.command \in {"build", "copr-build"})

IsCoprBuildDefined(e, j, w) == Opt(j, "skip_build") \/ Holds(w, "job_build")

CanActorRunJob(e, j, w) ==
  LET buildRequired == Holds(w, "internal tests with build") /\ Holds(w, "build_required")
  IN ForActor(e, \/ ~(Opt(j, "use_internal_tf") \/ buildRequired)
                 \/ Holds(w, "can_merge_pr") \/ Admin(w))

IsIdentifierFromCommentMatching(e, j, w) ==
  IF e.args \cap {"labels", "identifier"} = {} /\ Opt(j, "default_identifier")
  THEN Holds(w, "identifier is default")
  ELSE "identifier" \in e.args => Holds(w, "identifier of the comment")

IsLabelFromCommentMatching(e, j, w) ==
  IF e.args \cap {"labels", "identifier"} = {} /\ Opt(j, "default_labels")
  THEN Opt(j, "labels") /\ Holds(w, "labels are default")
  ELSE "labels" \in e.args => Opt(j, "labels") /\ Holds(w, "labels of the comment")

\* The identifier of the event, as EventData has it, and that of the job.
IsEventForJob(e, j, w) == e.identifier = j.identifier

\* A run that is not in the database is taken by either kind of handler.
IsUpstreamTest(e, j, w) == Holds(w, "run known") => ~Holds(w, "fedora_ci_test")
IsDownstreamTest(e, j, w) == Holds(w, "run known") => Holds(w, "fedora_ci_test")

HasEventSuccessfulScratchBuild(e, j, w) ==
  Holds(w, "scratch build") /\ (Holds(w, "scratch success") \/ Holds(w, "task closed"))
HasEventSuccessfulRawhideELNScratchBuild(e, j, w) ==
  Holds(w, "eln build") /\ (Holds(w, "scratch success") \/ Holds(w, "task closed"))

\* --------------------------------------------------------------- koji.py
IsUpstreamKojiScratchBuild(e, j, w) == ~Holds(w, "pagure project")

PermissionOnKoji(e, j, w) ==
  /\ ~MergeRequestClosed(e, w)
  /\ e.kind \in PullRequestActions => Holds(w, "can_merge_pr") \/ Admin(w)
  /\ Opt(j, "scratch")

SidetagExists(e, j, w) == Holds(w, "sidetag known")

\* ------------------------------------------------------------ distgit.py
LabelsOnDistgitPR(e, j, w) ==
  e.kind = "pagure.push.Commit" /\ Opt(j, "labels required") => Holds(w, "labels match")

PermissionOnDistgit(e, j, w) ==
  /\ e.kind \in {"pagure.push.Commit", "koji.tag.Build"} => Holds(w, "branch configured")
  /\ e.kind = "pagure.push.Commit" =>
       IF Holds(w, "pull request of the push")
       THEN check_allowed_accounts(w, "author") ELSE check_allowed_accounts(w, "committer")
  /\ e.kind = "pagure.pr.Comment" => Holds(w, "packager")

PermissionOnDistgitForFedoraCI(e, j, w) ==
  e.kind = "pagure.pr.Comment" => Holds(w, "packager")
IsProjectEnabledForELN(e, j, w) == Holds(w, "eln enabled")
PackageNeedsELNBuildFromRawhide(e, j, w) ==
  Holds(w, "target is rawhide") /\ Holds(w, "eln package") /\ ~Holds(w, "eln branch")
IsProjectInRpmsNamespace(e, j, w) == Holds(w, "rpms namespace")
IsProjectInTestsNamespace(e, j, w) == Holds(w, "tests namespace")

HasIssueCommenterRetriggeringPermissions(e, j, w) ==
  ForActor(e, e.kind \in IssueComments => Holds(w, "write access"))

IsProjectOk(e, j, w) == Holds(w, "project to sync")
TaggedBuildIsNotABuildOfSelf(e, j, w) ==
  e.kind = "koji.tag.Build" => ~Holds(w, "build of the package")

ValidInformationForPullFromUpstream(e, j, w) ==
  /\ Holds(w, "upstream_project_url") =>
       /\ Holds(w, "repo name and namespace")
       /\ e.kind = "anitya.NewHotness" => Holds(w, "tag_names")
  /\ e.kind = "pagure.pr.Comment" => Holds(w, "packager")

\* No tag name (a NewHotness event has tag_names instead): nothing to match.
IsUpstreamTagMatchingConfig(e, j, w) ==
  "tag_name" \in e.keys =>
    /\ Opt(j, "upstream_tag_include") => Holds(w, "tag included")
    /\ Opt(j, "upstream_tag_exclude") => ~Holds(w, "tag excluded")

\* -------------------------------------------------------------- bodhi.py
IsKojiBuildCompleteAndBranchConfigured(e, j, w) ==
  e.kind \in {"pagure.pr.Comment", "koji.result.Build", "koji.tag.Build"} =>
    Holds(w, "builds complete") /\ Holds(w, "branch configured")
IsKojiBuildOwnerMatchingConfiguration(e, j, w) ==
  e.kind = "koji.result.Build" => check_allowed_accounts(w, "owner")
HasCommenterRetriggeringPermissions(e, j, w) ==
  ForActor(e, e.kind \in IssueComments \cup {"pagure.pr.Comment"} => Holds(w, "write access"))
IsAuthorAPackager(e, j, w) ==
  ForActor(e, e.kind = "pagure.pr.Comment" => Holds(w, "packager"))
IsSidetagGroupNotConfigured(e, j, w) == ~Opt(j, "sidetag_group")
IsSidetagGroupConfigured(e, j, w) == Opt(j, "sidetag_group")

\* --------------------------- run_condition.py, open_scan_hub.py, the rest
\* What the condition is run with is found out first; not finding it is
\* logged only.  No condition: satisfied.
IsRunConditionSatisfied(e, j, w) == Opt(j, "run_condition") => Holds(w, "condition exits with 0")
RawhideX86Target(e, j, w) == Holds(w, "rawhide target")
IsCoprBuildForChrootOk(e, j, w) == Holds(w, "copr build of the chroot")
HasAuthorWriteAccess(e, j, w) == ForActor(e, Holds(w, "write access"))
IsIssueInNotificationRepoChecker(e, j, w) ==
  Holds(w, "notifications repository") /\ Holds(w, "issue by packit")
=============================================================================
