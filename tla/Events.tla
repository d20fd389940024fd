------------------------------- MODULE Events -------------------------------
(***************************************************************************)
(* The classes of packit_service.events, and EventData, what a task makes  *)
(* of the dictionary an event was turned into.                             *)
(*                                                                         *)
(* One definition per event class, named after its event_type.  A class is *)
(*   is    the abstract classes that isinstance is asked about;            *)
(*   row   the project event the object itself finds or adds in the        *)
(*         database: its type and the attributes that are its key, or the  *)
(*         thing whose event it is (a build, a run);                       *)
(*   keys  the attributes that survive get_dict, of those EventData reads. *)
(***************************************************************************)
EXTENDS FiniteSets, TLC

\* ------------------------------------------------------ abstract classes
Class(is, row, keys) == [is |-> is, row |-> row, keys |-> keys]
ForgeIndependent == {"ForgeIndependent"}
Result == ForgeIndependent \cup {"Result"}
CommentEvent == ForgeIndependent \cup {"CommentEvent"}

\* The mixins of db_project_events: what each adds to the database.
Row(type, key) == [type |-> type, key |-> key]
AddReleaseEventToDb == Row("release", {"tag_name", "commit_sha"})
AddBranchPushEventToDb == Row("branch", {"git_ref", "commit_sha"})
AddPullRequestEventToDb == Row("pull_request", {"pr_id", "commit_sha"})
AddIssueEventToDb == Row("issue", {"issue_id"})
AddAnityaEvent == Row("anitya", {"versions", "anitya_project_id"})
OfRun(thing) == Row(thing, {})
NoRow == Row("none", {})

PullRequestComment(keys) ==
  Class(CommentEvent \cup {"comment.PullRequest"}, AddPullRequestEventToDb,
        {"pr_id", "commit_sha", "comment"} \cup keys)
IssueComment(keys) ==
  Class(CommentEvent \cup {"comment.Issue"}, AddIssueEventToDb,
        {"issue_id", "tag_name", "commit_sha", "comment", "dist_git_project_url"} \cup keys)

\* "--release" in the comment makes the tag the reference, otherwise a branch;
\* the object itself also asks the forge whether the commit belongs to it.
CommitComment(tagged) ==
  Class(CommentEvent \cup {"comment.Commit"},
        IF tagged THEN AddReleaseEventToDb ELSE AddBranchPushEventToDb,
        {"commit_sha", "git_ref", "identifier", "actor", "comment"}
          \cup (IF tagged THEN {"tag_name"} ELSE {}))

Rerun(row, keys) ==
  Class(ForgeIndependent \cup {"Rerun"}, row, {"commit_sha", "identifier", "actor"} \cup keys)
CoprBuild == Class(Result \cup {"CoprBuild"}, OfRun("copr_build"),
                   {"pr_id", "commit_sha", "git_ref", "identifier"})
OpenScanHubEvent == Class(Result, OfRun("scan"), {"commit_sha", "identifier"})
KojiEvent(row, keys) == Class(Result, row, keys)

\* ------------------------------------------------------------------ GitHub
GithubPrAction ==
  Class(ForgeIndependent, AddPullRequestEventToDb,
        {"pr_id", "commit_sha", "identifier", "actor", "action"})
GithubPrComment == PullRequestComment({"identifier", "actor"})
GithubIssueComment == IssueComment({"identifier", "actor"})
GithubCommitComment(tagged) == CommitComment(tagged)
GithubRelease ==
  Class(ForgeIndependent, AddReleaseEventToDb,
        {"tag_name", "commit_sha", "git_ref", "identifier"})
GithubPush ==
  Class(ForgeIndependent, AddBranchPushEventToDb,
        {"git_ref", "commit_sha", "commit_sha_before", "identifier"})
AppInstallation == Class({}, NoRow, {"actor"})
\* The project event of a rerun is the one the check's external id names.
CheckPullRequest == Rerun(AddPullRequestEventToDb, {"pr_id"})
CheckRelease == Rerun(AddReleaseEventToDb, {"tag_name", "git_ref"})
CheckCommit == Rerun(AddBranchPushEventToDb, {"git_ref"})
\* ------------------------------------------------------------------ GitLab
GitlabMrAction == GithubPrAction
GitlabMrComment == PullRequestComment({"identifier", "actor"})
GitlabIssueComment == IssueComment({"identifier", "actor"})
GitlabCommitComment(tagged) == CommitComment(tagged)
GitlabPush ==
  Class(ForgeIndependent, AddBranchPushEventToDb,
        {"git_ref", "commit_sha", "commit_sha_before", "identifier"})
GitlabTag ==
  Class(ForgeIndependent, AddBranchPushEventToDb,
        {"git_ref", "commit_sha", "commit_sha_before"})
GitlabRelease ==
  Class(ForgeIndependent, AddReleaseEventToDb,
        {"tag_name", "commit_sha", "git_ref"})
GitlabPipeline == Class(ForgeIndependent, NoRow, {"git_ref", "commit_sha"})
\* ------------------------------------------------------ Pagure and Forgejo
PagurePrAction == GithubPrAction
PagurePrComment == PullRequestComment({"identifier", "actor"})
PagurePrFlag == Class(ForgeIndependent, NoRow, {"pr_id", "commit_sha", "identifier"})
PagurePush ==
  Class(ForgeIndependent, AddBranchPushEventToDb,
        {"git_ref", "commit_sha", "identifier", "committer"})
ForgejoPrAction == GithubPrAction
ForgejoPrComment == PullRequestComment({"identifier", "actor"})
ForgejoIssueComment == IssueComment({"identifier", "actor"})
ForgejoPush ==
  Class(ForgeIndependent, AddBranchPushEventToDb,
        {"git_ref", "commit_sha", "commit_sha_before", "identifier"})
ForgejoRunPullRequest == Class(ForgeIndependent, NoRow, {"pr_id", "commit_sha"})
ForgejoRunPush == Class(ForgeIndependent, NoRow, {"git_ref", "commit_sha"})
\* ------------------------------------- results of what was started earlier
CoprStart == CoprBuild
CoprEnd == CoprBuild
TestingFarmResult ==
  Class(Result, OfRun("test_run"), {"pr_id", "commit_sha", "identifier", "pipeline_id"})
KojiTask == KojiEvent(OfRun("koji_build"), {"pr_id", "commit_sha", "git_ref", "identifier"})
\* The project event of a Koji build is there if Packit has built it.
KojiBuild ==
  KojiEvent(OfRun("koji_build"),
            {"branch_name", "git_ref", "identifier", "commit_sha", "version"})
KojiTag == KojiEvent(OfRun("koji_build"), {"tag_name", "task_id", "package_name"})
VMImageResult == Class(Result, OfRun("vm_image"), {"pr_id"})
OpenScanHubStarted == OpenScanHubEvent
OpenScanHubFinished == OpenScanHubEvent
LogDetectiveResult ==
  Class(Result, OfRun("log_detective"), {"pr_id", "commit_sha", "identifier"})
NewHotness == Class({}, AddAnityaEvent, {"tag_names", "versions", "anitya_project_id"})
VersionUpdate == Class({}, AddAnityaEvent, {"tag_names", "versions", "anitya_project_id"})

Event(kind, tagged) ==
  CASE kind = "github.pr.Action" -> GithubPrAction
    [] kind = "github.pr.Comment" -> GithubPrComment
    [] kind = "github.issue.Comment" -> GithubIssueComment
    [] kind = "github.commit.Comment" -> GithubCommitComment(tagged)
    [] kind = "github.release.Release" -> GithubRelease
    [] kind = "github.push.Commit" -> GithubPush
    [] kind = "github.installation.Installation" -> AppInstallation
    [] kind = "github.check.PullRequest" -> CheckPullRequest
    [] kind = "github.check.Release" -> CheckRelease
    [] kind = "github.check.Commit" -> CheckCommit
    [] kind = "gitlab.mr.Action" -> GitlabMrAction
    [] kind = "gitlab.mr.Comment" -> GitlabMrComment
    [] kind = "gitlab.issue.Comment" -> GitlabIssueComment
    [] kind = "gitlab.commit.Comment" -> GitlabCommitComment(tagged)
    [] kind = "gitlab.push.Commit" -> GitlabPush
    [] kind = "gitlab.push.Tag" -> GitlabTag
    [] kind = "gitlab.release.Release" -> GitlabRelease
    [] kind = "gitlab.pipeline.Pipeline" -> GitlabPipeline
    [] kind = "pagure.pr.Action" -> PagurePrAction
    [] kind = "pagure.pr.Comment" -> PagurePrComment
    [] kind = "pagure.pr.Flag" -> PagurePrFlag
    [] kind = "pagure.push.Commit" -> PagurePush
    [] kind = "forgejo.pr.Action" -> ForgejoPrAction
    [] kind = "forgejo.pr.Comment" -> ForgejoPrComment
    [] kind = "forgejo.issue.Comment" -> ForgejoIssueComment
    [] kind = "forgejo.push.Commit" -> ForgejoPush
    [] kind = "forgejo.action_run.PullRequest" -> ForgejoRunPullRequest
    [] kind = "forgejo.action_run.Push" -> ForgejoRunPush
    [] kind = "copr.Start" -> CoprStart
    [] kind = "copr.End" -> CoprEnd
    [] kind = "testing_farm.Result" -> TestingFarmResult
    [] kind = "koji.result.Task" -> KojiTask
    [] kind = "koji.result.Build" -> KojiBuild
    [] kind = "koji.tag.Build" -> KojiTag
    [] kind = "vm_image.Result" -> VMImageResult
    [] kind = "openscanhub.task.Started" -> OpenScanHubStarted
    [] kind = "openscanhub.task.Finished" -> OpenScanHubFinished
    [] kind = "logdetective.Result" -> LogDetectiveResult
    [] kind = "anitya.NewHotness" -> NewHotness
    [] kind = "anitya.VersionUpdate" -> VersionUpdate
Kinds ==
  {"github.pr.Action", "github.pr.Comment", "github.issue.Comment",
   "github.commit.Comment", "github.release.Release", "github.push.Commit",
   "github.installation.Installation", "github.check.PullRequest", "github.check.Release",
   "github.check.Commit", "gitlab.mr.Action", "gitlab.mr.Comment", "gitlab.issue.Comment",
   "gitlab.commit.Comment", "gitlab.push.Commit", "gitlab.push.Tag",
   "gitlab.release.Release", "gitlab.pipeline.Pipeline", "pagure.pr.Action",
   "pagure.pr.Comment", "pagure.pr.Flag", "pagure.push.Commit", "forgejo.pr.Action",
   "forgejo.pr.Comment", "forgejo.issue.Comment", "forgejo.push.Commit",
   "forgejo.action_run.PullRequest", "forgejo.action_run.Push", "copr.Start", "copr.End",
   "testing_farm.Result", "koji.result.Task", "koji.result.Build", "koji.tag.Build",
   "vm_image.Result", "openscanhub.task.Started", "openscanhub.task.Finished",
   "logdetective.Result", "anitya.NewHotness", "anitya.VersionUpdate"}
IsInstance(kind, class) == class = kind \/ class \in Event(kind, FALSE).is

\* MAP_EVENT_TO_JOB_CONFIG_TRIGGER_TYPE, and otherwise the type of the object:
\* stored is the type of the project event of the run or build, if it is known.
job_config_trigger_type(kind, tagged, stored) ==
  LET row == Event(kind, tagged).row
      OfObject == [release |-> "release", branch |-> "commit", pull_request |-> "pull_request",
                   issue |-> "release", anitya |-> "release", none |-> "none"]
  IN CASE kind = "anitya.NewHotness" -> "release"
       [] kind = "koji.result.Build" -> "commit"
       [] kind = "koji.tag.Build" -> "koji_build"
       [] OTHER -> IF row.type \in DOMAIN OfObject THEN OfObject[row.type] ELSE stored

\* ------------------------------------------------------------- EventData
\* Mutant: "--release" in the comment at a commit is not thought of.
EventDataRowNoTag(kind, keys) ==
  CASE kind \in {"github.commit.Comment", "gitlab.commit.Comment"} -> AddBranchPushEventToDb
    [] kind \in {"github.release.Release", "gitlab.release.Release",
                 "github.check.Release"} -> AddReleaseEventToDb
    [] kind \in {"github.issue.Comment", "gitlab.issue.Comment"} -> AddIssueEventToDb
    [] kind = "anitya.NewHotness" -> AddAnityaEvent
    [] OTHER -> Event(kind, FALSE).row

\* EventData.from_event_dict followed by _add_project_object_and_event: what
\* a task looks up or adds, from the type of the event and the dictionary.
EventDataRow(kind, keys) ==
  CASE kind \in {"github.pr.Action", "pagure.pr.Action", "gitlab.mr.Action",
                 "github.pr.Comment", "pagure.pr.Comment", "gitlab.mr.Comment",
                 "pagure.pr.Flag", "github.check.PullRequest"} -> AddPullRequestEventToDb
    [] kind \in {"github.push.Commit", "gitlab.push.Commit", "pagure.push.Commit",
                 "github.check.Commit"} -> AddBranchPushEventToDb
    [] kind \in {"github.release.Release", "gitlab.release.Release",
                 "github.check.Release"} -> AddReleaseEventToDb
    [] kind = "anitya.NewHotness" -> AddAnityaEvent
    [] kind \in {"github.issue.Comment", "gitlab.issue.Comment"} -> AddIssueEventToDb
    [] kind = "koji.tag.Build" -> Row("koji_build_tag", {"task_id", "tag_name"})
    [] kind = "koji.result.Build" -> Row("branch", {"branch_name", "commit_sha"})
    [] kind \in {"github.commit.Comment", "gitlab.commit.Comment"}
         -> IF "tag_name" \in keys THEN AddReleaseEventToDb ELSE AddBranchPushEventToDb
    [] OTHER -> NoRow

\* What the task finds, or "lost" when the key is not in the dictionary.
FoundByTask(kind, tagged) ==
  LET keys == Event(kind, tagged).keys
      row == EventDataRow(kind, keys)
  IN IF row.key \subseteq keys THEN row ELSE Row("lost", row.key \ keys)
=============================================================================
