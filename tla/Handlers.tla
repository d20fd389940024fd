------------------------------ MODULE Handlers ------------------------------
(***************************************************************************)
(* The classes of packit_service.worker.handlers as the decorators and     *)
(* get_checkers describe them: for which job types, commands, checks and   *)
(* events a handler is there, and when its pre_check holds for the event   *)
(* e, the job configuration j and the world w (see Checkers).              *)
(***************************************************************************)
EXTENDS Checkers

Forges == {"github", "gitlab"}
Releases == {"github.release.Release", "gitlab.release.Release"}
Pushes == {"github.push.Commit", "gitlab.push.Commit"}
PullRequestComments == {"github.pr.Comment", "gitlab.mr.Comment"}
UpstreamEvents == Releases \cup Pushes \cup PullRequestActions \cup PullRequestComments

\* configured_as, run_for_comment, run_for_check_rerun, reacts_to; the rest
\* is a handler's pre_check.
Handler(jobs, commands, prefixes, events, ok) ==
  [jobs |-> jobs, commands |-> commands, prefixes |-> prefixes, events |-> events, ok |-> ok]

\* ------------------------------------------------------------- copr.py
CoprBuildHandler(e, j, w) ==
  Handler({"copr_build"}, {"build", "copr-build", "rebuild-failed"}, {"rpm-build"},
          UpstreamEvents \cup {"Rerun", "comment.Commit"},
          /\ IsJobConfigTriggerMatching(e, j, w)
          /\ IsGitForgeProjectAndEventOk(e, j, w)
          /\ CanActorRunTestsJob(e, j, w))

AbstractCoprBuildReportHandler(e, j, w) ==
  AreOwnerAndProjectMatchingJob(e, j, w) /\ IsPackageMatchingJobView(e, j, w)
CoprBuildStartHandler(e, j, w) ==
  Handler({"copr_build"}, {}, {}, {"copr.Start"},
          AbstractCoprBuildReportHandler(e, j, w) /\ BuildNotAlreadyStarted(e, j, w))
CoprBuildEndHandler(e, j, w) ==
  Handler({"copr_build"}, {}, {}, {"copr.End"}, AbstractCoprBuildReportHandler(e, j, w))

\* ----------------------------------------------------- testing_farm.py
TestingFarmHandler(e, j, w) ==
  Handler({"tests"}, {"test", "build", "copr-build", "retest-failed"}, {"testing-farm"},
          UpstreamEvents \cup {"github.check.PullRequest", "github.check.Commit",
                               "comment.Commit"},
          /\ IsJobConfigTriggerMatching(e, j, w)
          /\ IsEventOk(e, j, w)
          /\ IsCoprBuildDefined(e, j, w)
          /\ CanActorRunJob(e, j, w)
          /\ IsIdentifierFromCommentMatching(e, j, w)
          /\ IsLabelFromCommentMatching(e, j, w)
          /\ IsInternalTFEnabled(e, j, w))
TestingFarmResultsHandler(e, j, w) ==
  Handler({"tests"}, {}, {}, {"testing_farm.Result"},
          IsEventForJob(e, j, w) /\ IsUpstreamTest(e, j, w))

\* ------------------------------------------------------------- koji.py
KojiBuildHandler(e, j, w) ==
  Handler({"upstream_koji_build"}, {"upstream-koji-build"}, {"koji-build"},
          UpstreamEvents \cup {"Rerun"},
          IsJobConfigTriggerMatching(e, j, w) /\ PermissionOnKoji(e, j, w))
KojiTaskReportHandler(e, j, w) ==
  Handler({"upstream_koji_build"}, {}, {}, {"koji.result.Task"},
          IsUpstreamKojiScratchBuild(e, j, w))
KojiBuildReportHandler(e, j, w) ==
  Handler({"koji_build", "bodhi_update"}, {}, {}, {"koji.result.Build"}, TRUE)
KojiBuildTagHandler(e, j, w) ==
  Handler({"koji_build_tag"}, {}, {}, {"koji.tag.Build"}, SidetagExists(e, j, w))

\* ---------------------------------------------------------- distgit.py
SyncFromDownstream(e, j, w) ==
  Handler({"sync_from_downstream"}, {}, {}, {"pagure.push.Commit"}, IsProjectOk(e, j, w))
ProposeDownstreamHandler(e, j, w) ==
  Handler({"propose_downstream"}, {"propose-downstream"}, {"propose-downstream"},
          Releases \cup {"comment.Issue", "github.check.Release"},
          IsUpstreamTagMatchingConfig(e, j, w))
PullFromUpstreamHandler(e, j, w) ==
  Handler({"pull_from_upstream"}, {"pull-from-upstream"}, {},
          {"anitya.NewHotness", "pagure.pr.Comment"},
          /\ ValidInformationForPullFromUpstream(e, j, w)
          /\ IsUpstreamTagMatchingConfig(e, j, w)
          /\ IsRunConditionSatisfied(e, j, w))

AbstractDownstreamKojiBuildHandler(e, j, w) ==
  /\ LabelsOnDistgitPR(e, j, w)
  /\ PermissionOnDistgit(e, j, w)
  /\ HasIssueCommenterRetriggeringPermissions(e, j, w)
  /\ TaggedBuildIsNotABuildOfSelf(e, j, w)
  /\ IsRunConditionSatisfied(e, j, w)
DownstreamKojiBuildHandler(e, j, w) ==
  Handler({"koji_build"}, {"koji-build"}, {}, {"pagure.push.Commit", "pagure.pr.Comment"},
          AbstractDownstreamKojiBuildHandler(e, j, w))
RetriggerDownstreamKojiBuildHandler(e, j, w) ==
  Handler({"koji_build"}, {"koji-build"}, {}, IssueComments,
          AbstractDownstreamKojiBuildHandler(e, j, w))
TagIntoSidetagHandler(e, j, w) ==
  Handler({"koji_build"}, {"koji-tag"}, {}, {"pagure.pr.Comment"}, PermissionOnDistgit(e, j, w))

\* ------------------------------------------------------------ bodhi.py
CreateBodhiUpdateHandler(e, j, w) ==
  Handler({"bodhi_update"}, {}, {}, {"koji.result.Build"},
          /\ IsKojiBuildCompleteAndBranchConfigured(e, j, w)
          /\ IsKojiBuildOwnerMatchingConfiguration(e, j, w)
          /\ IsRunConditionSatisfied(e, j, w))
\* No event leads to it: the handlers of koji_build_tag and of Koji builds do.
BodhiUpdateFromSidetagHandler(e, j, w) ==
  Handler({"bodhi_update"}, {}, {}, {},
          IsKojiBuildCompleteAndBranchConfigured(e, j, w) /\ IsRunConditionSatisfied(e, j, w))
RetriggerBodhiUpdateHandler(e, j, w) ==
  Handler({"bodhi_update"}, {"create-update"}, {}, {"pagure.pr.Comment"},
          /\ IsAuthorAPackager(e, j, w)
          /\ HasCommenterRetriggeringPermissions(e, j, w)
          /\ IsSidetagGroupNotConfigured(e, j, w)
          /\ IsKojiBuildCompleteAndBranchConfigured(e, j, w)
          /\ IsRunConditionSatisfied(e, j, w))
RetriggerBodhiUpdateFromSidetagHandler(e, j, w) ==
  Handler({"bodhi_update"}, {"create-update"}, {}, {"pagure.pr.Comment"},
          /\ IsAuthorAPackager(e, j, w)
          /\ HasCommenterRetriggeringPermissions(e, j, w)
          /\ IsSidetagGroupConfigured(e, j, w)
          /\ IsRunConditionSatisfied(e, j, w))
IssueCommentRetriggerBodhiUpdateHandler(e, j, w) ==
  Handler({"bodhi_update"}, {"create-update"}, {}, IssueComments,
          HasCommenterRetriggeringPermissions(e, j, w) /\ IsRunConditionSatisfied(e, j, w))

\* --------------------------------------- open_scan_hub.py, vm_image.py
OpenScanHubAbstractHandler(e, j, w) == RawhideX86Target(e, j, w) /\ IsEventForJob(e, j, w)
CoprOpenScanHubTaskFinishedHandler(e, j, w) ==
  Handler({"copr_build"}, {}, {}, {"openscanhub.task.Finished"},
          OpenScanHubAbstractHandler(e, j, w))
CoprOpenScanHubTaskStartedHandler(e, j, w) ==
  Handler({"copr_build"}, {}, {}, {"openscanhub.task.Started"},
          OpenScanHubAbstractHandler(e, j, w))
VMImageBuildHandler(e, j, w) ==
  Handler({"vm_image_build"}, {"vm-image-build"}, {}, PullRequestComments,
          HasAuthorWriteAccess(e, j, w) /\ IsCoprBuildForChrootOk(e, j, w))
VMImageBuildResultHandler(e, j, w) ==
  Handler({"vm_image_build"}, {}, {}, {"vm_image.Result"}, TRUE)

\* The classes the decorators have put into the maps.
HandlerNames ==
  {"CoprBuildHandler", "CoprBuildStartHandler", "CoprBuildEndHandler",
   "TestingFarmHandler", "TestingFarmResultsHandler", "KojiBuildHandler",
   "KojiTaskReportHandler", "KojiBuildReportHandler", "KojiBuildTagHandler",
   "SyncFromDownstream", "ProposeDownstreamHandler", "PullFromUpstreamHandler",
   "DownstreamKojiBuildHandler", "RetriggerDownstreamKojiBuildHandler",
   "TagIntoSidetagHandler", "CreateBodhiUpdateHandler", "BodhiUpdateFromSidetagHandler",
   "RetriggerBodhiUpdateHandler", "RetriggerBodhiUpdateFromSidetagHandler",
   "IssueCommentRetriggerBodhiUpdateHandler", "CoprOpenScanHubTaskFinishedHandler",
   "CoprOpenScanHubTaskStartedHandler", "VMImageBuildHandler", "VMImageBuildResultHandler"}
HandlerOf(h, e, j, w) ==
  CASE h = "CoprBuildHandler" -> CoprBuildHandler(e, j, w)
    [] h = "CoprBuildStartHandler" -> CoprBuildStartHandler(e, j, w)
    [] h = "CoprBuildEndHandler" -> CoprBuildEndHandler(e, j, w)
    [] h = "TestingFarmHandler" -> TestingFarmHandler(e, j, w)
    [] h = "TestingFarmResultsHandler" -> TestingFarmResultsHandler(e, j, w)
    [] h = "KojiBuildHandler" -> KojiBuildHandler(e, j, w)
    [] h = "KojiTaskReportHandler" -> KojiTaskReportHandler(e, j, w)
    [] h = "KojiBuildReportHandler" -> KojiBuildReportHandler(e, j, w)
    [] h = "KojiBuildTagHandler" -> KojiBuildTagHandler(e, j, w)
    [] h = "SyncFromDownstream" -> SyncFromDownstream(e, j, w)
    [] h = "ProposeDownstreamHandler" -> ProposeDownstreamHandler(e, j, w)
    [] h = "PullFromUpstreamHandler" -> PullFromUpstreamHandler(e, j, w)
    [] h = "DownstreamKojiBuildHandler" -> DownstreamKojiBuildHandler(e, j, w)
    [] h = "RetriggerDownstreamKojiBuildHandler" -> RetriggerDownstreamKojiBuildHandler(e, j, w)
    [] h = "TagIntoSidetagHandler" -> TagIntoSidetagHandler(e, j, w)
    [] h = "CreateBodhiUpdateHandler" -> CreateBodhiUpdateHandler(e, j, w)
    [] h = "BodhiUpdateFromSidetagHandler" -> BodhiUpdateFromSidetagHandler(e, j, w)
    [] h = "RetriggerBodhiUpdateHandler" -> RetriggerBodhiUpdateHandler(e, j, w)
    [] h = "RetriggerBodhiUpdateFromSidetagHandler" -> RetriggerBodhiUpdateFromSidetagHandler(e, j, w)
    [] h = "IssueCommentRetriggerBodhiUpdateHandler" -> IssueCommentRetriggerBodhiUpdateHandler(e, j, w)
    [] h = "CoprOpenScanHubTaskFinishedHandler" -> CoprOpenScanHubTaskFinishedHandler(e, j, w)
    [] h = "CoprOpenScanHubTaskStartedHandler" -> CoprOpenScanHubTaskStartedHandler(e, j, w)
    [] h = "VMImageBuildHandler" -> VMImageBuildHandler(e, j, w)
    [] h = "VMImageBuildResultHandler" -> VMImageBuildResultHandler(e, j, w)

\* ----------------------------------------------------------- Fedora CI
\* run_for_comment_as_fedora_ci, corresponds_to_check_target ("" for none),
\* reacts_to_as_fedora_ci and the pre_check, which sees no job configuration.
NoJob == [type |-> "none", trigger |-> "none", identifier |-> <<>>, opts |-> {}, package |-> ""]
FedoraCI(commands, target, events, ok) ==
  [commands |-> commands, target |-> target, events |-> events, ok |-> ok]

DownstreamKojiScratchBuildHandler(e, w) ==
  FedoraCI({"scratch-build"}, "rawhide", {"pagure.pr.Action", "pagure.pr.Comment"},
           IsProjectInRpmsNamespace(e, NoJob, w) /\ PermissionOnDistgitForFedoraCI(e, NoJob, w))
DownstreamKojiELNScratchBuildHandler(e, w) ==
  FedoraCI({"scratch-build"}, "eln", {"pagure.pr.Action", "pagure.pr.Comment"},
           /\ IsProjectEnabledForELN(e, NoJob, w)
           /\ PermissionOnDistgitForFedoraCI(e, NoJob, w)
           /\ PackageNeedsELNBuildFromRawhide(e, NoJob, w))
KojiTaskReportDownstreamHandler(e, w) == FedoraCI({}, "", {"koji.result.Task"}, TRUE)
DownstreamTestingFarmHandler(e, w) ==
  FedoraCI({"test"}, "rawhide", {"koji.result.Task", "pagure.pr.Comment"},
           /\ IsProjectInRpmsNamespace(e, NoJob, w)
           /\ HasEventSuccessfulScratchBuild(e, NoJob, w)
           /\ PermissionOnDistgitForFedoraCI(e, NoJob, w))
DownstreamTestingFarmELNHandler(e, w) ==
  FedoraCI({"test"}, "eln", {"pagure.pr.Comment"},
           /\ IsProjectInRpmsNamespace(e, NoJob, w)
           /\ IsProjectEnabledForELN(e, NoJob, w)
           /\ PackageNeedsELNBuildFromRawhide(e, NoJob, w)
           /\ HasEventSuccessfulRawhideELNScratchBuild(e, NoJob, w)
           /\ PermissionOnDistgitForFedoraCI(e, NoJob, w))
DownstreamTestingFarmTestsNSHandler(e, w) ==
  FedoraCI({"test"}, "", {"pagure.pr.Action", "pagure.pr.Comment"},
           IsProjectInTestsNamespace(e, NoJob, w) /\ PermissionOnDistgitForFedoraCI(e, NoJob, w))
DownstreamTestingFarmResultsHandler(e, w) ==
  FedoraCI({}, "", {"testing_farm.Result"}, IsDownstreamTest(e, NoJob, w))
DownstreamLogDetectiveResultsHandler(e, w) == FedoraCI({}, "", {"logdetective.Result"}, TRUE)

FedoraCINames ==
  {"DownstreamKojiScratchBuildHandler", "DownstreamKojiELNScratchBuildHandler",
   "KojiTaskReportDownstreamHandler", "DownstreamTestingFarmHandler",
   "DownstreamTestingFarmELNHandler", "DownstreamTestingFarmTestsNSHandler",
   "DownstreamTestingFarmResultsHandler", "DownstreamLogDetectiveResultsHandler"}
FedoraCIOf(h, e, w) ==
  CASE h = "DownstreamKojiScratchBuildHandler" -> DownstreamKojiScratchBuildHandler(e, w)
    [] h = "DownstreamKojiELNScratchBuildHandler" -> DownstreamKojiELNScratchBuildHandler(e, w)
    [] h = "KojiTaskReportDownstreamHandler" -> KojiTaskReportDownstreamHandler(e, w)
    [] h = "DownstreamTestingFarmHandler" -> DownstreamTestingFarmHandler(e, w)
    [] h = "DownstreamTestingFarmELNHandler" -> DownstreamTestingFarmELNHandler(e, w)
    [] h = "DownstreamTestingFarmTestsNSHandler" -> DownstreamTestingFarmTestsNSHandler(e, w)
    [] h = "DownstreamTestingFarmResultsHandler" -> DownstreamTestingFarmResultsHandler(e, w)
    [] h = "DownstreamLogDetectiveResultsHandler" -> DownstreamLogDetectiveResultsHandler(e, w)
=============================================================================
