------------------------------- MODULE Tasks -------------------------------
(***************************************************************************)
(* The Celery tasks of packit_service.worker.tasks that run handlers.  The *)
(* dispatch sends the name of a handler's task with the event and two      *)
(* configurations (get_signature), not the handler: a worker looks the     *)
(* name up among its tasks and calls the function, which makes a handler   *)
(* of its own.  Here a function is the class whose run_job it calls.       *)
(* Queues, time limits and retries are left out: the modules of the        *)
(* handlers have the retries that change something.                        *)
(***************************************************************************)

run_copr_build_start_handler == "CoprBuildStartHandler"
run_copr_build_end_handler == "CoprBuildEndHandler"
run_copr_build_handler == "CoprBuildHandler"
run_installation_handler == "GithubAppInstallationHandler"
run_github_fas_verification_handler == "GithubFasVerificationHandler"
run_help_pr_handler == "GitPullRequestCommentHelpHandler"
run_help_issue_handler == "GitIssueCommentHelpHandler"
run_testing_farm_handler == "TestingFarmHandler"
run_testing_farm_results_handler == "TestingFarmResultsHandler"
run_downstream_testing_farm_handler == "DownstreamTestingFarmHandler"
run_downstream_testing_farm_eln_handler == "DownstreamTestingFarmELNHandler"
run_downstream_testing_farm_tests_ns_handler == "DownstreamTestingFarmTestsNSHandler"
run_downstream_testing_farm_results_handler == "DownstreamTestingFarmResultsHandler"
run_propose_downstream_handler == "ProposeDownstreamHandler"
run_pull_from_upstream_handler == "PullFromUpstreamHandler"
run_koji_build_handler == "KojiBuildHandler"
run_koji_build_report_handler == "KojiTaskReportHandler"
run_downstream_koji_scratch_build_report_handler == "KojiTaskReportDownstreamHandler"
run_downstream_koji_scratch_build_handler == "DownstreamKojiScratchBuildHandler"
run_downstream_koji_eln_scratch_build_handler == "DownstreamKojiELNScratchBuildHandler"
run_sync_from_downstream_handler == "SyncFromDownstream"
run_downstream_koji_build == "DownstreamKojiBuildHandler"
run_retrigger_downstream_koji_build == "RetriggerDownstreamKojiBuildHandler"
run_downstream_koji_build_report == "KojiBuildReportHandler"
run_bodhi_update == "CreateBodhiUpdateHandler"
run_bodhi_update_from_sidetag == "BodhiUpdateFromSidetagHandler"
run_retrigger_bodhi_update == "RetriggerBodhiUpdateHandler"
run_retrigger_bodhi_update_from_sidetag == "RetriggerBodhiUpdateFromSidetagHandler"
run_issue_comment_retrigger_bodhi_update == "IssueCommentRetriggerBodhiUpdateHandler"
run_vm_image_build == "VMImageBuildHandler"
\* Takes self, but is not bound: whoever calls it is an argument short.
run_vm_image_build_result == "TypeError"
run_koji_build_tag_handler == "KojiBuildTagHandler"
run_tag_into_sidetag_handler == "TagIntoSidetagHandler"
run_openscanhub_task_finished_handler == "CoprOpenScanHubTaskFinishedHandler"
run_openscanhub_task_started_handler == "CoprOpenScanHubTaskStartedHandler"
run_downstream_log_detective_results_handler == "DownstreamLogDetectiveResultsHandler"

\* The tasks a worker knows, by name.
celery_tasks ==
  [copr_build_start |-> run_copr_build_start_handler,
   copr_build_end |-> run_copr_build_end_handler, copr_build |-> run_copr_build_handler,
   installation |-> run_installation_handler,
   github_fas_verification |-> run_github_fas_verification_handler,
   help_pr |-> run_help_pr_handler, help_issue |-> run_help_issue_handler,
   testing_farm |-> run_testing_farm_handler,
   testing_farm_results |-> run_testing_farm_results_handler,
   downstream_testing_farm |-> run_downstream_testing_farm_handler,
   downstream_testing_farm_eln |-> run_downstream_testing_farm_eln_handler,
   downstream_testing_farm_tests_ns |-> run_downstream_testing_farm_tests_ns_handler,
   downstream_testing_farm_results |-> run_downstream_testing_farm_results_handler,
   propose_downstream |-> run_propose_downstream_handler,
   pull_from_upstream |-> run_pull_from_upstream_handler,
   upstream_koji_build |-> run_koji_build_handler,
   upstream_koji_build_report |-> run_koji_build_report_handler,
   downstream_koji_scratch_build_report |-> run_downstream_koji_scratch_build_report_handler,
   downstream_koji_scratch_build |-> run_downstream_koji_scratch_build_handler,
   downstream_koji_eln_scratch_build |-> run_downstream_koji_eln_scratch_build_handler,
   sync_from_downstream |-> run_sync_from_downstream_handler,
   downstream_koji_build |-> run_downstream_koji_build,
   retrigger_downstream_koji_build |-> run_retrigger_downstream_koji_build,
   downstream_koji_build_report |-> run_downstream_koji_build_report,
   bodhi_update |-> run_bodhi_update,
   bodhi_update_from_sidetag |-> run_bodhi_update_from_sidetag,
   retrigger_bodhi_update |-> run_retrigger_bodhi_update,
   retrigger_bodhi_update_from_sidetag |-> run_retrigger_bodhi_update_from_sidetag,
   issue_comment_retrigger_bodhi_update |-> run_issue_comment_retrigger_bodhi_update,
   vm_image_build |-> run_vm_image_build, vm_image_build_result |-> run_vm_image_build_result,
   koji_build_tag |-> run_koji_build_tag_handler,
   tag_into_sidetag |-> run_tag_into_sidetag_handler,
   openscanhub_task_finished |-> run_openscanhub_task_finished_handler,
   openscanhub_task_started |-> run_openscanhub_task_started_handler,
   downstream_log_detective_results |-> run_downstream_log_detective_results_handler]

\* Handler.task_name of the classes.
task_name ==
  [CreateBodhiUpdateHandler |-> "bodhi_update",
   BodhiUpdateFromSidetagHandler |-> "bodhi_update_from_sidetag",
   RetriggerBodhiUpdateHandler |-> "retrigger_bodhi_update",
   RetriggerBodhiUpdateFromSidetagHandler |-> "retrigger_bodhi_update_from_sidetag",
   IssueCommentRetriggerBodhiUpdateHandler |-> "issue_comment_retrigger_bodhi_update",
   CoprBuildHandler |-> "copr_build", CoprBuildStartHandler |-> "copr_build_start",
   CoprBuildEndHandler |-> "copr_build_end", SyncFromDownstream |-> "sync_from_downstream",
   ProposeDownstreamHandler |-> "propose_downstream",
   PullFromUpstreamHandler |-> "pull_from_upstream",
   DownstreamKojiScratchBuildHandler |-> "downstream_koji_scratch_build",
   DownstreamKojiELNScratchBuildHandler |-> "downstream_koji_eln_scratch_build",
   DownstreamKojiBuildHandler |-> "downstream_koji_build",
   RetriggerDownstreamKojiBuildHandler |-> "retrigger_downstream_koji_build",
   TagIntoSidetagHandler |-> "tag_into_sidetag",
   GithubAppInstallationHandler |-> "installation",
   GithubFasVerificationHandler |-> "github_fas_verification",
   GitPullRequestCommentHelpHandler |-> "help_pr", GitIssueCommentHelpHandler |-> "help_issue",
   KojiBuildHandler |-> "upstream_koji_build",
   KojiTaskReportHandler |-> "upstream_koji_build_report",
   KojiTaskReportDownstreamHandler |-> "downstream_koji_scratch_build_report",
   KojiBuildReportHandler |-> "downstream_koji_build_report",
   KojiBuildTagHandler |-> "koji_build_tag",
   DownstreamLogDetectiveResultsHandler |-> "downstream_log_detective_results",
   CoprOpenScanHubTaskFinishedHandler |-> "openscanhub_task_finished",
   CoprOpenScanHubTaskStartedHandler |-> "openscanhub_task_started",
   TestingFarmHandler |-> "testing_farm",
   DownstreamTestingFarmHandler |-> "downstream_testing_farm",
   DownstreamTestingFarmELNHandler |-> "downstream_testing_farm_eln",
   DownstreamTestingFarmTestsNSHandler |-> "downstream_testing_farm_tests_ns",
   TestingFarmResultsHandler |-> "testing_farm_results",
   DownstreamTestingFarmResultsHandler |-> "downstream_testing_farm_results",
   VMImageBuildHandler |-> "vm_image_build",
   VMImageBuildResultHandler |-> "vm_image_build_result"]

\* What runs when the task of the handler is sent.
Runs(h) == celery_tasks[task_name[h]]
=============================================================================
