------------------------------- MODULE Parser -------------------------------
(***************************************************************************)
(* What packit_service.worker.parser.Parser makes of a document that a     *)
(* service sends: the kind of the event, None for a document that is not   *)
(* of interest, Raised when the parser raises.                             *)
(*                                                                         *)
(* A document is a record: where it comes from (source, type: the two keys *)
(* of Parser.MAPPING), the values the parsers compare (kind: object_kind   *)
(* of GitLab, action: action or state, actor: a person, one of Packit's    *)
(* own accounts or nobody), and has, the keys with a truthy value.  For a  *)
(* Fedora message, type is also the topic; object and name are those of a  *)
(* rerun check: the project object its external id leads to and the words  *)
(* of its name.  parse_event tries all parsers in a fixed order; a mapped  *)
(* (source, type) goes to one parser only.                                 *)
(***************************************************************************)
EXTENDS Naturals, Sequences, FiniteSets, FiniteSetsExt, TLC

None == "none"
Raised == "raised"
Has(d, keys) == keys \subseteq d.has
Person(d) == d.actor # "nobody"
NotUs(d) == d.actor = "person"
Topic(d, topics) == d.source = "fedora-messaging" /\ d.type \in topics

\* ------------------------------------------------------------- GitHub
RepoKeys == {"repository.owner.login", "repository.name"}

parse_pr_event(d) ==
  IF /\ Has(d, {"pull_request", "number", "pull_request.head.repo.owner.login",
                "pull_request.head.repo.name", "pull_request.head.sha"})
     /\ d.action \in {"opened", "reopened", "synchronize"}
     /\ Person(d)
  THEN "github.pr.Action" ELSE None

parse_pull_request_comment_event(d) ==
  IF /\ Has(d, {"issue.pull_request", "issue.number", "issue.user.login", "repository.name"})
     /\ d.action \in {"created", "edited"}
     /\ NotUs(d)
  THEN "github.pr.Comment" ELSE None

parse_issue_comment_event(d) ==
  IF /\ ~Has(d, {"issue.pull_request"})
     /\ Has(d, {"issue.number", "comment.body", "comment.id"})
     /\ d.action = "created"
     /\ Person(d)
  THEN "github.issue.Comment" ELSE None

\* Mutant: comments in issues are not thought of.
parse_github_comment_eventOnlyPr(d) == parse_pull_request_comment_event(d)

parse_github_comment_event(d) ==
  IF Has(d, {"issue.pull_request"})
  THEN parse_pull_request_comment_event(d) ELSE parse_issue_comment_event(d)

parse_commit_comment_event(d) ==
  IF Has(d, {"comment.commit_id"}) /\ NotUs(d) THEN "github.commit.Comment" ELSE None

parse_release_event(d) ==
  IF Has(d, {"release", "release.tag_name"} \cup RepoKeys) /\ d.action = "published"
  THEN "github.release.Release" ELSE None

\* Any of head, after and head_commit names the pushed commit.
parse_github_push_event(d) ==
  IF /\ Has(d, {"ref", "before"} \cup RepoKeys)
     /\ d.has \cap {"head", "after", "head_commit"} # {}
     /\ "deleted" \notin d.has
     /\ "pusher.name" \in d.has
  THEN "github.push.Commit" ELSE None

parse_installation_event(d) ==
  IF ~Has(d, {"installation.account"}) THEN None
  ELSE IF d.action = "" THEN Raised
  ELSE IF d.action = "created" THEN "github.installation.Installation" ELSE None

\* ------------------------------------------- the name of a GitHub check
\* A name is a sequence of words, which ":" joins.  The name of a branch or a tag is
\* one word (get_check_cls replaces its colons), as is a target; an identifier, which
\* comes from the configuration, has any number of words, none when there is no identifier.
Prefixes == {"rpm-build", "testing-farm", "koji-build", "propose-downstream"}
BuildTestJobs == {"rpm-build", "testing-farm", "koji-build"}
NamesEvent(job, object) == job \in BuildTestJobs /\ object \in {"release", "branch"}

\* The names the helpers give: BaseBuildJobHelper.get_check_cls (without a
\* template) and ProposeDownstreamJobHelper.get_check, which names no event.
get_check_cls(job, object, target, identifier) ==
  <<job>> \o (IF NamesEvent(job, object) THEN <<object>> ELSE <<>>)
          \o (IF target = "" THEN <<>> ELSE <<target>>)
          \o identifier

\* The name read back, <<job, target, identifier>>, or <<>> for None: it is split at
\* three colons at most, and what follows the third is one part, colons and all.
parse_check_name(name, object) ==
  LET n == Len(name)
      job == name[1]
      Found(target, identifier) == IF target = "" THEN <<>> ELSE <<job, target, identifier>>
  IN IF n = 0 \/ job \notin Prefixes THEN <<>>
     ELSE CASE n = 2 -> Found(name[2], <<>>)
            [] n = 3 /\ NamesEvent(job, object) -> Found(name[3], <<>>)
            [] n = 3 /\ ~NamesEvent(job, object) -> Found(name[2], <<name[3]>>)
            [] n > 3 -> Found(name[3], SubSeq(name, 4, n))
            [] OTHER -> <<>>

\* The event of a rerun is that of the project object found by external_id.
CheckEvent == [pull_request |-> "github.check.PullRequest",
               release |-> "github.check.Release", branch |-> "github.check.Commit"]

parse_check_rerun_event(d) ==
  IF /\ Has(d, {"check_run", "ours", "check_run.external_id", "known"} \cup RepoKeys)
     /\ d.action = "rerequested"
     /\ parse_check_name(d.name, d.object) # <<>>
     /\ d.object \in DOMAIN CheckEvent
  THEN CheckEvent[d.object] ELSE None

\* ------------------------------------------------------------- GitLab
parse_mr_event(d) ==
  IF /\ d.kind = "merge_request"
     /\ d.action \in {"opened", "closed"}
     /\ Person(d)
     /\ Has(d, {"id", "iid", "source.web_url", "project.web_url"})
  THEN "gitlab.mr.Action" ELSE None

parse_merge_request_comment_event(d) ==
  IF /\ d.kind = "note"
     /\ Has(d, {"merge_request", "source.web_url", "project.web_url", "last_commit.id"})
     /\ d.action = "opened"
     /\ NotUs(d)
  THEN "gitlab.mr.Comment" ELSE None

parse_gitlab_issue_comment_event(d) ==
  IF /\ d.kind = "note"
     /\ Has(d, {"issue", "issue.iid", "note", "note.id", "project.web_url"})
     /\ d.action = "opened"
     /\ Person(d)
  THEN "gitlab.issue.Comment" ELSE None

parse_gitlab_commit_comment_event(d) ==
  IF /\ d.kind = "note"
     /\ Has(d, {"commit", "project.web_url"})
     /\ NotUs(d)
  THEN "gitlab.commit.Comment" ELSE None

parse_gitlab_comment_event(d) ==
  IF Has(d, {"merge_request"}) THEN parse_merge_request_comment_event(d)
  ELSE IF Has(d, {"commit"}) THEN parse_gitlab_commit_comment_event(d)
  ELSE parse_gitlab_issue_comment_event(d)

\* "after" is there and not all zeroes; without it the parser raises.
is_gitlab_push_a_create_event(d) ==
  Has(d, {"ref", "commits", "before", "after"}) /\ Person(d) /\ "deleted" \notin d.has

get_gitlab_push_common_data(d, event) ==
  IF /\ Has(d, {"ref", "commits", "before"}) /\ Person(d)
     /\ "after" \notin d.has
  THEN Raised
  ELSE IF ~is_gitlab_push_a_create_event(d) THEN None
  ELSE IF "checkout_sha" \notin d.has THEN Raised
  ELSE IF "project.web_url" \notin d.has THEN None ELSE event

parse_gitlab_push_event(d) ==
  IF d.kind = "push" THEN get_gitlab_push_common_data(d, "gitlab.push.Commit") ELSE None

parse_gitlab_tag_push_event(d) ==
  IF d.kind = "tag_push" THEN get_gitlab_push_common_data(d, "gitlab.push.Tag") ELSE None

parse_pipeline_event(d) ==
  IF d.kind = "pipeline" THEN "gitlab.pipeline.Pipeline" ELSE None

parse_gitlab_release_event(d) ==
  IF d.kind = "release" /\ d.action = "create" /\ Has(d, {"project.web_url"})
  THEN "gitlab.release.Release" ELSE None

\* ---------------------------------------------------- Fedora messaging
parse_testing_farm_results_event(d) ==
  IF ~Has(d, {"source=testing-farm", "request_id"}) THEN None
  ELSE IF Has(d, {"details"}) THEN "testing_farm.Result" ELSE Raised

\* parse_data_from_testing_farm: the state stands until it is an end state.
TestingFarmOutcome(state, overall) ==
  IF state \in {"complete", "error"}
  THEN (IF overall = "" THEN state ELSE overall)
  ELSE (IF state = "" THEN "unknown" ELSE state)

parse_copr_event(d) ==
  IF Topic(d, {"copr.build.start", "copr.build.end"}) /\ Has(d, {"build"})
  THEN (IF d.type = "copr.build.start" THEN "copr.Start" ELSE "copr.End") ELSE None

parse_koji_task_event(d) ==
  IF Topic(d, {"buildsys.task.state.change"}) /\ Has(d, {"info.state"})
  THEN "koji.result.Task" ELSE None

parse_koji_build_event(d) ==
  IF ~Topic(d, {"buildsys.build.state.change"}) \/ d.action = "deleted" THEN None
  ELSE IF Has(d, {"request"}) THEN "koji.result.Build" ELSE Raised

parse_koji_build_tag_event(d) ==
  IF Topic(d, {"buildsys.tag"}) THEN "koji.tag.Build" ELSE None

parse_pagure_push_event(d) ==
  IF /\ Topic(d, {"pagure.git.receive"})
     /\ Has(d, {"repo.namespace", "repo.name", "branch", "end_commit"})
  THEN "pagure.push.Commit" ELSE None

parse_pagure_pr_flag_event(d) ==
  IF /\ Topic(d, {"pagure.pull-request.flag.added", "pagure.pull-request.flag.updated"})
     /\ Has(d, {"flag"})
  THEN "pagure.pr.Flag" ELSE None

parse_pagure_pull_request_comment_event(d) ==
  IF ~Topic(d, {"pagure.pull-request.comment.added", "pagure.pull-request.comment.edited"})
  THEN None
  ELSE IF ~Has(d, {"pullrequest"}) THEN Raised
  ELSE IF ~NotUs(d) THEN None
  ELSE IF d.type = "pagure.pull-request.comment.added" THEN "pagure.pr.Comment" ELSE Raised

PagurePullRequests == {"pagure.pull-request.new", "pagure.pull-request.updated",
                       "pagure.pull-request.rebased"}
parse_pagure_pull_request_event(d) ==
  IF ~Topic(d, PagurePullRequests) THEN None
  ELSE IF Has(d, {"pullrequest"}) THEN "pagure.pr.Action" ELSE Raised

parse_new_hotness_update_event(d) ==
  IF Topic(d, {"hotness.update.bug.file"}) THEN "anitya.NewHotness" ELSE None

AnityaUpdate == "org.release-monitoring.prod.anitya.project.version.update.v2"
parse_anitya_version_update_event(d) ==
  IF ~Topic(d, {AnityaUpdate}) THEN None
  ELSE IF Has(d, {"CentOS"}) THEN "anitya.VersionUpdate" ELSE Raised

parse_openscanhub_task_finished_event(d) ==
  IF Topic(d, {"openscanhub.task.finished"}) /\ Has(d, {"known"})
  THEN "openscanhub.task.Finished" ELSE None

parse_openscanhub_task_started_event(d) ==
  IF Topic(d, {"openscanhub.task.started"}) /\ Has(d, {"known"})
  THEN "openscanhub.task.Started" ELSE None

parse_logdetective_analysis_event(d) ==
  IF /\ Topic(d, {"logdetective.analysis"})
     /\ Has(d, {"enabled", "start", "build_system", "known"})
  THEN "logdetective.Result" ELSE None

\* Only branches and tags ("refs/heads", "refs/tags"), and not their deletion.
parse_forgejo_push_event(d) ==
  IF /\ Topic(d, {"forgejo.push"})
     /\ Has(d, {"body.ref", "body.after", "body.before", "body.pusher", "heads or tags",
                "body.repository"})
     /\ "body.deleted" \notin d.has
  THEN "forgejo.push.Commit" ELSE None

parse_forgejo_pr_event(d) ==
  IF /\ Topic(d, {"forgejo.pull_request"})
     /\ d.action \in {"opened", "reopened", "synchronized"}
     /\ Has(d, {"body.pull_request", "body.base", "body.head", "body.repository"})
  THEN "forgejo.pr.Action" ELSE None

parse_forgejo_comment_event(d) ==
  IF /\ Topic(d, {"forgejo.issue_comment"})
     /\ d.action \in {"created", "edited"}
     /\ Has(d, {"body.issue", "body.repository"}) /\ Person(d)
     /\ "body.is_pull" \in d.has => Has(d, {"body.pull_request", "body.base", "body.head"})
  THEN (IF "body.is_pull" \in d.has THEN "forgejo.pr.Comment" ELSE "forgejo.issue.Comment")
  ELSE None

ActionRuns == {"forgejo.action_run_success", "forgejo.action_run_failure",
               "forgejo.action_run_recover", "forgejo.action_run_cancelled"}
parse_forgejo_action_run_event(d) ==
  IF ~Topic(d, ActionRuns) \/ ~Has(d, {"body.run", "body.run.repository"}) THEN None
  ELSE CASE d.action = "pull_request" /\ Has(d, {"body.pull_request"})
              -> "forgejo.action_run.PullRequest"
         [] d.action = "push" -> "forgejo.action_run.Push"
         [] OTHER -> None

\* ------------------------------------------------- the two ways to parse
\* Parser.parse_event: the first parser that answers (or raises) decides.
InOrder(d) ==
  <<parse_pr_event(d), parse_pull_request_comment_event(d), parse_issue_comment_event(d),
    parse_release_event(d), parse_github_push_event(d), parse_check_rerun_event(d),
    parse_installation_event(d), parse_testing_farm_results_event(d), parse_copr_event(d),
    parse_mr_event(d), parse_koji_task_event(d), parse_koji_build_event(d),
    parse_koji_build_tag_event(d), parse_merge_request_comment_event(d),
    parse_gitlab_issue_comment_event(d), parse_gitlab_commit_comment_event(d),
    parse_gitlab_push_event(d), parse_pipeline_event(d), parse_pagure_push_event(d),
    parse_pagure_pr_flag_event(d), parse_pagure_pull_request_comment_event(d),
    parse_new_hotness_update_event(d), parse_gitlab_release_event(d),
    parse_gitlab_tag_push_event(d), parse_anitya_version_update_event(d),
    parse_openscanhub_task_finished_event(d), parse_openscanhub_task_started_event(d),
    parse_commit_comment_event(d), parse_pagure_pull_request_event(d),
    parse_logdetective_analysis_event(d), parse_forgejo_push_event(d),
    parse_forgejo_pr_event(d), parse_forgejo_action_run_event(d),
    parse_forgejo_comment_event(d)>>

parse_event(d) ==
  LET answers == {i \in DOMAIN InOrder(d) : InOrder(d)[i] # None}
  IN IF answers = {} THEN None ELSE InOrder(d)[Min(answers)]

GitlabHooks == {"Merge Request Hook", "Note Hook", "Push Hook", "Tag Push Hook",
                "Pipeline Hook", "Release Hook"}

\* Parser.MAPPING: the answer of the one parser a (source, type) goes to.
MAPPING(d) ==
  [github |->
     [check_run |-> parse_check_rerun_event(d), pull_request |-> parse_pr_event(d),
      issue_comment |-> parse_github_comment_event(d), release |-> parse_release_event(d),
      push |-> parse_github_push_event(d), installation |-> parse_installation_event(d),
      commit_comment |-> parse_commit_comment_event(d)],
   gitlab |->
     [hook \in GitlabHooks |->
        CASE hook = "Merge Request Hook" -> parse_mr_event(d)
          [] hook = "Note Hook" -> parse_gitlab_comment_event(d)
          [] hook = "Push Hook" -> parse_gitlab_push_event(d)
          [] hook = "Tag Push Hook" -> parse_gitlab_tag_push_event(d)
          [] hook = "Pipeline Hook" -> parse_pipeline_event(d)
          [] hook = "Release Hook" -> parse_gitlab_release_event(d)]]

\* A Fedora message goes to the parser of its topic.
MAPPINGFedora(d) ==
  CASE d.type = "forgejo.push" -> parse_forgejo_push_event(d)
    [] d.type = "forgejo.pull_request" -> parse_forgejo_pr_event(d)
    [] d.type = "forgejo.issue_comment" -> parse_forgejo_comment_event(d)
    [] d.type \in ActionRuns -> parse_forgejo_action_run_event(d)
    [] d.type \in {"pagure.pull-request.flag.added", "pagure.pull-request.flag.updated"}
         -> parse_pagure_pr_flag_event(d)
    [] d.type = "pagure.pull-request.comment.added" -> parse_pagure_pull_request_comment_event(d)
    [] d.type \in PagurePullRequests -> parse_pagure_pull_request_event(d)
    [] d.type = "pagure.git.receive" -> parse_pagure_push_event(d)
    [] d.type \in {"copr.build.start", "copr.build.end"} -> parse_copr_event(d)
    [] d.type = "buildsys.task.state.change" -> parse_koji_task_event(d)
    [] d.type = "buildsys.build.state.change" -> parse_koji_build_event(d)
    [] d.type = "buildsys.tag" -> parse_koji_build_tag_event(d)
    [] d.type = "hotness.update.bug.file" -> parse_new_hotness_update_event(d)
    [] d.type = AnityaUpdate -> parse_anitya_version_update_event(d)
    [] d.type = "openscanhub.task.started" -> parse_openscanhub_task_started_event(d)
    [] d.type = "openscanhub.task.finished" -> parse_openscanhub_task_finished_event(d)
    [] d.type = "logdetective.analysis" -> parse_logdetective_analysis_event(d)
    [] OTHER -> parse_event(d)

\* SteveJobs.process_message: the mapped parser, or else all of them.
parse_message(d) ==
  CASE d.source = "testing-farm" /\ d.type = "results" -> parse_testing_farm_results_event(d)
    [] d.source = "fedora-messaging" -> MAPPINGFedora(d)
    [] d.source \in DOMAIN MAPPING(d) /\ d.type \in DOMAIN MAPPING(d)[d.source]
         -> MAPPING(d)[d.source][d.type]
    [] OTHER -> parse_event(d)
=============================================================================
