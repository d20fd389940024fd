---------------------------- MODULE DispatchProofs ----------------------------
(* Proofs about the dispatch of events, for every set of documents, configurations  *)
(* and worlds that DispatchAssumption allows.  What is not a matter of the order of *)
(* the steps is a lemma about the parsers (only the parser that MAPPING names       *)
(* answers a document), the rows of the events and the tables of the handlers; the  *)
(* inductive invariant DInv says what is known of the event while its handlers are  *)
(* gone through one by one.                                                         *)
EXTENDS Dispatch, SequenceTheorems, TLAPS

\* ------------------------------------------------------------- the parsers
\* What some parser answers to the document.
Answers(d) == {InOrder(d)[i] : i \in 1..34}

LEMMA EachAnswers ==
  ASSUME NEW d
  PROVE  {parse_pr_event(d), parse_pull_request_comment_event(d), parse_issue_comment_event(d),
    parse_release_event(d), parse_github_push_event(d), parse_check_rerun_event(d),
    parse_installation_event(d), parse_testing_farm_results_event(d), parse_copr_event(d),
    parse_mr_event(d), parse_koji_task_event(d), parse_koji_build_event(d),
    parse_koji_build_tag_event(d), parse_merge_request_comment_event(d),
    parse_gitlab_issue_comment_event(d), parse_gitlab_commit_comment_event(d),
    parse_gitlab_push_event(d), parse_pipeline_event(d), parse_pagure_push_event(d),
    parse_pagure_pr_flag_event(d), parse_pagure_pull_request_comment_event(d),
    parse_new_hotness_update_event(d), parse_gitlab_release_event(d),
    parse_gitlab_tag_push_event(d), parse_anitya_version_update_event(d),
    parse_openscanhub_task_finished_event(d), parse_openscanhub_task_started_event(d),
    parse_commit_comment_event(d), parse_pagure_pull_request_event(d),
    parse_logdetective_analysis_event(d), parse_forgejo_push_event(d),
    parse_forgejo_pr_event(d), parse_forgejo_action_run_event(d),
    parse_forgejo_comment_event(d)} = Answers(d)
BY SMTT(60) DEF Answers, InOrder

LEMMA MinOf ==
  ASSUME NEW S \in SUBSET (1..34), S # {}
  PROVE  Min(S) \in S
<1>1. \E x \in S : \A y \in S : x <= y
  <2> SUFFICES ASSUME \A x \in S : \E y \in S : y < x PROVE FALSE
    OBVIOUS
  <2>1. S \cap 1..12 = {} BY SMT
  <2>2. S \cap 1..24 = {} BY <2>1, SMT
  <2>3. S \cap 1..34 = {} BY <2>2, SMT
  <2> QED BY <2>3
<1> QED  BY <1>1 DEF Min

LEMMA MessageIsAnAnswer ==
  ASSUME NEW d
  PROVE  parse_message(d) \in Answers(d) \cup {None}
<1>1. parse_event(d) \in Answers(d) \cup {None}
  <2> DEFINE S == {i \in DOMAIN InOrder(d) : InOrder(d)[i] # None}
  <2>1. DOMAIN InOrder(d) = 1..34  BY DEF InOrder
  <2>2. S \in SUBSET (1..34)  BY <2>1
  <2>3. S # {} => Min(S) \in 1..34  BY <2>2, MinOf
  <2> QED  BY <2>3 DEF parse_event, Answers
<1>2. parse_github_comment_event(d) \in Answers(d)
  BY EachAnswers DEF parse_github_comment_event
<1>3. parse_gitlab_comment_event(d) \in Answers(d)
  BY EachAnswers DEF parse_gitlab_comment_event
<1>4. MAPPINGFedora(d) \in Answers(d) \cup {None}
  BY <1>1, EachAnswers DEF MAPPINGFedora
<1>5. ASSUME NEW s \in DOMAIN MAPPING(d), NEW t \in DOMAIN MAPPING(d)[s]
      PROVE  MAPPING(d)[s][t] \in Answers(d)
  <2>1. CASE s = "github"
    <3>1. /\ DOMAIN MAPPING(d)[s] = {"check_run", "pull_request", "issue_comment", "release",
                                     "push", "installation", "commit_comment"}
          /\ MAPPING(d)[s][t] \in
               {parse_check_rerun_event(d), parse_pr_event(d), parse_github_comment_event(d),
                parse_release_event(d), parse_github_push_event(d), parse_installation_event(d),
                parse_commit_comment_event(d)}
      BY <2>1 DEF MAPPING
    <3> QED  BY <3>1, <1>2, EachAnswers
  <2>2. CASE s = "gitlab"
    <3>1. /\ DOMAIN MAPPING(d)[s] = GitlabHooks
          /\ MAPPING(d)[s][t] \in
               {parse_mr_event(d), parse_gitlab_comment_event(d), parse_gitlab_push_event(d),
                parse_gitlab_tag_push_event(d), parse_pipeline_event(d),
                parse_gitlab_release_event(d)}
      BY <2>2 DEF MAPPING, GitlabHooks
    <3> QED  BY <3>1, <1>3, EachAnswers
  <2>3. DOMAIN MAPPING(d) = {"github", "gitlab"}  BY DEF MAPPING
  <2> QED  BY <2>1, <2>2, <2>3
<1>6. parse_testing_farm_results_event(d) \in Answers(d)  BY EachAnswers
<1> QED  BY <1>1, <1>4, <1>5, <1>6 DEF parse_message

\* What answers, and nothing else does, is what trying all of them in order gives.
LEMMA OnlyAnswer ==
  ASSUME NEW d, NEW a \in Answers(d), Answers(d) \subseteq {None, a}
  PROVE  parse_event(d) = a
<1> DEFINE S == {i \in DOMAIN InOrder(d) : InOrder(d)[i] # None}
<1>1. DOMAIN InOrder(d) = 1..34  BY DEF InOrder
<1>2. S \in SUBSET (1..34)  BY <1>1
<1>3. CASE S = {}
  <2>1. a = None  BY <1>1, <1>3 DEF Answers
  <2> QED  BY <1>3, <2>1 DEF parse_event
<1>4. CASE S # {}
  <2>1. Min(S) \in S  BY <1>2, <1>4, MinOf
  <2>2. InOrder(d)[Min(S)] = a  BY <1>1, <2>1 DEF Answers
  <2> QED  BY <1>4, <2>2 DEF parse_event
<1> QED  BY <1>3, <1>4

\* A parser does not answer to a document of another service or type.
LEMMA SilentGithub ==
  ASSUME NEW d
  PROVE  /\ "pull_request" \notin d.has => parse_pr_event(d) = None
         /\ "issue.number" \notin d.has => /\ parse_pull_request_comment_event(d) = None
                                           /\ parse_issue_comment_event(d) = None
         /\ "release.tag_name" \notin d.has => parse_release_event(d) = None
         /\ "pusher.name" \notin d.has => parse_github_push_event(d) = None
         /\ "check_run" \notin d.has => parse_check_rerun_event(d) = None
         /\ "installation.account" \notin d.has => parse_installation_event(d) = None
         /\ "comment.commit_id" \notin d.has => parse_commit_comment_event(d) = None
BY DEF parse_pr_event, parse_pull_request_comment_event, parse_issue_comment_event,
       parse_release_event, parse_github_push_event, parse_check_rerun_event,
       parse_installation_event, parse_commit_comment_event, Has

LEMMA SilentGitlab ==
  ASSUME NEW d
  PROVE  /\ d.kind # "merge_request" => parse_mr_event(d) = None
         /\ d.kind # "note" => /\ parse_merge_request_comment_event(d) = None
                              /\ parse_gitlab_issue_comment_event(d) = None
                              /\ parse_gitlab_commit_comment_event(d) = None
         /\ d.kind # "push" => parse_gitlab_push_event(d) = None
         /\ d.kind # "tag_push" => parse_gitlab_tag_push_event(d) = None
         /\ d.kind # "pipeline" => parse_pipeline_event(d) = None
         /\ d.kind # "release" => parse_gitlab_release_event(d) = None
BY DEF parse_mr_event, parse_merge_request_comment_event, parse_gitlab_issue_comment_event,
       parse_gitlab_commit_comment_event, parse_gitlab_push_event, parse_gitlab_tag_push_event,
       parse_pipeline_event, parse_gitlab_release_event

LEMMA SilentFedora ==
  ASSUME NEW d
  PROVE  /\ ~Topic(d, {"copr.build.start", "copr.build.end"}) => parse_copr_event(d) = None
         /\ ~Topic(d, {"buildsys.task.state.change"}) => parse_koji_task_event(d) = None
         /\ ~Topic(d, {"buildsys.build.state.change"}) => parse_koji_build_event(d) = None
         /\ ~Topic(d, {"buildsys.tag"}) => parse_koji_build_tag_event(d) = None
         /\ ~Topic(d, {"pagure.git.receive"}) => parse_pagure_push_event(d) = None
         /\ ~Topic(d, {"pagure.pull-request.flag.added",
                                "pagure.pull-request.flag.updated"}) =>
              parse_pagure_pr_flag_event(d) = None
         /\ ~Topic(d, {"pagure.pull-request.comment.added",
                                "pagure.pull-request.comment.edited"}) =>
              parse_pagure_pull_request_comment_event(d) = None
         /\ ~Topic(d, PagurePullRequests) => parse_pagure_pull_request_event(d) = None
         /\ ~Topic(d, {"hotness.update.bug.file"}) => parse_new_hotness_update_event(d) = None
         /\ ~Topic(d, {AnityaUpdate}) => parse_anitya_version_update_event(d) = None
         /\ ~Topic(d, {"openscanhub.task.finished"}) =>
              parse_openscanhub_task_finished_event(d) = None
         /\ ~Topic(d, {"openscanhub.task.started"}) =>
              parse_openscanhub_task_started_event(d) = None
         /\ ~Topic(d, {"logdetective.analysis"}) => parse_logdetective_analysis_event(d) = None
         /\ ~Topic(d, {"forgejo.push"}) => parse_forgejo_push_event(d) = None
         /\ ~Topic(d, {"forgejo.pull_request"}) => parse_forgejo_pr_event(d) = None
         /\ ~Topic(d, ActionRuns) => parse_forgejo_action_run_event(d) = None
         /\ ~Topic(d, {"forgejo.issue_comment"}) => parse_forgejo_comment_event(d) = None
BY DEF parse_copr_event, parse_koji_task_event, parse_koji_build_event, parse_koji_build_tag_event,
       parse_pagure_push_event, parse_pagure_pr_flag_event,
       parse_pagure_pull_request_comment_event, parse_pagure_pull_request_event,
       parse_new_hotness_update_event, parse_anitya_version_update_event,
       parse_openscanhub_task_finished_event, parse_openscanhub_task_started_event,
       parse_logdetective_analysis_event, parse_forgejo_push_event, parse_forgejo_pr_event,
       parse_forgejo_action_run_event, parse_forgejo_comment_event

\* The answers, by service.
GithubAnswers(d) ==
  {parse_pr_event(d), parse_pull_request_comment_event(d), parse_issue_comment_event(d),
   parse_release_event(d), parse_github_push_event(d), parse_check_rerun_event(d),
   parse_installation_event(d), parse_commit_comment_event(d)}
GitlabAnswers(d) ==
  {parse_mr_event(d), parse_merge_request_comment_event(d), parse_gitlab_issue_comment_event(d),
   parse_gitlab_commit_comment_event(d), parse_gitlab_push_event(d),
   parse_gitlab_tag_push_event(d), parse_pipeline_event(d), parse_gitlab_release_event(d)}
FedoraAnswers(d) ==
  {parse_copr_event(d), parse_koji_task_event(d), parse_koji_build_event(d),
   parse_koji_build_tag_event(d), parse_pagure_push_event(d), parse_pagure_pr_flag_event(d),
   parse_pagure_pull_request_comment_event(d), parse_pagure_pull_request_event(d),
   parse_new_hotness_update_event(d), parse_anitya_version_update_event(d),
   parse_openscanhub_task_finished_event(d), parse_openscanhub_task_started_event(d),
   parse_logdetective_analysis_event(d), parse_forgejo_push_event(d), parse_forgejo_pr_event(d),
   parse_forgejo_action_run_event(d), parse_forgejo_comment_event(d)}

LEMMA AnswersOfServices ==
  ASSUME NEW d
  PROVE  Answers(d) = GithubAnswers(d) \cup GitlabAnswers(d) \cup FedoraAnswers(d)
                        \cup {parse_testing_farm_results_event(d)}
BY EachAnswers DEF GithubAnswers, GitlabAnswers, FedoraAnswers

LEMMA Silent ==
  ASSUME NEW d, Document(d)
  PROVE  /\ d.source \in {"gitlab", "fedora-messaging", "testing-farm"} =>
              GithubAnswers(d) \subseteq {None}
         /\ d.source \in {"github", "fedora-messaging", "testing-farm"} =>
              GitlabAnswers(d) \subseteq {None}
         /\ d.source # "fedora-messaging" => FedoraAnswers(d) \subseteq {None}
         /\ d.source \in {"github", "gitlab", "fedora-messaging"} =>
              parse_testing_farm_results_event(d) = None
<1> DEFINE marks == {Marks[type] : type \in DOMAIN Marks} \cap d.has
<1>1. /\ d.source \in {"gitlab", "fedora-messaging", "testing-farm"} => marks = {}
      /\ d.source \in {"github", "fedora-messaging", "testing-farm"} => d.kind = ""
      /\ d.source \in {"github", "gitlab", "fedora-messaging"} => "source=testing-farm" \notin d.has
  BY DEF Document
<1>2. {"pull_request", "issue.number", "release.tag_name", "pusher.name", "check_run",
       "installation.account", "comment.commit_id"} \cap d.has \subseteq marks
  BY DEF Marks
<1> HIDE DEF marks
<1>3. d.source \in {"gitlab", "fedora-messaging", "testing-farm"} =>
        GithubAnswers(d) \subseteq {None}
  BY <1>1, <1>2, SilentGithub DEF GithubAnswers
<1>4. d.source \in {"github", "fedora-messaging", "testing-farm"} =>
        GitlabAnswers(d) \subseteq {None}
  BY <1>1, SilentGitlab DEF GitlabAnswers
<1>5. d.source # "fedora-messaging" => FedoraAnswers(d) \subseteq {None}
  <2> SUFFICES ASSUME d.source # "fedora-messaging" PROVE FedoraAnswers(d) \subseteq {None}
    OBVIOUS
  <2>1. \A topics : ~Topic(d, topics)  BY DEF Topic
  <2> QED  BY <2>1, SilentFedora DEF FedoraAnswers
<1>6. d.source \in {"github", "gitlab", "fedora-messaging"} =>
        parse_testing_farm_results_event(d) = None
  BY <1>1 DEF parse_testing_farm_results_event, Has
<1> QED  BY <1>3, <1>4, <1>5, <1>6

\* A Fedora message is answered by the parser of its topic.
LEMMA FedoraEitherWay ==
  ASSUME NEW d, Document(d), d.source = "fedora-messaging"
  PROVE  MAPPINGFedora(d) = parse_event(d)
<1>1. Answers(d) = FedoraAnswers(d) \cup {None}
  BY Silent, AnswersOfServices DEF GithubAnswers, GitlabAnswers
<1>2. \A topics : Topic(d, topics) <=> d.type \in topics  BY DEF Topic
<1>3. ASSUME NEW a \in FedoraAnswers(d), FedoraAnswers(d) \subseteq {None, a}
      PROVE  parse_event(d) = a
  BY <1>1, <1>3, OnlyAnswer
<1> USE DEF ActionRuns, PagurePullRequests, AnityaUpdate
<1>4. CASE d.type = "forgejo.push"
  <2>1. MAPPINGFedora(d) = parse_forgejo_push_event(d)  BY <1>4 DEF MAPPINGFedora
  <2>2. FedoraAnswers(d) \subseteq {None, parse_forgejo_push_event(d)}
    BY <1>2, <1>4, SilentFedora DEF FedoraAnswers
  <2> QED  BY <1>3, <2>1, <2>2 DEF FedoraAnswers
<1>5. CASE d.type = "forgejo.pull_request"
  <2>1. MAPPINGFedora(d) = parse_forgejo_pr_event(d)  BY <1>5 DEF MAPPINGFedora
  <2>2. FedoraAnswers(d) \subseteq {None, parse_forgejo_pr_event(d)}
    BY <1>2, <1>5, SilentFedora DEF FedoraAnswers
  <2> QED  BY <1>3, <2>1, <2>2 DEF FedoraAnswers
<1>6. CASE d.type = "forgejo.issue_comment"
  <2>1. MAPPINGFedora(d) = parse_forgejo_comment_event(d)  BY <1>6 DEF MAPPINGFedora
  <2>2. FedoraAnswers(d) \subseteq {None, parse_forgejo_comment_event(d)}
    BY <1>2, <1>6, SilentFedora DEF FedoraAnswers
  <2> QED  BY <1>3, <2>1, <2>2 DEF FedoraAnswers
<1>7. CASE d.type \in ActionRuns
  <2>1. MAPPINGFedora(d) = parse_forgejo_action_run_event(d)  BY <1>7 DEF MAPPINGFedora
  <2>2. FedoraAnswers(d) \subseteq {None, parse_forgejo_action_run_event(d)}
    BY <1>2, <1>7, SilentFedora DEF FedoraAnswers
  <2> QED  BY <1>3, <2>1, <2>2 DEF FedoraAnswers
<1>8. CASE d.type \in {"pagure.pull-request.flag.added",
                           "pagure.pull-request.flag.updated"}
  <2>1. MAPPINGFedora(d) = parse_pagure_pr_flag_event(d)  BY <1>8 DEF MAPPINGFedora
  <2>2. FedoraAnswers(d) \subseteq {None, parse_pagure_pr_flag_event(d)}
    BY <1>2, <1>8, SilentFedora DEF FedoraAnswers
  <2> QED  BY <1>3, <2>1, <2>2 DEF FedoraAnswers
<1>9. CASE d.type = "pagure.pull-request.comment.added"
  <2>1. MAPPINGFedora(d) = parse_pagure_pull_request_comment_event(d)  BY <1>9 DEF MAPPINGFedora
  <2>2. FedoraAnswers(d) \subseteq {None, parse_pagure_pull_request_comment_event(d)}
    BY <1>2, <1>9, SilentFedora DEF FedoraAnswers
  <2> QED  BY <1>3, <2>1, <2>2 DEF FedoraAnswers
<1>10. CASE d.type \in PagurePullRequests
  <2>1. MAPPINGFedora(d) = parse_pagure_pull_request_event(d)  BY <1>10 DEF MAPPINGFedora
  <2>2. FedoraAnswers(d) \subseteq {None, parse_pagure_pull_request_event(d)}
    BY <1>2, <1>10, SilentFedora DEF FedoraAnswers
  <2> QED  BY <1>3, <2>1, <2>2 DEF FedoraAnswers
<1>11. CASE d.type = "pagure.git.receive"
  <2>1. MAPPINGFedora(d) = parse_pagure_push_event(d)  BY <1>11 DEF MAPPINGFedora
  <2>2. FedoraAnswers(d) \subseteq {None, parse_pagure_push_event(d)}
    BY <1>2, <1>11, SilentFedora DEF FedoraAnswers
  <2> QED  BY <1>3, <2>1, <2>2 DEF FedoraAnswers
<1>12. CASE d.type \in {"copr.build.start", "copr.build.end"}
  <2>1. MAPPINGFedora(d) = parse_copr_event(d)  BY <1>12 DEF MAPPINGFedora
  <2>2. FedoraAnswers(d) \subseteq {None, parse_copr_event(d)}
    BY <1>2, <1>12, SilentFedora DEF FedoraAnswers
  <2> QED  BY <1>3, <2>1, <2>2 DEF FedoraAnswers
<1>13. CASE d.type = "buildsys.task.state.change"
  <2>1. MAPPINGFedora(d) = parse_koji_task_event(d)  BY <1>13 DEF MAPPINGFedora
  <2>2. FedoraAnswers(d) \subseteq {None, parse_koji_task_event(d)}
    BY <1>2, <1>13, SilentFedora DEF FedoraAnswers
  <2> QED  BY <1>3, <2>1, <2>2 DEF FedoraAnswers
<1>14. CASE d.type = "buildsys.build.state.change"
  <2>1. MAPPINGFedora(d) = parse_koji_build_event(d)  BY <1>14 DEF MAPPINGFedora
  <2>2. FedoraAnswers(d) \subseteq {None, parse_koji_build_event(d)}
    BY <1>2, <1>14, SilentFedora DEF FedoraAnswers
  <2> QED  BY <1>3, <2>1, <2>2 DEF FedoraAnswers
<1>15. CASE d.type = "buildsys.tag"
  <2>1. MAPPINGFedora(d) = parse_koji_build_tag_event(d)  BY <1>15 DEF MAPPINGFedora
  <2>2. FedoraAnswers(d) \subseteq {None, parse_koji_build_tag_event(d)}
    BY <1>2, <1>15, SilentFedora DEF FedoraAnswers
  <2> QED  BY <1>3, <2>1, <2>2 DEF FedoraAnswers
<1>16. CASE d.type = "hotness.update.bug.file"
  <2>1. MAPPINGFedora(d) = parse_new_hotness_update_event(d)  BY <1>16 DEF MAPPINGFedora
  <2>2. FedoraAnswers(d) \subseteq {None, parse_new_hotness_update_event(d)}
    BY <1>2, <1>16, SilentFedora DEF FedoraAnswers
  <2> QED  BY <1>3, <2>1, <2>2 DEF FedoraAnswers
<1>17. CASE d.type = AnityaUpdate
  <2>1. MAPPINGFedora(d) = parse_anitya_version_update_event(d)  BY <1>17 DEF MAPPINGFedora
  <2>2. FedoraAnswers(d) \subseteq {None, parse_anitya_version_update_event(d)}
    BY <1>2, <1>17, SilentFedora DEF FedoraAnswers
  <2> QED  BY <1>3, <2>1, <2>2 DEF FedoraAnswers
<1>18. CASE d.type = "openscanhub.task.started"
  <2>1. MAPPINGFedora(d) = parse_openscanhub_task_started_event(d)  BY <1>18 DEF MAPPINGFedora
  <2>2. FedoraAnswers(d) \subseteq {None, parse_openscanhub_task_started_event(d)}
    BY <1>2, <1>18, SilentFedora DEF FedoraAnswers
  <2> QED  BY <1>3, <2>1, <2>2 DEF FedoraAnswers
<1>19. CASE d.type = "openscanhub.task.finished"
  <2>1. MAPPINGFedora(d) = parse_openscanhub_task_finished_event(d)  BY <1>19 DEF MAPPINGFedora
  <2>2. FedoraAnswers(d) \subseteq {None, parse_openscanhub_task_finished_event(d)}
    BY <1>2, <1>19, SilentFedora DEF FedoraAnswers
  <2> QED  BY <1>3, <2>1, <2>2 DEF FedoraAnswers
<1>20. CASE d.type = "logdetective.analysis"
  <2>1. MAPPINGFedora(d) = parse_logdetective_analysis_event(d)  BY <1>20 DEF MAPPINGFedora
  <2>2. FedoraAnswers(d) \subseteq {None, parse_logdetective_analysis_event(d)}
    BY <1>2, <1>20, SilentFedora DEF FedoraAnswers
  <2> QED  BY <1>3, <2>1, <2>2 DEF FedoraAnswers
<1> HIDE DEF ActionRuns, PagurePullRequests, AnityaUpdate
<1> QED  BY <1>4, <1>5, <1>6, <1>7, <1>8, <1>9, <1>10, <1>11, <1>12, <1>13, <1>14, <1>15, <1>16,
         <1>17, <1>18, <1>19, <1>20 DEF MAPPINGFedora

\* A document of GitHub has the mark of its own type at most.
LEMMA GithubEitherWay ==
  ASSUME NEW d, Document(d), d.source = "github", d.type \in DOMAIN Marks
  PROVE  MAPPING(d)["github"][d.type] = parse_event(d)
<1> DEFINE marks == {Marks[type] : type \in DOMAIN Marks} \cap d.has
<1>1. Answers(d) = GithubAnswers(d) \cup {None}
  BY Silent, AnswersOfServices DEF GitlabAnswers, FedoraAnswers
<1>2. marks \subseteq {Marks[d.type]}  BY DEF Document
<1>3. \A m \in {"pull_request", "issue.number", "release.tag_name", "pusher.name", "check_run",
               "installation.account", "comment.commit_id"} : m \in d.has => m = Marks[d.type]
  BY <1>2 DEF Marks
<1>4. ASSUME NEW a \in GithubAnswers(d), GithubAnswers(d) \subseteq {None, a}
      PROVE  parse_event(d) = a
  BY <1>1, <1>4, OnlyAnswer
<1> HIDE DEF marks
<1>5. CASE d.type = "check_run"
  <2>1. MAPPING(d)["github"][d.type] = parse_check_rerun_event(d)  BY <1>5 DEF MAPPING
  <2>2. GithubAnswers(d) \subseteq {None, parse_check_rerun_event(d)}
    BY <1>3, <1>5, SilentGithub DEF GithubAnswers, Marks
  <2> QED  BY <1>4, <2>1, <2>2 DEF GithubAnswers
<1>6. CASE d.type = "pull_request"
  <2>1. MAPPING(d)["github"][d.type] = parse_pr_event(d)  BY <1>6 DEF MAPPING
  <2>2. GithubAnswers(d) \subseteq {None, parse_pr_event(d)}
    BY <1>3, <1>6, SilentGithub DEF GithubAnswers, Marks
  <2> QED  BY <1>4, <2>1, <2>2 DEF GithubAnswers
<1>7. CASE d.type = "release"
  <2>1. MAPPING(d)["github"][d.type] = parse_release_event(d)  BY <1>7 DEF MAPPING
  <2>2. GithubAnswers(d) \subseteq {None, parse_release_event(d)}
    BY <1>3, <1>7, SilentGithub DEF GithubAnswers, Marks
  <2> QED  BY <1>4, <2>1, <2>2 DEF GithubAnswers
<1>8. CASE d.type = "push"
  <2>1. MAPPING(d)["github"][d.type] = parse_github_push_event(d)  BY <1>8 DEF MAPPING
  <2>2. GithubAnswers(d) \subseteq {None, parse_github_push_event(d)}
    BY <1>3, <1>8, SilentGithub DEF GithubAnswers, Marks
  <2> QED  BY <1>4, <2>1, <2>2 DEF GithubAnswers
<1>9. CASE d.type = "installation"
  <2>1. MAPPING(d)["github"][d.type] = parse_installation_event(d)  BY <1>9 DEF MAPPING
  <2>2. GithubAnswers(d) \subseteq {None, parse_installation_event(d)}
    BY <1>3, <1>9, SilentGithub DEF GithubAnswers, Marks
  <2> QED  BY <1>4, <2>1, <2>2 DEF GithubAnswers
<1>10. CASE d.type = "commit_comment"
  <2>1. MAPPING(d)["github"][d.type] = parse_commit_comment_event(d)  BY <1>10 DEF MAPPING
  <2>2. GithubAnswers(d) \subseteq {None, parse_commit_comment_event(d)}
    BY <1>3, <1>10, SilentGithub DEF GithubAnswers, Marks
  <2> QED  BY <1>4, <2>1, <2>2 DEF GithubAnswers
<1>11. CASE d.type = "issue_comment"
  <2> DEFINE a == parse_github_comment_event(d)
  <2>1. MAPPING(d)["github"][d.type] = a  BY <1>11 DEF MAPPING
  <2>2. {parse_pull_request_comment_event(d), parse_issue_comment_event(d)} \subseteq {None, a}
    BY DEF parse_github_comment_event, parse_pull_request_comment_event,
           parse_issue_comment_event, Has
  <2>3. GithubAnswers(d) \subseteq {None, a}
    BY <1>3, <1>11, <2>2, SilentGithub DEF GithubAnswers, Marks
  <2>4. a \in GithubAnswers(d)  BY DEF GithubAnswers, parse_github_comment_event
  <2> QED  BY <1>4, <2>1, <2>3, <2>4
<1> QED  BY <1>5, <1>6, <1>7, <1>8, <1>9, <1>10, <1>11 DEF Marks

\* A hook of GitLab is of one kind, and a note is on one object.
LEMMA GitlabEitherWay ==
  ASSUME NEW d, Document(d), d.source = "gitlab", d.type \in GitlabHooks
  PROVE  MAPPING(d)["gitlab"][d.type] = parse_event(d)
<1>1. Answers(d) = GitlabAnswers(d) \cup {None}
  BY Silent, AnswersOfServices DEF GithubAnswers, FedoraAnswers
<1>2. /\ d.kind = object_kind(d.type)
      /\ \A a, b \in {"merge_request", "issue", "commit"} \cap d.has : a = b
  BY DEF Document
<1>3. ASSUME NEW a \in GitlabAnswers(d), GitlabAnswers(d) \subseteq {None, a}
      PROVE  parse_event(d) = a
  BY <1>1, <1>3, OnlyAnswer
<1>4. CASE d.type = "Merge Request Hook"
  <2>1. MAPPING(d)["gitlab"][d.type] = parse_mr_event(d)
    BY <1>4 DEF MAPPING, GitlabHooks
  <2>2. GitlabAnswers(d) \subseteq {None, parse_mr_event(d)}
    BY <1>2, <1>4, SilentGitlab DEF GitlabAnswers, object_kind
  <2> QED  BY <1>3, <2>1, <2>2 DEF GitlabAnswers
<1>5. CASE d.type = "Push Hook"
  <2>1. MAPPING(d)["gitlab"][d.type] = parse_gitlab_push_event(d)
    BY <1>5 DEF MAPPING, GitlabHooks
  <2>2. GitlabAnswers(d) \subseteq {None, parse_gitlab_push_event(d)}
    BY <1>2, <1>5, SilentGitlab DEF GitlabAnswers, object_kind
  <2> QED  BY <1>3, <2>1, <2>2 DEF GitlabAnswers
<1>6. CASE d.type = "Tag Push Hook"
  <2>1. MAPPING(d)["gitlab"][d.type] = parse_gitlab_tag_push_event(d)
    BY <1>6 DEF MAPPING, GitlabHooks
  <2>2. GitlabAnswers(d) \subseteq {None, parse_gitlab_tag_push_event(d)}
    BY <1>2, <1>6, SilentGitlab DEF GitlabAnswers, object_kind
  <2> QED  BY <1>3, <2>1, <2>2 DEF GitlabAnswers
<1>7. CASE d.type = "Pipeline Hook"
  <2>1. MAPPING(d)["gitlab"][d.type] = parse_pipeline_event(d)
    BY <1>7 DEF MAPPING, GitlabHooks
  <2>2. GitlabAnswers(d) \subseteq {None, parse_pipeline_event(d)}
    BY <1>2, <1>7, SilentGitlab DEF GitlabAnswers, object_kind
  <2> QED  BY <1>3, <2>1, <2>2 DEF GitlabAnswers
<1>8. CASE d.type = "Release Hook"
  <2>1. MAPPING(d)["gitlab"][d.type] = parse_gitlab_release_event(d)
    BY <1>8 DEF MAPPING, GitlabHooks
  <2>2. GitlabAnswers(d) \subseteq {None, parse_gitlab_release_event(d)}
    BY <1>2, <1>8, SilentGitlab DEF GitlabAnswers, object_kind
  <2> QED  BY <1>3, <2>1, <2>2 DEF GitlabAnswers
<1>9. CASE d.type = "Note Hook"
  <2> DEFINE a == parse_gitlab_comment_event(d)
  <2>1. MAPPING(d)["gitlab"][d.type] = a  BY <1>9 DEF MAPPING, GitlabHooks
  <2>2. {parse_merge_request_comment_event(d), parse_gitlab_commit_comment_event(d),
         parse_gitlab_issue_comment_event(d)} \subseteq {None, a}
    BY <1>2 DEF parse_gitlab_comment_event, parse_merge_request_comment_event,
                parse_gitlab_commit_comment_event, parse_gitlab_issue_comment_event, Has
  <2>3. GitlabAnswers(d) \subseteq {None, a}
    BY <1>2, <1>9, <2>2, SilentGitlab DEF GitlabAnswers, object_kind
  <2>4. a \in GitlabAnswers(d)  BY DEF GitlabAnswers, parse_gitlab_comment_event
  <2> QED  BY <1>3, <2>1, <2>3, <2>4
<1> QED  BY <1>4, <1>5, <1>6, <1>7, <1>8, <1>9 DEF GitlabHooks

LEMMA EitherWay ==
  ASSUME NEW d, Document(d)
  PROVE  parse_message(d) = parse_event(d)
<1>1. /\ DOMAIN MAPPING(d) = {"github", "gitlab"}
      /\ DOMAIN MAPPING(d)["github"] = DOMAIN Marks
      /\ DOMAIN MAPPING(d)["gitlab"] = GitlabHooks
  BY DEF MAPPING, Marks
<1>2. CASE d.source = "testing-farm" /\ d.type = "results"
  <2>1. d.source # "fedora-messaging" /\ d.source \notin DOMAIN MAPPING(d)
    BY <1>2, <1>1
  <2>2. parse_message(d) = parse_testing_farm_results_event(d)
    BY <1>2, <2>1, Zenon DEF parse_message
  <2>3. Answers(d) \subseteq {None, parse_testing_farm_results_event(d)}
    BY <1>2, Silent, AnswersOfServices
  <2> QED  BY <2>2, <2>3, OnlyAnswer, AnswersOfServices
<1>3. CASE d.source = "fedora-messaging"
  <2>1. d.source # "testing-farm" /\ d.source \notin DOMAIN MAPPING(d)
    BY <1>3, <1>1
  <2>2. parse_message(d) = MAPPINGFedora(d)
    BY <1>3, <2>1, Zenon DEF parse_message
  <2> QED  BY <1>3, <2>2, FedoraEitherWay
<1>4. CASE d.source = "github" /\ d.type \in DOMAIN Marks
  BY <1>1, <1>4, GithubEitherWay DEF parse_message
<1>5. CASE d.source = "gitlab" /\ d.type \in GitlabHooks
  BY <1>1, <1>5, GitlabEitherWay DEF parse_message
<1>6. CASE /\ ~(d.source = "testing-farm" /\ d.type = "results")
           /\ d.source # "fedora-messaging"
           /\ ~(d.source = "github" /\ d.type \in DOMAIN Marks)
           /\ ~(d.source = "gitlab" /\ d.type \in GitlabHooks)
  BY <1>1, <1>6 DEF parse_message
<1> QED  BY <1>2, <1>3, <1>4, <1>5, <1>6

CheckKinds == {"github.check.PullRequest", "github.check.Release", "github.check.Commit"}
ForgeKinds ==
  {"github.pr.Action", "github.pr.Comment", "github.issue.Comment", "github.commit.Comment",
   "github.release.Release", "github.push.Commit", "github.installation.Installation",
   "gitlab.mr.Action", "gitlab.mr.Comment", "gitlab.issue.Comment", "gitlab.commit.Comment",
   "gitlab.push.Commit", "gitlab.push.Tag", "gitlab.release.Release",
   "gitlab.pipeline.Pipeline"} \cup CheckKinds

LEMMA ForgeAnswers ==
  ASSUME NEW d, d.source \in {"github", "gitlab"}, "source=testing-farm" \notin d.has
  PROVE  Answers(d) \subseteq ForgeKinds \cup {None, Raised}
<1>1. /\ parse_pr_event(d) \in ForgeKinds \cup {None}
      /\ parse_pull_request_comment_event(d) \in ForgeKinds \cup {None}
      /\ parse_issue_comment_event(d) \in ForgeKinds \cup {None}
      /\ parse_release_event(d) \in ForgeKinds \cup {None}
      /\ parse_github_push_event(d) \in ForgeKinds \cup {None}
      /\ parse_installation_event(d) \in ForgeKinds \cup {None, Raised}
      /\ parse_commit_comment_event(d) \in ForgeKinds \cup {None}
  BY DEF parse_pr_event, parse_pull_request_comment_event, parse_issue_comment_event,
         parse_release_event, parse_github_push_event, parse_installation_event,
         parse_commit_comment_event, ForgeKinds
<1>2. parse_check_rerun_event(d) \in ForgeKinds \cup {None}
  BY DEF parse_check_rerun_event, CheckEvent, ForgeKinds, CheckKinds
<1>3. /\ parse_mr_event(d) \in ForgeKinds \cup {None}
      /\ parse_merge_request_comment_event(d) \in ForgeKinds \cup {None}
      /\ parse_gitlab_issue_comment_event(d) \in ForgeKinds \cup {None}
      /\ parse_gitlab_commit_comment_event(d) \in ForgeKinds \cup {None}
      /\ parse_gitlab_push_event(d) \in ForgeKinds \cup {None, Raised}
      /\ parse_gitlab_tag_push_event(d) \in ForgeKinds \cup {None, Raised}
      /\ parse_pipeline_event(d) \in ForgeKinds \cup {None}
      /\ parse_gitlab_release_event(d) \in ForgeKinds \cup {None}
  BY DEF parse_mr_event, parse_merge_request_comment_event, parse_gitlab_issue_comment_event,
         parse_gitlab_commit_comment_event, parse_gitlab_push_event, parse_gitlab_tag_push_event,
         parse_pipeline_event, parse_gitlab_release_event, get_gitlab_push_common_data, ForgeKinds
<1>4. parse_testing_farm_results_event(d) = None
  BY DEF parse_testing_farm_results_event, Has
<1>5. \A topics : ~Topic(d, topics)  BY DEF Topic
<1>6. /\ parse_copr_event(d) = None /\ parse_koji_task_event(d) = None
      /\ parse_koji_build_event(d) = None /\ parse_koji_build_tag_event(d) = None
      /\ parse_pagure_push_event(d) = None /\ parse_pagure_pr_flag_event(d) = None
      /\ parse_pagure_pull_request_comment_event(d) = None
      /\ parse_pagure_pull_request_event(d) = None /\ parse_new_hotness_update_event(d) = None
      /\ parse_anitya_version_update_event(d) = None
  BY <1>5 DEF parse_copr_event, parse_koji_task_event, parse_koji_build_event,
              parse_koji_build_tag_event, parse_pagure_push_event, parse_pagure_pr_flag_event,
              parse_pagure_pull_request_comment_event, parse_pagure_pull_request_event,
              parse_new_hotness_update_event, parse_anitya_version_update_event
<1>7. /\ parse_openscanhub_task_finished_event(d) = None
      /\ parse_openscanhub_task_started_event(d) = None
      /\ parse_logdetective_analysis_event(d) = None /\ parse_forgejo_push_event(d) = None
      /\ parse_forgejo_pr_event(d) = None /\ parse_forgejo_action_run_event(d) = None
      /\ parse_forgejo_comment_event(d) = None
  BY <1>5 DEF parse_openscanhub_task_finished_event, parse_openscanhub_task_started_event,
              parse_logdetective_analysis_event, parse_forgejo_push_event,
              parse_forgejo_pr_event, parse_forgejo_action_run_event, parse_forgejo_comment_event
<1> QED  BY <1>1, <1>2, <1>3, <1>4, <1>6, <1>7, EachAnswers

\* Only the parser of reruns answers with a rerun, and none with the result of an
\* image, which a babysitter makes and handles itself.
LEMMA RerunAnswer ==
  ASSUME NEW d, NEW k \in Answers(d)
  PROVE  /\ k \in CheckKinds => k = parse_check_rerun_event(d)
         /\ k # "vm_image.Result"
<1> DEFINE No(a) == a \notin CheckKinds \cup {"vm_image.Result"}
<1>1. /\ No(parse_pr_event(d)) /\ No(parse_pull_request_comment_event(d))
      /\ No(parse_issue_comment_event(d)) /\ No(parse_release_event(d))
      /\ No(parse_github_push_event(d)) /\ No(parse_installation_event(d))
      /\ No(parse_commit_comment_event(d))
  BY DEF parse_pr_event, parse_pull_request_comment_event, parse_issue_comment_event,
         parse_release_event, parse_github_push_event, parse_installation_event,
         parse_commit_comment_event, CheckKinds, None, Raised
<1>2. /\ No(parse_mr_event(d)) /\ No(parse_merge_request_comment_event(d))
      /\ No(parse_gitlab_issue_comment_event(d)) /\ No(parse_gitlab_commit_comment_event(d))
      /\ No(parse_gitlab_push_event(d)) /\ No(parse_gitlab_tag_push_event(d))
      /\ No(parse_pipeline_event(d)) /\ No(parse_gitlab_release_event(d))
      /\ No(parse_testing_farm_results_event(d))
  BY DEF parse_mr_event, parse_merge_request_comment_event, parse_gitlab_issue_comment_event,
         parse_gitlab_commit_comment_event, parse_gitlab_push_event, parse_gitlab_tag_push_event,
         parse_pipeline_event, parse_gitlab_release_event, get_gitlab_push_common_data,
         parse_testing_farm_results_event, CheckKinds, None, Raised
<1>3. /\ No(parse_copr_event(d)) /\ No(parse_koji_task_event(d))
      /\ No(parse_koji_build_event(d)) /\ No(parse_koji_build_tag_event(d))
      /\ No(parse_pagure_push_event(d)) /\ No(parse_pagure_pr_flag_event(d))
      /\ No(parse_pagure_pull_request_comment_event(d))
      /\ No(parse_pagure_pull_request_event(d)) /\ No(parse_new_hotness_update_event(d))
      /\ No(parse_anitya_version_update_event(d))
  BY DEF parse_copr_event, parse_koji_task_event, parse_koji_build_event,
         parse_koji_build_tag_event, parse_pagure_push_event, parse_pagure_pr_flag_event,
         parse_pagure_pull_request_comment_event, parse_pagure_pull_request_event,
         parse_new_hotness_update_event, parse_anitya_version_update_event,
         CheckKinds, None, Raised
<1>4. /\ No(parse_openscanhub_task_finished_event(d))
      /\ No(parse_openscanhub_task_started_event(d))
      /\ No(parse_logdetective_analysis_event(d)) /\ No(parse_forgejo_push_event(d))
      /\ No(parse_forgejo_pr_event(d)) /\ No(parse_forgejo_action_run_event(d))
      /\ No(parse_forgejo_comment_event(d))
  BY DEF parse_openscanhub_task_finished_event, parse_openscanhub_task_started_event,
         parse_logdetective_analysis_event, parse_forgejo_push_event,
         parse_forgejo_pr_event, parse_forgejo_action_run_event, parse_forgejo_comment_event,
         CheckKinds, None, Raised
<1>5. parse_check_rerun_event(d) # "vm_image.Result"
  BY DEF parse_check_rerun_event, CheckEvent, None
<1> QED  BY <1>1, <1>2, <1>3, <1>4, <1>5, EachAnswers

\* -------------------------------------------------------------- the events
\* The abstract classes, none of which is the name of a kind.
Abstract == {"ForgeIndependent", "Result", "CommentEvent", "comment.PullRequest",
             "comment.Issue", "comment.Commit", "Rerun", "CoprBuild"}
LEMMA ClassesOfEvents ==
  ASSUME NEW k \in Kinds, NEW t \in BOOLEAN
  PROVE  /\ Event(k, t).is \subseteq Abstract
         /\ "Rerun" \in Event(k, t).is => k \in CheckKinds
         /\ k \in CheckKinds => Event(k, t).is = {"ForgeIndependent", "Rerun"}
         /\ k \in ForgeKinds => Event(k, t).is \cap {"Result", "CoprBuild"} = {}
         /\ k \in ReleasePush => "actor" \notin Event(k, t).keys
<1> USE DEF Kinds, Event, Class, ForgeIndependent, Result, CommentEvent, PullRequestComment,
          IssueComment, CommitComment, Rerun, CoprBuild, OpenScanHubEvent, KojiEvent,
          GithubPrAction, GithubPrComment, GithubIssueComment, GithubCommitComment,
          GithubRelease, GithubPush, AppInstallation, CheckPullRequest, CheckRelease,
          CheckCommit, GitlabMrAction, GitlabMrComment, GitlabIssueComment,
          GitlabCommitComment, GitlabPush, GitlabTag, GitlabRelease, GitlabPipeline,
          PagurePrAction, PagurePrComment, PagurePrFlag, PagurePush, ForgejoPrAction,
          ForgejoPrComment, ForgejoIssueComment, ForgejoPush, ForgejoRunPullRequest,
          ForgejoRunPush, CoprStart, CoprEnd, TestingFarmResult, KojiTask, KojiBuild,
          KojiTag, VMImageResult, OpenScanHubStarted, OpenScanHubFinished,
          LogDetectiveResult, NewHotness, VersionUpdate
<1>1. Event(k, t).is \subseteq Abstract  BY SMTT(60) DEF Abstract
<1>2. "Rerun" \in Event(k, t).is => k \in CheckKinds  BY SMTT(60) DEF CheckKinds
<1>3. k \in CheckKinds => Event(k, t).is = {"ForgeIndependent", "Rerun"}
  BY SMTT(60) DEF CheckKinds
<1>4. k \in ForgeKinds => Event(k, t).is \cap {"Result", "CoprBuild"} = {}
  BY SMTT(60) DEF ForgeKinds, CheckKinds
<1>5. k \in ReleasePush => "actor" \notin Event(k, t).keys
  BY SMTT(60) DEF ReleasePush
<1> QED  BY <1>1, <1>2, <1>3, <1>4, <1>5

\* The kinds whose project event a task may lose, and what they are.
Lost == {"gitlab.push.Tag", "forgejo.pr.Action", "forgejo.pr.Comment", "forgejo.push.Commit",
         "forgejo.issue.Comment", "anitya.VersionUpdate"}

LEMMA FoundOrLost ==
  ASSUME NEW k \in Kinds \ Lost, NEW t \in BOOLEAN,
         Event(k, t).row.type \in {"release", "branch", "pull_request", "issue", "anitya"}
  PROVE  FoundByTask(k, t) = Event(k, t).row
<1> DEFINE keys == Event(k, t).keys
           row == Event(k, t).row
           PRs == {"github.pr.Action", "pagure.pr.Action", "gitlab.mr.Action",
                   "github.pr.Comment", "pagure.pr.Comment", "gitlab.mr.Comment",
                   "github.check.PullRequest"}
           Branches == {"github.push.Commit", "gitlab.push.Commit", "pagure.push.Commit",
                        "github.check.Commit"}
           Tags == {"github.release.Release", "gitlab.release.Release", "github.check.Release"}
           Issues == {"github.issue.Comment", "gitlab.issue.Comment"}
           Commits == {"github.commit.Comment", "gitlab.commit.Comment"}
<1> DEFINE Others == {"github.installation.Installation", "gitlab.pipeline.Pipeline",
                      "pagure.pr.Flag", "forgejo.action_run.PullRequest",
                      "forgejo.action_run.Push", "copr.Start", "copr.End",
                      "testing_farm.Result", "koji.result.Task", "koji.result.Build",
                      "koji.tag.Build", "vm_image.Result", "openscanhub.task.Started",
                      "openscanhub.task.Finished", "logdetective.Result"}
<1>1. k \in PRs \cup Branches \cup Tags \cup Issues \cup Commits \cup {"anitya.NewHotness"}
  <2>1. k \in PRs \cup Branches \cup Tags \cup Issues \cup Commits \cup {"anitya.NewHotness"}
          \cup Others
    BY DEF Kinds, Lost
  <2>2. k \in Others => row \in {NoRow, OfRun("copr_build"), OfRun("test_run"),
                                OfRun("koji_build"), OfRun("vm_image"), OfRun("scan"),
                                OfRun("log_detective")}
    BY SMTT(60) DEF Event, Class, ForgeIndependent, Result, CommentEvent, PullRequestComment,
          IssueComment, CommitComment, Rerun, CoprBuild, OpenScanHubEvent, KojiEvent,
          GithubPrAction, GithubPrComment, GithubIssueComment, GithubCommitComment,
          GithubRelease, GithubPush, AppInstallation, CheckPullRequest, CheckRelease,
          CheckCommit, GitlabMrAction, GitlabMrComment, GitlabIssueComment,
          GitlabCommitComment, GitlabPush, GitlabTag, GitlabRelease, GitlabPipeline,
          PagurePrAction, PagurePrComment, PagurePrFlag, PagurePush, ForgejoPrAction,
          ForgejoPrComment, ForgejoIssueComment, ForgejoPush, ForgejoRunPullRequest,
          ForgejoRunPush, CoprStart, CoprEnd, TestingFarmResult, KojiTask, KojiBuild,
          KojiTag, VMImageResult, OpenScanHubStarted, OpenScanHubFinished,
          LogDetectiveResult, NewHotness, VersionUpdate
  <2> HIDE DEF Others
  <2>3. row \notin {NoRow, OfRun("copr_build"), OfRun("test_run"), OfRun("koji_build"),
                   OfRun("vm_image"), OfRun("scan"), OfRun("log_detective")}
    BY DEF NoRow, OfRun, Row
  <2> HIDE DEF row, PRs, Branches, Tags, Issues, Commits
  <2> QED  BY <2>1, <2>2, <2>3
<1> USE DEF EventDataRow, Event, Class, ForgeIndependent, Result, CommentEvent, PullRequestComment,
          IssueComment, CommitComment, Rerun, CoprBuild, OpenScanHubEvent, KojiEvent,
          GithubPrAction, GithubPrComment, GithubIssueComment, GithubCommitComment,
          GithubRelease, GithubPush, AppInstallation, CheckPullRequest, CheckRelease,
          CheckCommit, GitlabMrAction, GitlabMrComment, GitlabIssueComment,
          GitlabCommitComment, GitlabPush, GitlabTag, GitlabRelease, GitlabPipeline,
          PagurePrAction, PagurePrComment, PagurePrFlag, PagurePush, ForgejoPrAction,
          ForgejoPrComment, ForgejoIssueComment, ForgejoPush, ForgejoRunPullRequest,
          ForgejoRunPush, CoprStart, CoprEnd, TestingFarmResult, KojiTask, KojiBuild,
          KojiTag, VMImageResult, OpenScanHubStarted, OpenScanHubFinished,
          LogDetectiveResult, NewHotness, VersionUpdate
<1>2. k \in PRs => /\ row = AddPullRequestEventToDb /\ EventDataRow(k, keys) = row
                   /\ {"pr_id", "commit_sha"} \subseteq keys
  BY ZenonT(60)
<1>3. k \in Branches => /\ row = AddBranchPushEventToDb /\ EventDataRow(k, keys) = row
                        /\ {"git_ref", "commit_sha"} \subseteq keys
  BY ZenonT(60)
<1>4. k \in Tags => /\ row = AddReleaseEventToDb /\ EventDataRow(k, keys) = row
                    /\ {"tag_name", "commit_sha"} \subseteq keys
  BY ZenonT(60)
<1>5. k \in Issues => /\ row = AddIssueEventToDb /\ EventDataRow(k, keys) = row
                      /\ "issue_id" \in keys
  BY ZenonT(60)
<1>6. k = "anitya.NewHotness" => /\ row = AddAnityaEvent /\ EventDataRow(k, keys) = row
                                 /\ {"versions", "anitya_project_id"} \subseteq keys
  BY ZenonT(60)
<1>7. k \in Commits => /\ row = IF t THEN AddReleaseEventToDb ELSE AddBranchPushEventToDb
                       /\ {"git_ref", "commit_sha"} \subseteq keys /\ ("tag_name" \in keys <=> t)
  BY ZenonT(60)
<1>8. k \in Commits => EventDataRow(k, keys) = row
  <2> HIDE DEF Event
  <2> QED  BY <1>7
<1> HIDE DEF Event, EventDataRow
<1>9. EventDataRow(k, keys) = row  BY <1>1, <1>2, <1>3, <1>4, <1>5, <1>6, <1>8
<1>10. row.key \subseteq keys
  <2>1. k \notin Commits => row.key \subseteq keys
    BY <1>1, <1>2, <1>3, <1>4, <1>5, <1>6 DEF Row, AddReleaseEventToDb, AddBranchPushEventToDb,
       AddPullRequestEventToDb, AddIssueEventToDb, AddAnityaEvent
  <2>2. k \in Commits => row.key \subseteq keys
    BY <1>7 DEF Row, AddReleaseEventToDb, AddBranchPushEventToDb
  <2> QED  BY <2>1, <2>2
<1> QED  BY <1>9, <1>10 DEF FoundByTask

LEMMA ClassesOfLost ==
  ASSUME NEW k \in Lost \ {"forgejo.issue.Comment"}, NEW t \in BOOLEAN
  PROVE  Event(k, t).is \subseteq {"ForgeIndependent", "CommentEvent", "comment.PullRequest"}
BY SMTT(60) DEF Lost, Event, Class, ForgeIndependent, Result, CommentEvent, PullRequestComment,
          IssueComment, CommitComment, Rerun, CoprBuild, OpenScanHubEvent, KojiEvent,
          GithubPrAction, GithubPrComment, GithubIssueComment, GithubCommitComment,
          GithubRelease, GithubPush, AppInstallation, CheckPullRequest, CheckRelease,
          CheckCommit, GitlabMrAction, GitlabMrComment, GitlabIssueComment,
          GitlabCommitComment, GitlabPush, GitlabTag, GitlabRelease, GitlabPipeline,
          PagurePrAction, PagurePrComment, PagurePrFlag, PagurePush, ForgejoPrAction,
          ForgejoPrComment, ForgejoIssueComment, ForgejoPush, ForgejoRunPullRequest,
          ForgejoRunPush, CoprStart, CoprEnd, TestingFarmResult, KojiTask, KojiBuild,
          KojiTag, VMImageResult, OpenScanHubStarted, OpenScanHubFinished,
          LogDetectiveResult, NewHotness, VersionUpdate

\* ----------------------------------------------------------- the handlers
LEMMA NobodyReacts ==
  ASSUME NEW h \in HandlerNames
  PROVE  H(h).events \cap ((Lost \ {"forgejo.issue.Comment"})
           \cup {"ForgeIndependent", "CommentEvent", "comment.PullRequest"}) = {}
<1> DEFINE Known ==
             UpstreamEvents \cup IssueComments \cup
             {"Rerun", "comment.Commit", "copr.Start", "copr.End", "github.check.PullRequest",
              "github.check.Commit", "testing_farm.Result", "koji.result.Task",
              "koji.result.Build", "koji.tag.Build", "pagure.push.Commit", "comment.Issue",
              "github.check.Release", "anitya.NewHotness", "pagure.pr.Comment",
              "openscanhub.task.Finished", "openscanhub.task.Started", "vm_image.Result"}
<1>1. H(h) = HandlerOf(h, NotParsed(None), NoJob, {})  BY DEF H, Registered
<1>2. ASSUME NEW e, NEW j, NEW w
      PROVE  HandlerOf(h, e, j, w).events \subseteq Known
  <2> USE DEF Handler, UpstreamEvents, IssueComments, PullRequestComments, Releases
  <2>1. /\ CoprBuildHandler(e, j, w).events \subseteq Known
      /\ CoprBuildStartHandler(e, j, w).events \subseteq Known
      /\ CoprBuildEndHandler(e, j, w).events \subseteq Known
      /\ TestingFarmHandler(e, j, w).events \subseteq Known
      /\ TestingFarmResultsHandler(e, j, w).events \subseteq Known
      /\ KojiBuildHandler(e, j, w).events \subseteq Known
      /\ KojiTaskReportHandler(e, j, w).events \subseteq Known
      /\ KojiBuildReportHandler(e, j, w).events \subseteq Known
    BY DEF CoprBuildHandler, CoprBuildStartHandler,
           CoprBuildEndHandler, TestingFarmHandler,
           TestingFarmResultsHandler, KojiBuildHandler,
           KojiTaskReportHandler, KojiBuildReportHandler
  <2>2. /\ KojiBuildTagHandler(e, j, w).events \subseteq Known
      /\ SyncFromDownstream(e, j, w).events \subseteq Known
      /\ ProposeDownstreamHandler(e, j, w).events \subseteq Known
      /\ PullFromUpstreamHandler(e, j, w).events \subseteq Known
      /\ DownstreamKojiBuildHandler(e, j, w).events \subseteq Known
      /\ RetriggerDownstreamKojiBuildHandler(e, j, w).events \subseteq Known
      /\ TagIntoSidetagHandler(e, j, w).events \subseteq Known
      /\ CreateBodhiUpdateHandler(e, j, w).events \subseteq Known
    BY DEF KojiBuildTagHandler, SyncFromDownstream,
           ProposeDownstreamHandler, PullFromUpstreamHandler,
           DownstreamKojiBuildHandler, RetriggerDownstreamKojiBuildHandler,
           TagIntoSidetagHandler, CreateBodhiUpdateHandler
  <2>3. /\ BodhiUpdateFromSidetagHandler(e, j, w).events \subseteq Known
      /\ RetriggerBodhiUpdateHandler(e, j, w).events \subseteq Known
      /\ RetriggerBodhiUpdateFromSidetagHandler(e, j, w).events \subseteq Known
      /\ IssueCommentRetriggerBodhiUpdateHandler(e, j, w).events \subseteq Known
      /\ CoprOpenScanHubTaskFinishedHandler(e, j, w).events \subseteq Known
      /\ CoprOpenScanHubTaskStartedHandler(e, j, w).events \subseteq Known
      /\ VMImageBuildHandler(e, j, w).events \subseteq Known
      /\ VMImageBuildResultHandler(e, j, w).events \subseteq Known
    BY DEF BodhiUpdateFromSidetagHandler, RetriggerBodhiUpdateHandler,
           RetriggerBodhiUpdateFromSidetagHandler, IssueCommentRetriggerBodhiUpdateHandler,
           CoprOpenScanHubTaskFinishedHandler, CoprOpenScanHubTaskStartedHandler,
           VMImageBuildHandler, VMImageBuildResultHandler
  <2> HIDE DEF Known
  <2> QED  BY <2>1, <2>2, <2>3 DEF HandlerNames, HandlerOf
<1> QED
  BY <1>1, <1>2 DEF UpstreamEvents, Releases, Pushes, PullRequestActions, PullRequestComments,
     IssueComments, Lost

LEMMA NamesDiffer ==
  /\ HandlerNames \cap FedoraCINames = {}
  /\ HandlerNames \cap NoHandlers = {}
  /\ FedoraCINames \cap NoHandlers = {}
BY DEF HandlerNames, FedoraCINames, NoHandlers

\* Every handler's task runs that handler, but for the results of images.
LEMMA TaskRunsItsHandler ==
  ASSUME NEW h \in (HandlerNames \cup FedoraCINames \cup NoHandlers)
                     \ {"VMImageBuildResultHandler"}
  PROVE  Runs(h) = h
BY DEF Runs, task_name, celery_tasks, HandlerNames, FedoraCINames, NoHandlers,
       run_copr_build_start_handler, run_copr_build_end_handler, run_copr_build_handler,
       run_installation_handler, run_github_fas_verification_handler, run_help_pr_handler,
       run_help_issue_handler, run_testing_farm_handler, run_testing_farm_results_handler,
       run_downstream_testing_farm_handler, run_downstream_testing_farm_eln_handler,
       run_downstream_testing_farm_tests_ns_handler,
       run_downstream_testing_farm_results_handler, run_propose_downstream_handler,
       run_pull_from_upstream_handler, run_koji_build_handler, run_koji_build_report_handler,
       run_downstream_koji_scratch_build_report_handler,
       run_downstream_koji_scratch_build_handler, run_downstream_koji_eln_scratch_build_handler,
       run_sync_from_downstream_handler, run_downstream_koji_build,
       run_retrigger_downstream_koji_build, run_downstream_koji_build_report, run_bodhi_update,
       run_bodhi_update_from_sidetag, run_retrigger_bodhi_update,
       run_retrigger_bodhi_update_from_sidetag, run_issue_comment_retrigger_bodhi_update,
       run_vm_image_build, run_vm_image_build_result, run_koji_build_tag_handler,
       run_tag_into_sidetag_handler, run_openscanhub_task_finished_handler,
       run_openscanhub_task_started_handler, run_downstream_log_detective_results_handler

\* ----------------------------------------------------------- the allowlist
LEMMA ReasonsCount ==
  ASSUME NEW entry
  PROVE  /\ "user" \in Reasons(entry) => is_denied(entry, User)
         /\ "project" \in Reasons(entry) => ~ApprovedAndNotDenied(entry)
<1>1. "user" \in Reasons(entry) => is_denied(entry, User)  BY DEF Reasons, is_denied, User
<1>2. ASSUME "project" \in Reasons(entry), ApprovedAndNotDenied(entry)  PROVE  FALSE
  <2> DEFINE statuses == {entry[n] : n \in {"project", "namespace", "host"}}
             deciding == {i \in DOMAIN Path : entry[Path[i]] \notin {"none", "waiting"}}
  <2>1. "denied" \in statuses \/ statuses \cap Approved = {}  BY <1>2 DEF Reasons
  <2>2. \A i \in 1..3 : entry[Path[i]] \in statuses /\ entry[Path[i]] # "denied"
    BY <1>2 DEF ApprovedAndNotDenied, is_namespace_or_parent_denied, Path
  <2>3. \A s \in statuses : \E i \in 1..3 : s = entry[Path[i]]  BY DEF Path
  <2>4. DOMAIN Path = 1..3  BY DEF Path
  <2>5. deciding # {} /\ entry[Path[Min(deciding)]] \in Approved
    BY <1>2 DEF ApprovedAndNotDenied, is_namespace_or_parent_approved
  <2>6. Min(deciding) \in 1..3
    <3>1. deciding \in SUBSET (1..34)  BY <2>4
    <3>2. Min(deciding) \in deciding  BY <3>1, <2>5, MinOf
    <3> QED  BY <3>2, <2>4
  <2> QED  BY <2>1, <2>2, <2>3, <2>5, <2>6
<1> QED  BY <1>1, <1>2

LEMMA NotPassed ==
  ASSUME NEW entry, NEW e, NEW w, NEW k \in Kinds, NEW t \in BOOLEAN,
         e.is = Event(k, t).is \cup {k},
         k \in ForgeKinds \ (CheckKinds \cup {"github.installation.Installation"}),
         k \in ReleasePush => e.actor = "",
         "project" \in Reasons(entry) \/ ("user" \in Reasons(entry) /\ e.actor # ""),
         ~Admin(w)
  PROVE  check_and_report(entry, e, w) # "passed"
<1> DEFINE Is1(classes) == \E class \in classes : class \in e.is
<1>1. ~Is1(Unchecked)
  <2>1. "Rerun" \notin Event(k, t).is  BY ClassesOfEvents
  <2>2. Event(k, t).is \cap {"Result", "CoprBuild"} = {}  BY ClassesOfEvents
  <2>3. Event(k, t).is \subseteq Abstract  BY ClassesOfEvents
  <2>4. Unchecked \cap Abstract \subseteq {"Rerun", "CoprBuild"}  BY DEF Unchecked, Abstract
  <2>5. k \notin Unchecked  BY DEF Unchecked, ForgeKinds, CheckKinds
  <2> QED  BY <2>1, <2>2, <2>3, <2>4, <2>5
<1>2. Is1(ReleasePush) => e.actor = ""
  <2>1. Event(k, t).is \subseteq Abstract  BY ClassesOfEvents
  <2>2. ReleasePush \cap Abstract = {}  BY DEF ReleasePush, Abstract
  <2> QED  BY <2>1, <2>2
<1>3. (is_denied(entry, User) /\ e.actor # "") \/ ~ApprovedAndNotDenied(entry)
  BY ReasonsCount
<1>4. Is1(ReleasePush) => _check_release_push_event(entry) # "passed"
  BY <1>2, <1>3 DEF _check_release_push_event
<1>5. /\ _check_pr_event(entry, e, w) # "passed"
      /\ _check_issue_and_commit_comment_event(entry, e, w) # "passed"
  BY <1>3 DEF _check_pr_event, _check_issue_and_commit_comment_event
<1> HIDE DEF Is1
<1>6. check_and_report(entry, e, w) =
        CASE Is1(Unchecked) -> "passed"
          [] Is1(ReleasePush) -> _check_release_push_event(entry)
          [] Is1(PullRequest) -> _check_pr_event(entry, e, w)
          [] Is1(IssueOrCommitComment) -> _check_issue_and_commit_comment_event(entry, e, w)
          [] OTHER -> "raises"
  BY DEF check_and_report, Is1
<1> QED  BY <1>1, <1>4, <1>5, <1>6

\* ------------------------------------------------------ the name of a check
LEMMA Concatenated ==
  ASSUME NEW S, NEW a \in S, NEW b \in S, NEW c \in S
  PROVE  <<a>> \o <<b>> = <<a, b>> /\ <<a, b>> \o <<c>> = <<a, b, c>>
<1>1. <<a>> \in Seq(S) /\ <<b>> \in Seq(S) /\ <<c>> \in Seq(S)
      /\ <<a, b>> \in Seq(S) /\ <<a, b, c>> \in Seq(S)
  OBVIOUS
<1>2. <<a>> \o <<b>> = <<a, b>>
  <2> DEFINE s == <<a>> \o <<b>>
  <2>1. s \in Seq(S) /\ Len(s) = 2 /\ s[1] = a /\ s[2] = b  BY <1>1, ConcatProperties
  <2> HIDE DEF s
  <2>2. \A i \in 1..2 : s[i] = <<a, b>>[i]  BY <2>1
  <2> QED  BY <1>1, <2>1, <2>2, SeqEqual DEF s
<1>3. <<a, b>> \o <<c>> = <<a, b, c>>
  <2> DEFINE s == <<a, b>> \o <<c>>
  <2>1. s \in Seq(S) /\ Len(s) = 3 /\ s[1] = a /\ s[2] = b /\ s[3] = c
    BY <1>1, ConcatProperties
  <2> HIDE DEF s
  <2>2. \A i \in 1..3 : s[i] = <<a, b, c>>[i]  BY <2>1
  <2> QED  BY <1>1, <2>1, <2>2, SeqEqual DEF s
<1> QED  BY <1>2, <1>3

\* What follows a sequence that it is put after.
LEMMA Rest ==
  ASSUME NEW S, NEW s \in Seq(S), NEW t \in Seq(S), NEW k \in Nat, Len(s) = k, t # <<>>
  PROVE  SubSeq(s \o t, k + 1, Len(s \o t)) = t
<1>1. Len(s \o t) = k + Len(t) /\ Len(t) \in Nat \ {0}
  BY ConcatProperties, EmptySeq
<1>2. SubSeq(s \o t, k + 1, k + Len(t)) = SubSeq(t, 1, Len(t))
  <2>1. k + 1 \in k + 1..k + Len(t) /\ k + Len(t) \in k + 1..k + Len(t)  BY <1>1
  <2>2. SubSeq(s \o t, k + 1, k + Len(t)) = SubSeq(t, (k + 1) - k, (k + Len(t)) - k)
    BY <2>1, SubSeqOfConcat2
  <2>3. (k + 1) - k = 1 /\ (k + Len(t)) - k = Len(t)  BY <1>1
  <2> QED  BY <2>2, <2>3
<1> QED  BY <1>1, <1>2, SubSeqFull

\* A name of two, three or more words is taken apart.
LEMMA NameTaken ==
  ASSUME NEW n, NEW object, NEW a, n[1] = a, a \in Prefixes, Len(n) \in Nat
  PROVE  /\ Len(n) = 2 /\ n[2] # "" => parse_check_name(n, object) = <<a, n[2], <<>>>>
         /\ Len(n) = 3 /\ NamesEvent(a, object) /\ n[3] # "" =>
              parse_check_name(n, object) = <<a, n[3], <<>>>>
         /\ Len(n) = 3 /\ ~NamesEvent(a, object) /\ n[2] # "" =>
              parse_check_name(n, object) = <<a, n[2], <<n[3]>>>>
         /\ Len(n) > 3 /\ n[3] # "" =>
              parse_check_name(n, object) = <<a, n[3], SubSeq(n, 4, Len(n))>>
<1> DEFINE l == Len(n)
<1> HIDE DEF l
<1>0. l \in Nat  BY DEF l
<1>1. Len(n) = 2 => Len(n) # 0 /\ Len(n) # 3 /\ ~(Len(n) > 3)  BY <1>0 DEF l
<1>2. Len(n) = 3 => Len(n) # 0 /\ Len(n) # 2 /\ ~(Len(n) > 3)  BY <1>0 DEF l
<1>3. Len(n) > 3 => Len(n) # 0 /\ Len(n) # 2 /\ Len(n) # 3
  <2>1. l > 3 => l # 0 /\ l # 2 /\ l # 3  BY <1>0
  <2> QED  BY <2>1 DEF l
<1>4. Len(n) = 2 /\ n[2] # "" => parse_check_name(n, object) = <<a, n[2], <<>>>>
  BY <1>1, Zenon DEF parse_check_name
<1>5. Len(n) = 3 /\ NamesEvent(a, object) /\ n[3] # "" =>
        parse_check_name(n, object) = <<a, n[3], <<>>>>
  BY <1>2, Zenon DEF parse_check_name
<1>6. Len(n) = 3 /\ ~NamesEvent(a, object) /\ n[2] # "" =>
        parse_check_name(n, object) = <<a, n[2], <<n[3]>>>>
  BY <1>2, Zenon DEF parse_check_name
<1>7. Len(n) > 3 /\ n[3] # "" =>
        parse_check_name(n, object) = <<a, n[3], SubSeq(n, 4, Len(n))>>
  BY <1>3, Zenon DEF parse_check_name
<1> QED  BY <1>4, <1>5, <1>6, <1>7

\* The first word of a name is the job, and only those of Packit's checks are read.
LEMMA NameBegins ==
  ASSUME NEW Words, NEW job \in Words, NEW object \in Words, NEW target \in Words,
         NEW identifier \in Seq(Words),
         parse_check_name(get_check_cls(job, object, target, identifier), object) # <<>>
  PROVE  job \in Prefixes
<1> DEFINE second == NamesEvent(job, object)
           untargeted == target = ""
           e == IF second THEN <<object>> ELSE <<>>
           t == IF untargeted THEN <<>> ELSE <<target>>
           name == ((<<job>> \o e) \o t) \o identifier
<1>1. e \in Seq(Words) /\ t \in Seq(Words) /\ <<job>> \in Seq(Words)
  <2> HIDE DEF second, untargeted
  <2> QED OBVIOUS
<1>2. name = get_check_cls(job, object, target, identifier)  BY DEF get_check_cls
<1> HIDE DEF e, t
<1>3. <<job>> \o e \in Seq(Words) /\ Len(<<job>> \o e) >= 1 /\ (<<job>> \o e)[1] = job
  BY <1>1, ConcatProperties
<1> DEFINE f == <<job>> \o e
           g == f \o t
<1> HIDE DEF f
<1>4. g \in Seq(Words) /\ Len(g) >= 1 /\ g[1] = job  BY <1>1, <1>3, ConcatProperties DEF f
<1> HIDE DEF g
<1>5. (g \o identifier)[1] = job  BY <1>4, ConcatProperties
<1>6. name[1] = job  BY <1>5 DEF f, g
<1>7. parse_check_name(name, object) # <<>>  BY <1>2
<1> HIDE DEF name
<1> QED  BY <1>6, <1>7 DEF parse_check_name

Targeted(target) == target # ""

\* A name is taken apart as it was made, if it names an event or if its identifier
\* has no colon.
LEMMA NameReadBack ==
  ASSUME NEW Words, NEW job \in Words, NEW object \in Words, NEW target \in Words,
         NEW identifier \in Seq(Words), job \in Prefixes, Targeted(target),
         NamesEvent(job, object) \/ Len(identifier) <= 1
  PROVE  parse_check_name(get_check_cls(job, object, target, identifier), object)
           = <<job, target, identifier>>
<1> DEFINE second == NamesEvent(job, object)
           front == IF second THEN <<job, object, target>> ELSE <<job, target>>
           name == front \o identifier
<1>1. get_check_cls(job, object, target, identifier) = name
  <2>1. <<job>> \o <<>> = <<job>>  BY ConcatEmptySeq
  <2> HIDE DEF second
  <2>2. (<<job>> \o (IF second THEN <<object>> ELSE <<>>)) \o <<target>> = front
    BY <2>1, Concatenated
  <2> HIDE DEF front
  <2> QED  BY <2>2 DEF get_check_cls, second, Targeted
<1>2. front \in Seq(Words) /\ front[1] = job /\ Len(front) = (IF second THEN 3 ELSE 2)
      /\ front[IF second THEN 3 ELSE 2] = target
  <2> HIDE DEF second
  <2> QED OBVIOUS
<1>3. /\ name \in Seq(Words) /\ Len(name) = Len(front) + Len(identifier)
      /\ \A i \in 1..Len(front) : name[i] = front[i]
      /\ \A i \in 1..Len(identifier) : name[Len(front) + i] = identifier[i]
  <2>1. front \in Seq(Words)  BY <1>2
  <2> HIDE DEF front
  <2>2. /\ front \o identifier \in Seq(Words)
        /\ Len(front \o identifier) = Len(front) + Len(identifier)
        /\ \A i \in 1..Len(front) + Len(identifier) :
             (front \o identifier)[i] = IF i <= Len(front) THEN front[i] ELSE identifier[i - Len(front)]
    BY <2>1, ConcatProperties
  <2>3. Len(front) \in Nat /\ Len(identifier) \in Nat  BY <2>1
  <2> QED  BY <2>2, <2>3
<1>4. Len(identifier) \in Nat /\ (Len(identifier) = 0 => identifier = <<>>)
  BY EmptySeq
<1>5. identifier # <<>> => SubSeq(name, Len(front) + 1, Len(name)) = identifier
  <2>1. front \in Seq(Words)  BY <1>2
  <2> HIDE DEF front
  <2>2. Len(front) \in Nat  BY <2>1
  <2> QED  BY <2>1, <2>2, Rest
<1> HIDE DEF name, front, second
<1>6. name[1] = job /\ Len(name) \in Nat /\ name[IF second THEN 3 ELSE 2] = target
  BY <1>2, <1>3
<1>7. /\ Len(name) = 2 /\ name[2] = target => parse_check_name(name, object) = <<job, target, <<>>>>
      /\ Len(name) = 3 /\ second /\ name[3] = target =>
           parse_check_name(name, object) = <<job, target, <<>>>>
      /\ Len(name) = 3 /\ ~second /\ name[2] = target =>
           parse_check_name(name, object) = <<job, target, <<name[3]>>>>
      /\ Len(name) > 3 /\ name[3] = target =>
           parse_check_name(name, object) = <<job, target, SubSeq(name, 4, Len(name))>>
  BY <1>6, NameTaken, Zenon DEF second, Targeted
<1>8. CASE Len(identifier) = 0
  BY <1>2, <1>3, <1>4, <1>6, <1>7, <1>8, <1>1
<1>9. CASE second /\ Len(identifier) > 0
  <2>1. Len(name) > 3 /\ Len(front) + 1 = 4 /\ identifier # <<>>
    BY <1>2, <1>3, <1>4, <1>9
  <2>2. SubSeq(name, 4, Len(name)) = identifier  BY <2>1, <1>5
  <2> QED  BY <2>1, <2>2, <1>1, <1>6, <1>7, <1>9
<1>10. CASE ~second /\ Len(identifier) = 1
  <2>1. Len(name) = 3 /\ name[3] = identifier[1]  BY <1>2, <1>3, <1>10
  <2>2. identifier = <<identifier[1]>>
    <3>1. identifier[1] \in Words
      <4>1. 1 \in 1..Len(identifier)  BY <1>10
      <4> QED  BY <4>1, ElementOfSeq
    <3>2. <<identifier[1]>> \in Seq(Words) /\ Len(<<identifier[1]>>) = 1  BY <3>1
    <3>3. \A i \in 1..1 : identifier[i] = <<identifier[1]>>[i]  OBVIOUS
    <3> QED  BY <1>10, <3>2, <3>3, SeqEqual
  <2> QED  BY <2>1, <2>2, <1>1, <1>6, <1>7, <1>10
<1>11. second \/ Len(identifier) <= 1  BY DEF second
<1>12. /\ Len(identifier) = 0 \/ Len(identifier) > 0
       /\ Len(identifier) <= 1 => Len(identifier) = 0 \/ Len(identifier) = 1
  <2>1. \A l \in Nat : (l = 0 \/ l > 0) /\ (l <= 1 => l = 0 \/ l = 1)  OBVIOUS
  <2> QED  BY <1>4, <2>1, Zenon
<1>13. CASE Len(identifier) > 0
  <2>1. CASE second  BY <1>9, <1>13, <2>1
  <2>2. CASE ~second
    <3>1. Len(identifier) <= 1  BY <1>11, <2>2
    <3>2. Len(identifier) = 1  BY <1>12, <1>13, <3>1
    <3> QED  BY <1>10, <2>2, <3>2
  <2> QED  BY <2>1, <2>2
<1> QED  BY <1>8, <1>12, <1>13

\* ------------------------------------------------- the inductive invariant
\* A handler of Fedora CI makes a task for the event.
Ours(h) == ForFedoraCI /\ h \in FedoraCIMatching /\ PreCheckForFedoraCI(h)
NobodyOfFedoraCI == \A h \in FedoraCINames : ~Ours(h)
Reacts(h) == \E class \in H(h).events : Is(class)
Reruns(h) ==
  Is("Rerun") => h \in get_handlers_for_check_rerun(parse_check_name(doc.name, doc.object)[1])

\* What is processed is one of the inputs, but for the entries of the allowlist.
InputTrue ==
  phase # "idle" =>
    /\ input = Input(input, input.entry) /\ Document(doc) /\ event = EventOf(input)
    /\ blocked \subseteq Reasons(input.entry)

\* Only an event gets to the handlers, an installation never.
Dispatched ==
  /\ phase \in {"ci", "jobs"} \/ tasks # {} => phase # "idle" /\ Parsed
  /\ phase \in {"ci", "jobs"} => ~Is("github.installation.Installation")

\* The handlers left are those that match; process_jobs follows when nobody of
\* Fedora CI has a task to make.
LeftTrue ==
  /\ phase = "ci" =>
       /\ ForFedoraCI /\ left \subseteq FedoraCIMatching
       /\ \A h \in FedoraCIMatching \ left : PreCheckForFedoraCI(h) => JustSent # {}
  /\ phase = "jobs" => (\A h \in left : Reacts(h) /\ Reruns(h)) /\ NobodyOfFedoraCI

TaskTrue(x) ==
  /\ x.handler \in FedoraCINames => Ours(x.handler)
  /\ x.handler \in HandlerNames => Reacts(x.handler) /\ Reruns(x.handler) /\ NobodyOfFedoraCI
  /\ Is("Rerun") => x.handler \in HandlerNames /\ x.job.identifier = event.identifier

TasksTrue == \A x \in tasks : TaskTrue(x)

DInv == TypeOK /\ InputTrue /\ Dispatched /\ LeftTrue /\ TasksTrue /\ NotAllowedGetsNothing

\* ------------------------------------------------------ lemmas of the event
LEMMA EventTrue ==
  ASSUME event = EventOf(input), Parsed
  PROVE  /\ kind = parse_message(doc) /\ event.is = Event(kind, tagged).is \cup {kind}
         /\ \A class : Is(class) <=> class \in Event(kind, tagged).is \/ class = kind
         /\ event.actor # "" => "actor" \in Event(kind, tagged).keys
         /\ Is("Rerun") <=> kind \in CheckKinds
         /\ Is("Rerun") => /\ event.identifier = parse_check_name(doc.name, doc.object)[3]
                           /\ event.is = {"ForgeIndependent", "Rerun", kind}
<1> DEFINE k == parse_message(input.doc)
           t == "release" \in input.said.args
<1>1. k \in Kinds  BY DEF Parsed, kind, EventOf, NotParsed
<1>2. /\ event.kind = k /\ event.is = Event(k, t).is \cup {k}
      /\ event.actor = IF "actor" \in Event(k, t).keys /\ Person(input.doc) THEN "somebody" ELSE ""
      /\ event.identifier = IF IsInstance(k, "Rerun")
                            THEN parse_check_name(input.doc.name, input.doc.object)[3]
                            ELSE input.doc.identifier
  BY <1>1 DEF EventOf
<1>3. tagged = t /\ kind = k /\ doc = input.doc  BY <1>2 DEF tagged, said, kind, doc
<1> HIDE DEF k, t
<1>4. \A class : Is(class) <=> class \in Event(k, t).is \/ class = k  BY <1>2 DEF Is
<1>5. t \in BOOLEAN  BY DEF t
<1>6. /\ "Rerun" \in Event(k, t).is => k \in CheckKinds
      /\ k \in CheckKinds => Event(k, t).is = {"ForgeIndependent", "Rerun"}
      /\ k \in CheckKinds => Event(k, FALSE).is = {"ForgeIndependent", "Rerun"}
  BY <1>1, <1>5, ClassesOfEvents
<1>7. k # "Rerun"  BY <1>1 DEF Kinds
<1>8. Is("Rerun") <=> k \in CheckKinds  BY <1>4, <1>6, <1>7
<1>9. k \in CheckKinds => IsInstance(k, "Rerun")  BY <1>6 DEF IsInstance
<1> QED  BY <1>2, <1>3, <1>4, <1>6, <1>8, <1>9 DEF k

\* A rerun is of a check of Packit; its name is taken apart as it was made, if it can be.
LEMMA RerunTrue ==
  ASSUME event = EventOf(input), Parsed, Document(doc), Is("Rerun"), ReadBack(doc.check)
  PROVE  /\ parse_check_name(doc.name, doc.object)
               = <<doc.check.job, doc.check.target, doc.check.identifier>>
         /\ event.identifier = doc.check.identifier
<1>1. kind \in CheckKinds /\ kind = parse_message(doc)  BY EventTrue
<1>2. kind \in Answers(doc)
  <2>1. None \notin CheckKinds  BY DEF None, CheckKinds
  <2> QED  BY <1>1, <2>1, MessageIsAnAnswer
<1>3. kind = parse_check_rerun_event(doc)  BY <1>1, <1>2, RerunAnswer
<1>4. "ours" \in doc.has /\ parse_check_name(doc.name, doc.object) # <<>>
  <2>1. None \notin CheckKinds  BY DEF None, CheckKinds
  <2> QED  BY <1>1, <1>3, <2>1 DEF parse_check_rerun_event, Has
<1>5. /\ doc.name = get_check_cls(doc.check.job, doc.object, doc.check.target,
                                  doc.check.identifier)
      /\ doc.check.job \in STRING /\ doc.object \in STRING /\ doc.check.target \in STRING
      /\ doc.check.identifier \in Seq(STRING)
      /\ doc.check.job \in Prefixes => doc.check.target # ""
  BY <1>4 DEF Document
<1>6. doc.check.job \in Prefixes  BY <1>4, <1>5, NameBegins
<1>7. parse_check_name(doc.name, doc.object)
        = <<doc.check.job, doc.check.target, doc.check.identifier>>
  <2>1. NamesEvent(doc.check.job, doc.object) \/ Len(doc.check.identifier) <= 1
    BY DEF ReadBack
  <2>2. Targeted(doc.check.target)  BY <1>5, <1>6 DEF Targeted
  <2>3. parse_check_name(get_check_cls(doc.check.job, doc.object, doc.check.target,
                                       doc.check.identifier), doc.object)
          = <<doc.check.job, doc.check.target, doc.check.identifier>>
    <3>1. /\ doc.check.job \in STRING /\ doc.object \in STRING /\ doc.check.target \in STRING
          /\ doc.check.identifier \in Seq(STRING)
      BY <1>5
    <3> QED  BY <3>1, <1>6, <2>1, <2>2, NameReadBack
  <2> QED  BY <1>5, <2>3, Zenon
<1>8. event.identifier = parse_check_name(doc.name, doc.object)[3]  BY EventTrue
<1> QED  BY <1>7, <1>8

\* --------------------------------------------------- lemmas of the matching
LEMMA JobsMatching ==
  ASSUME event = EventOf(input), Parsed, NEW h, NEW j \in get_config_for_handler_kls(h)
  PROVE  /\ j.type \in H(h).jobs
         /\ j \in input.jobs \/ j.type = "koji_build_tag"
         /\ Is("Rerun") => j.identifier = event.identifier
<1>1. ASSUME NEW js  PROVE  Retriggered(js) \subseteq js  BY DEF Retriggered
<1>2. check_explicit_matching \subseteq
        input.jobs \cup {[NoJob EXCEPT !.type = "koji_build_tag", !.trigger = "koji_build"]}
  BY <1>1 DEF check_explicit_matching
<1>3. [NoJob EXCEPT !.type = "koji_build_tag", !.trigger = "koji_build"].type = "koji_build_tag"
  BY DEF NoJob
<1>4. Is("Rerun") => check_explicit_matching = {}
  <2>1. Is("Rerun") => /\ kind \notin {"pagure.pr.Comment", "koji.tag.Build"}
                       /\ ~Is("comment.Issue")
    BY EventTrue DEF CheckKinds, Is
  <2> QED  BY <2>1 DEF check_explicit_matching
<1>5. /\ j.type \in H(h).jobs
      /\ (j \in input.jobs /\ MatchesTrigger(j)) \/ j \in check_explicit_matching
  BY DEF get_config_for_handler_kls, get_jobs_matching_event
<1> QED  BY <1>2, <1>3, <1>4, <1>5 DEF MatchesTrigger

LEMMA HandlersMatching ==
  ASSUME event = EventOf(input), Parsed, NEW h \in JobHandlers
  PROVE  h \in HandlerNames /\ Reacts(h) /\ Reruns(h)
<1>1. h \in HandlerNames /\ is_handler_matching_the_event(h)
  BY DEF JobHandlers, get_handlers_for_event
<1>2. Is("Rerun") => ~Is("CommentEvent")
  BY EventTrue DEF CheckKinds, Is
<1>3. Is("Rerun") => get_handlers_for_comment_and_rerun_event
                       = get_handlers_for_check_rerun(parse_check_name(doc.name, doc.object)[1])
  BY <1>2 DEF get_handlers_for_comment_and_rerun_event
<1> QED  BY <1>1, <1>3 DEF is_handler_matching_the_event, Reacts, Reruns

\* The handler of images has no event to react to.
LEMMA ReactsAndRuns ==
  ASSUME event = EventOf(input), Parsed, NEW h \in HandlerNames, Reacts(h)
  PROVE  Runs(h) = h
<1>1. /\ kind = parse_message(doc) /\ kind \in Kinds /\ tagged \in BOOLEAN
      /\ \A class : Is(class) => class \in Event(kind, tagged).is \/ class = kind
  <2>1. kind \in Kinds  BY DEF Parsed
  <2>2. tagged \in BOOLEAN  BY DEF tagged
  <2> QED  BY <2>1, <2>2, EventTrue
<1>2. kind # "vm_image.Result"
  BY <1>1, MessageIsAnAnswer, RerunAnswer DEF None
<1>3. "vm_image.Result" \notin Event(kind, tagged).is
  BY <1>1, ClassesOfEvents DEF Abstract
<1>4. H("VMImageBuildResultHandler").events = {"vm_image.Result"}
  BY DEF H, Registered, HandlerNames, HandlerOf, VMImageBuildResultHandler, Handler
<1>5. h # "VMImageBuildResultHandler"  BY <1>1, <1>2, <1>3, <1>4 DEF Reacts
<1> QED  BY <1>5, TaskRunsItsHandler

LEMMA TasksCreated ==
  ASSUME event = EventOf(input), Parsed, NEW h, NEW x \in create_tasks(h)
  PROVE  /\ x.handler = h /\ x.try = try /\ x.job.type \in H(h).jobs
         /\ x.job \in input.jobs \/ x.job.type = "koji_build_tag"
         /\ Is("Rerun") => x.job.identifier = event.identifier
<1>1. PICK j \in get_config_for_handler_kls(h) : x = [handler |-> h, job |-> j, try |-> try]
  BY DEF create_tasks, Sent
<1> QED  BY <1>1, JobsMatching

\* The event is what it was as long as the input is, but for the entries.
LEMMA Framed ==
  ASSUME event' = event, input'.doc = input.doc, input'.said = input.said,
         input'.jobs = input.jobs, input'.world = input.world
  PROVE  /\ \A h : Ours(h)' <=> Ours(h)
         /\ \A h : Reacts(h)' <=> Reacts(h)
         /\ \A h : Reruns(h)' <=> Reruns(h)
         /\ \A h : PreCheckForFedoraCI(h)' <=> PreCheckForFedoraCI(h)
         /\ FedoraCIMatching' = FedoraCIMatching
         /\ ForFedoraCI' <=> ForFedoraCI
         /\ NobodyOfFedoraCI' <=> NobodyOfFedoraCI
         /\ \A class : Is(class)' <=> Is(class)
         /\ Parsed' <=> Parsed
         /\ \A x : TaskTrue(x)' <=> TaskTrue(x)
<1>1. \A class : Is(class)' <=> Is(class)  BY DEF Is
<1>2. Parsed' <=> Parsed  BY DEF Parsed, kind
<1>3. \A h : PreCheckForFedoraCI(h)' <=> PreCheckForFedoraCI(h)  BY DEF PreCheckForFedoraCI, world
<1>4. ForFedoraCI' <=> ForFedoraCI  BY DEF ForFedoraCI, kind, world
<1>5. FedoraCIMatching' = FedoraCIMatching
  BY <1>1 DEF FedoraCIMatching, Is, parse_comment, said, get_handlers_for_command_fedora_ci, CI,
              RegisteredForFedoraCI
<1>6. \A h : Ours(h)' <=> Ours(h)  BY <1>3, <1>4, <1>5 DEF Ours
<1>7. NobodyOfFedoraCI' <=> NobodyOfFedoraCI  BY <1>6 DEF NobodyOfFedoraCI
<1>8. \A h : Reacts(h)' <=> Reacts(h)  BY DEF Reacts, Is, H, Registered
<1>9. \A h : Reruns(h)' <=> Reruns(h)
  BY DEF Reruns, Is, doc, get_handlers_for_check_rerun, H, Registered
<1>10. \A x : TaskTrue(x)' <=> TaskTrue(x)
  BY <1>1, <1>6, <1>7, <1>8, <1>9 DEF TaskTrue
<1> QED  BY <1>1, <1>2, <1>3, <1>4, <1>5, <1>6, <1>7, <1>8, <1>9, <1>10

\* ---------------------------------------------------- lemmas of the steps
TaskTyped(x) ==
  /\ x.try \in 1..try
  /\ x.handler \in HandlerNames \cup FedoraCINames \cup NoHandlers
  /\ Runs(x.handler) = x.handler
  /\ x.handler \in HandlerNames =>
       x.job.type \in H(x.handler).jobs /\ (x.job \in input.jobs \/ x.job.type = "koji_build_tag")

\* The handlers left are those of the phase.
LeftTyped ==
  /\ phase \in {"idle", "received", "ci", "jobs", "done"}
  /\ phase \in {"ci", "jobs"} <=> left # {}
  /\ phase = "ci" => left \subseteq FedoraCINames
  /\ phase = "jobs" => left \subseteq HandlerNames

\* Somebody who is not to be let in, and is no admin either.
Denied ==
  /\ Parsed
  /\ "project" \in blocked \/ ("user" \in blocked /\ event.actor # "")
  /\ doc.source \in {"github", "gitlab"}
  /\ ~Is("Rerun") /\ ~Admin(world)

Counted ==
  /\ try \in 1..MaxTries /\ changes \in 0..MaxChanges /\ blocked \subseteq {"project", "user"}
  /\ \A x \in tasks : TaskTyped(x)
  /\ phase # "idle" /\ Denied => \A x \in tasks : x.handler \notin HandlerNames

LEMMA DInvParts ==
  /\ DInv <=> /\ LeftTyped /\ Counted /\ InputTrue /\ Dispatched
              /\ LeftTrue /\ TasksTrue
  /\ DInv' <=> /\ LeftTyped' /\ Counted' /\ InputTrue' /\ Dispatched'
               /\ LeftTrue' /\ TasksTrue'
BY DEF DInv, TypeOK, NotAllowedGetsNothing, Denied, Counted, LeftTyped, TaskTyped

LEMMA TasksKept ==
  ASSUME DInv, phase # "idle", phase' # "idle", Kept,
         try' \in 1..MaxTries, try <= try', tasks \subseteq tasks',
         \A x \in tasks' \ tasks : /\ TaskTyped(x) /\ TaskTrue(x)
                                   /\ x.handler \in HandlerNames => ~Denied
  PROVE  Counted' /\ InputTrue' /\ TasksTrue'
<1>1. Counted /\ InputTrue /\ TasksTrue  BY DInvParts
<1>2. input' = input /\ event' = event /\ changes' = changes /\ blocked' = blocked  BY DEF Kept
<1>3. \A x : TaskTrue(x)' <=> TaskTrue(x)  BY <1>2, Framed
<1>4. \A x : TaskTyped(x) => TaskTyped(x)'
  <2>1. try \in 1..MaxTries  BY <1>1 DEF Counted
  <2>2. MaxTries \in Nat  BY DispatchAssumption
  <2>3. 1..try \subseteq 1..try'  BY <2>1, <2>2
  <2> QED  BY <1>2, <2>3 DEF TaskTyped, H, Registered
<1>5. Denied' <=> Denied  BY <1>2, Framed DEF Denied, doc, world
<1>6. InputTrue'
  BY <1>1, <1>2 DEF InputTrue, doc
<1>7. TasksTrue'  BY <1>1, <1>3 DEF TasksTrue
<1>8. \A x \in tasks' : TaskTyped(x)'  BY <1>1, <1>4 DEF Counted
<1>9. Denied' => \A x \in tasks' : x.handler \notin HandlerNames  BY <1>1, <1>5 DEF Counted
<1> QED  BY <1>1, <1>2, <1>6, <1>7, <1>8, <1>9 DEF Counted

\* The state while something is processed.
LEMMA Processing ==
  ASSUME DInv, phase # "idle"
  PROVE  /\ event = EventOf(input) /\ Document(doc) /\ input = Input(input, input.entry)
         /\ try \in 1..MaxTries /\ MaxTries \in Nat
BY DInvParts, DispatchAssumption DEF InputTrue, Counted

\* Nothing is sent.
LEMMA NothingSent ==
  ASSUME DInv, phase # "idle", phase' # "idle", Kept, UNCHANGED tasks,
         try' \in 1..MaxTries, try <= try'
  PROVE  Counted' /\ InputTrue' /\ TasksTrue'
BY TasksKept

\* No handler is left: the phase before or after the handlers.
LEMMA NothingLeft ==
  ASSUME DInv, Kept, phase' \in {"received", "done"}, left' = {}, tasks' = {} \/ Parsed
  PROVE  LeftTyped' /\ Dispatched' /\ LeftTrue'
<1>1. Parsed' <=> Parsed  BY DEF Kept, Parsed, kind
<1> QED  BY <1>1 DEF LeftTyped, Dispatched, LeftTrue

LEMMA StepReceive ==
  ASSUME DInv, Receive
  PROVE  DInv'
<1>1. /\ phase = "idle" /\ phase' = "received" /\ left' = left /\ tasks' = tasks
      /\ try' = try /\ changes' = changes
  BY DEF Receive
<1>2. PICK in \in Inputs : input' = in /\ event' = EventOf(in) /\ blocked' = Reasons(in.entry)
  BY DEF Receive
<1>3. tasks = {} /\ left = {}  BY <1>1, DInvParts DEF Dispatched, LeftTyped
<1>4. InputTrue'
  <2>1. in = Input(in, in.entry) /\ Document(in.doc)  BY DispatchAssumption
  <2> QED  BY <1>2, <2>1 DEF InputTrue, doc
<1>5. Counted'
  BY <1>1, <1>2, <1>3, DInvParts DEF Counted, Reasons
<1> QED
  BY <1>1, <1>3, <1>4, <1>5, DInvParts DEF LeftTyped, Dispatched, LeftTrue, TasksTrue

LEMMA StepIgnore ==
  ASSUME DInv, Ignore
  PROVE  DInv'
<1>1. /\ phase = "received" /\ phase' = "done" /\ left' = left /\ tasks' = tasks /\ try' = try
      /\ Kept
  BY DEF Ignore
<1>2. left = {} /\ (tasks # {} => Parsed)  BY <1>1, DInvParts DEF LeftTyped, Dispatched
<1>3. Counted' /\ InputTrue' /\ TasksTrue'  BY <1>1, Processing, NothingSent
<1>4. LeftTyped' /\ Dispatched' /\ LeftTrue'  BY <1>1, <1>2, NothingLeft
<1> QED  BY <1>3, <1>4, DInvParts

LEMMA StepSendOne ==
  ASSUME DInv, Processed, NEW h \in NoHandlers, ~Is("Rerun"), SendOne(h)
  PROVE  DInv'
<1>1. /\ phase = "received" /\ phase' = "done" /\ left' = left /\ try' = try /\ Kept
      /\ Parsed /\ tasks' = tasks \cup {[handler |-> h, job |-> NoJob, try |-> try]}
  BY DEF Processed, SendOne, Sent
<1>2. left = {}  BY <1>1, DInvParts DEF LeftTyped
<1>3. h \notin HandlerNames /\ h \notin FedoraCINames  BY NamesDiffer
<1> DEFINE x == [handler |-> h, job |-> NoJob, try |-> try]
<1>4. x.handler = h /\ x.try = try  OBVIOUS
<1> HIDE DEF x
<1>5. TaskTyped(x) /\ TaskTrue(x) /\ x.handler \notin HandlerNames
  <2>1. Runs(h) = h  BY TaskRunsItsHandler DEF NoHandlers
  <2> QED  BY <1>1, <1>3, <1>4, <2>1, Processing DEF TaskTyped, TaskTrue
<1>6. Counted' /\ InputTrue' /\ TasksTrue'
  <2>1. tasks' = tasks \cup {x}  BY <1>1 DEF x
  <2> QED  BY <1>1, <1>5, <2>1, Processing, TasksKept
<1>7. LeftTyped' /\ Dispatched' /\ LeftTrue'  BY <1>1, <1>2, NothingLeft
<1> QED  BY <1>6, <1>7, DInvParts

\* A rerun is no installation and no comment.
LEMMA RerunIsNoOther ==
  ASSUME event = EventOf(input), Parsed, Is("Rerun")
  PROVE  /\ ~Is("github.installation.Installation") /\ ~Is("github.issue.Comment")
         /\ ~HelpComment /\ ~ForFedoraCI
<1>1. kind \in CheckKinds /\ event.is = {"ForgeIndependent", "Rerun", kind}  BY EventTrue
<1> QED  BY <1>1 DEF CheckKinds, Is, HelpComment, ForFedoraCI, FedoraCIEvents

LEMMA StepOther ==
  ASSUME DInv, Installation \/ Verification \/ Help
  PROVE  DInv'
<1>1. Processed /\ phase = "received" /\ Parsed
  BY DEF Installation, Verification, Help, Processed
<1>2. event = EventOf(input)  BY <1>1, Processing
<1>3. CASE Installation
  <2>1. ~Is("Rerun") /\ SendOne("GithubAppInstallationHandler")
    BY <1>1, <1>2, <1>3, RerunIsNoOther DEF Installation
  <2> QED  BY <1>1, <2>1, StepSendOne DEF NoHandlers
<1>4. CASE Verification
  <2>1. ~Is("Rerun")
    BY <1>1, <1>2, <1>4, RerunIsNoOther DEF Verification, VerifyComment
  <2>2. CASE SendOne("GithubFasVerificationHandler")
    BY <1>1, <2>1, <2>2, StepSendOne DEF NoHandlers
  <2>3. CASE phase' = "done" /\ UNCHANGED <<left, tasks, try>> /\ Kept
    <3>1. left = {}  BY <1>1, DInvParts DEF LeftTyped
    <3>2. Counted' /\ InputTrue' /\ TasksTrue'  BY <1>1, <2>3, Processing, NothingSent
    <3>3. LeftTyped' /\ Dispatched' /\ LeftTrue'  BY <1>1, <2>3, <3>1, NothingLeft
    <3> QED  BY <3>2, <3>3, DInvParts
  <2> QED  BY <1>4, <2>2, <2>3 DEF Verification
<1>5. CASE Help
  <2>1. ~Is("Rerun")  BY <1>1, <1>2, <1>5, RerunIsNoOther DEF Help
  <2>2. PICK h \in NoHandlers : SendOne(h)  BY <1>5 DEF Help, NoHandlers
  <2> QED  BY <1>1, <2>1, <2>2, StepSendOne
<1> QED  BY <1>3, <1>4, <1>5

\* process_jobs begins with all its handlers, none of Fedora CI having a task.
LEMMA JobsBegin ==
  ASSUME DInv, phase # "idle", Parsed, Kept, Continue(JobHandlers), NobodyOfFedoraCI,
         ~Is("github.installation.Installation")
  PROVE  LeftTyped' /\ Dispatched' /\ LeftTrue'
<1>1. left' = JobHandlers /\ phase' = IF JobHandlers = {} THEN "done" ELSE "jobs"
  BY DEF Continue
<1>2. \A h \in JobHandlers : h \in HandlerNames /\ Reacts(h) /\ Reruns(h)
  BY Processing, HandlersMatching
<1>3. /\ \A h : Reacts(h)' <=> Reacts(h)
      /\ \A h : Reruns(h)' <=> Reruns(h)
      /\ NobodyOfFedoraCI' <=> NobodyOfFedoraCI
      /\ \A class : Is(class)' <=> Is(class)
      /\ Parsed' <=> Parsed
  BY Framed DEF Kept
<1>4. LeftTyped'  BY <1>1, <1>2 DEF LeftTyped
<1>5. Dispatched'  BY <1>1, <1>3 DEF Dispatched
<1>6. LeftTrue'  BY <1>1, <1>2, <1>3 DEF LeftTrue
<1> QED  BY <1>4, <1>5, <1>6

LEMMA StepProcessJobs ==
  ASSUME DInv, ProcessJobs
  PROVE  DInv'
<1>1. /\ phase = "received" /\ Parsed /\ ~Is("github.installation.Installation")
      /\ tasks' = tasks /\ try' = try /\ Kept
  BY DEF ProcessJobs, Processed
<1>2. CASE ForFedoraCI /\ FedoraCIMatching # {}
  <2>1. left' = FedoraCIMatching /\ phase' = "ci"  BY <1>2 DEF ProcessJobs
  <2>2. /\ FedoraCIMatching' = FedoraCIMatching /\ (ForFedoraCI' <=> ForFedoraCI)
        /\ \A class : Is(class)' <=> Is(class)
        /\ Parsed' <=> Parsed
    BY <1>1, Framed DEF Kept
  <2>3. FedoraCIMatching \subseteq FedoraCINames  BY DEF FedoraCIMatching
  <2>4. LeftTyped'  BY <1>2, <2>1, <2>3 DEF LeftTyped
  <2>5. Dispatched'  BY <1>1, <2>1, <2>2 DEF Dispatched
  <2>6. LeftTrue'  BY <1>2, <2>1, <2>2 DEF LeftTrue
  <2>7. Counted' /\ InputTrue' /\ TasksTrue'  BY <1>1, <2>1, Processing, NothingSent
  <2> QED  BY <2>4, <2>5, <2>6, <2>7, DInvParts
<1>3. CASE ~(ForFedoraCI /\ FedoraCIMatching # {})
  <2>1. Continue(JobHandlers)  BY <1>3 DEF ProcessJobs
  <2>2. phase' # "idle"  BY <2>1 DEF Continue
  <2>3. NobodyOfFedoraCI  BY <1>3 DEF NobodyOfFedoraCI, Ours
  <2>4. LeftTyped' /\ Dispatched' /\ LeftTrue'  BY <1>1, <2>1, <2>3, JobsBegin
  <2>5. Counted' /\ InputTrue' /\ TasksTrue'  BY <1>1, <2>2, Processing, NothingSent
  <2> QED  BY <2>4, <2>5, DInvParts
<1> QED  BY <1>2, <1>3

LEMMA StepFedoraCI ==
  ASSUME DInv, NEW h \in left, process_fedora_ci_jobs(h)
  PROVE  DInv'
<1> DEFINE x == [handler |-> h, job |-> NoJob, try |-> try]
<1>1. /\ phase = "ci" /\ try' = try /\ Kept
      /\ tasks' = IF PreCheckForFedoraCI(h) THEN tasks \cup {x} ELSE tasks
  BY DEF process_fedora_ci_jobs, Sent
<1>2. /\ ForFedoraCI /\ left \subseteq FedoraCIMatching /\ left \subseteq FedoraCINames
      /\ \A g \in FedoraCIMatching \ left : PreCheckForFedoraCI(g) => JustSent # {}
      /\ Parsed /\ ~Is("github.installation.Installation")
  BY <1>1, DInvParts DEF LeftTrue, LeftTyped, Dispatched
<1>3. event = EventOf(input) /\ try \in 1..MaxTries /\ MaxTries \in Nat  BY <1>1, Processing
<1>4. ~Is("Rerun")  BY <1>2, <1>3, RerunIsNoOther
<1>5. h \in FedoraCINames /\ h \notin HandlerNames  BY <1>2, NamesDiffer
<1>6. x.handler = h /\ x.try = try  OBVIOUS
<1> HIDE DEF x
<1>7. phase' # "idle"
  <2>1. CASE left # {h}  BY <1>1, <2>1 DEF process_fedora_ci_jobs
  <2>2. CASE left = {h}  BY <1>1, <2>2 DEF process_fedora_ci_jobs, Continue
  <2> QED  BY <2>1, <2>2
<1>8. Counted' /\ InputTrue' /\ TasksTrue'
  <2>1. PreCheckForFedoraCI(h) => TaskTrue(x)
    BY <1>2, <1>4, <1>5, <1>6 DEF TaskTrue, Ours
  <2>2. Runs(h) = h  BY <1>5, TaskRunsItsHandler DEF FedoraCINames
  <2>3. TaskTyped(x) /\ x.handler \notin HandlerNames
    BY <1>3, <1>5, <1>6, <2>2 DEF TaskTyped
  <2> QED  BY <1>1, <1>3, <1>7, <2>1, <2>3, TasksKept
<1>9. /\ FedoraCIMatching' = FedoraCIMatching /\ (ForFedoraCI' <=> ForFedoraCI)
      /\ \A g : PreCheckForFedoraCI(g)' <=> PreCheckForFedoraCI(g)
      /\ \A class : Is(class)' <=> Is(class)
      /\ Parsed' <=> Parsed
  BY <1>1, Framed DEF Kept
<1>10. /\ PreCheckForFedoraCI(h) => JustSent' # {}
       /\ JustSent # {} => JustSent' # {}
  BY <1>1, <1>6 DEF JustSent
<1>11. CASE left # {h}
  <2>1. left' = left \ {h} /\ phase' = "ci"  BY <1>1, <1>11 DEF process_fedora_ci_jobs
  <2>2. LeftTyped'  BY <1>2, <1>11, <2>1 DEF LeftTyped
  <2>3. Dispatched'  BY <1>2, <1>9, <2>1 DEF Dispatched
  <2>4. LeftTrue'  BY <1>2, <1>9, <1>10, <2>1 DEF LeftTrue
  <2> QED  BY <1>8, <2>2, <2>3, <2>4, DInvParts
<1>12. CASE left = {h} /\ (PreCheckForFedoraCI(h) \/ JustSent # {})
  <2>1. left' = {} /\ phase' = "done"  BY <1>1, <1>12 DEF process_fedora_ci_jobs
  <2>2. LeftTyped' /\ Dispatched' /\ LeftTrue'  BY <1>1, <1>2, <2>1, NothingLeft
  <2> QED  BY <1>8, <2>2, DInvParts
<1>13. CASE left = {h} /\ ~(PreCheckForFedoraCI(h) \/ JustSent # {})
  <2>1. Continue(JobHandlers)  BY <1>1, <1>13 DEF process_fedora_ci_jobs
  <2>2. NobodyOfFedoraCI  BY <1>2, <1>13 DEF NobodyOfFedoraCI, Ours
  <2>3. LeftTyped' /\ Dispatched' /\ LeftTrue'  BY <1>1, <1>2, <2>1, <2>2, JobsBegin
  <2> QED  BY <1>8, <2>3, DInvParts
<1> QED  BY <1>11, <1>12, <1>13

\* The allowlist lets nobody pass who has been denied all along.
LEMMA DeniedNotPassed ==
  ASSUME DInv, phase = "jobs", Denied
  PROVE  check_and_report(input.entry, event, world) # "passed"
<1>1. /\ event = EventOf(input) /\ Document(doc) /\ blocked \subseteq Reasons(input.entry)
      /\ Parsed /\ ~Is("github.installation.Installation")
  BY DInvParts DEF InputTrue, Dispatched
<1>2. /\ kind = parse_message(doc) /\ event.is = Event(kind, tagged).is \cup {kind}
      /\ event.actor # "" => "actor" \in Event(kind, tagged).keys
      /\ kind \notin CheckKinds
  BY <1>1, EventTrue DEF Denied
<1>3. kind \in Kinds /\ tagged \in BOOLEAN /\ kind # "github.installation.Installation"
  <2>1. kind \in Kinds  BY <1>1 DEF Parsed
  <2>2. tagged \in BOOLEAN  BY DEF tagged
  <2>3. kind # "github.installation.Installation"
    <3>1. kind \in event.is  BY <1>2
    <3> QED  BY <1>1, <3>1 DEF Is
  <2> QED  BY <2>1, <2>2, <2>3
<1>4. kind \in ForgeKinds
  <2>1. doc.source \in {"github", "gitlab"} /\ "source=testing-farm" \notin doc.has
    BY <1>1 DEF Denied, Document
  <2>2. kind \in Answers(doc) \cup {None}  BY <1>2, MessageIsAnAnswer
  <2>3. None \notin Kinds /\ Raised \notin Kinds  BY DEF None, Raised, Kinds
  <2> QED  BY <1>3, <2>1, <2>2, <2>3, ForgeAnswers
<1>5. kind \in ReleasePush => event.actor = ""  BY <1>2, <1>3, ClassesOfEvents
<1>6. /\ "project" \in Reasons(input.entry)
           \/ ("user" \in Reasons(input.entry) /\ event.actor # "")
      /\ ~Admin(world)
  BY <1>1 DEF Denied
<1> QED  BY <1>2, <1>3, <1>4, <1>5, <1>6, NotPassed

LEMMA StepJobs ==
  ASSUME DInv, NEW h \in left, process_jobs(h)
  PROVE  DInv'
<1> DEFINE verdict == check_and_report(input.entry, event, world)
<1>1. /\ phase = "jobs" /\ try' = try /\ Kept
      /\ CASE verdict = "passed" -> tasks' = tasks \cup create_tasks(h) /\ Continue(left \ {h})
           [] verdict = "refused" -> UNCHANGED tasks /\ Continue({})
           [] OTHER -> FALSE
  BY DEF process_jobs
<1> HIDE DEF verdict
<1>2. /\ left \subseteq HandlerNames /\ NobodyOfFedoraCI
      /\ \A g \in left : Reacts(g) /\ Reruns(g)
      /\ Parsed /\ ~Is("github.installation.Installation")
  BY <1>1, DInvParts DEF LeftTrue, LeftTyped, Dispatched
<1>3. event = EventOf(input) /\ try \in 1..MaxTries /\ MaxTries \in Nat  BY <1>1, Processing
<1>4. CASE verdict = "passed"
  <2>1. tasks' = tasks \cup create_tasks(h) /\ Continue(left \ {h})  BY <1>1, <1>4
  <2>2. left' = left \ {h} /\ phase' = IF left' = {} THEN "done" ELSE "jobs"
    BY <2>1 DEF Continue
  <2>3. ~Denied  BY <1>1, <1>4, DeniedNotPassed DEF verdict
  <2>4. h \in HandlerNames /\ h \notin FedoraCINames  BY <1>2, NamesDiffer
  <2>5. \A x \in create_tasks(h) : TaskTyped(x) /\ TaskTrue(x)
    <3>1. Runs(h) = h  BY <1>2, <1>3, <2>4, ReactsAndRuns
    <3> QED  BY <1>2, <1>3, <2>4, <3>1, TasksCreated DEF TaskTyped, TaskTrue
  <2>6. Counted' /\ InputTrue' /\ TasksTrue'
    BY <1>1, <1>3, <2>1, <2>2, <2>3, <2>5, TasksKept
  <2>7. /\ \A g : Reacts(g)' <=> Reacts(g)
        /\ \A g : Reruns(g)' <=> Reruns(g)
        /\ NobodyOfFedoraCI' <=> NobodyOfFedoraCI
        /\ \A class : Is(class)' <=> Is(class)
        /\ Parsed' <=> Parsed
    BY <1>1, Framed DEF Kept
  <2>8. LeftTyped'  BY <1>2, <2>2 DEF LeftTyped
  <2>9. Dispatched'  BY <1>2, <2>2, <2>7 DEF Dispatched
  <2>10. LeftTrue'  BY <1>2, <2>2, <2>7 DEF LeftTrue
  <2> QED  BY <2>6, <2>8, <2>9, <2>10, DInvParts
<1>5. CASE verdict = "refused"
  <2>1. tasks' = tasks /\ left' = {} /\ phase' = "done"  BY <1>1, <1>5 DEF Continue
  <2>2. Counted' /\ InputTrue' /\ TasksTrue'  BY <1>1, <1>3, <2>1, NothingSent
  <2>3. LeftTyped' /\ Dispatched' /\ LeftTrue'  BY <1>1, <1>2, <2>1, NothingLeft
  <2> QED  BY <2>2, <2>3, DInvParts
<1> QED  BY <1>1, <1>4, <1>5

LEMMA StepRetry ==
  ASSUME DInv, Retry
  PROVE  DInv'
<1>1. /\ phase # "idle" /\ Parsed /\ left' = {} /\ tasks' = tasks /\ Kept
      /\ \/ try < MaxTries /\ phase' = "received" /\ try' = try + 1
         \/ phase' = "done" /\ try' = try
  BY DEF Retry
<1>2. try' \in 1..MaxTries /\ try <= try'  BY <1>1, Processing
<1>3. Counted' /\ InputTrue' /\ TasksTrue'  BY <1>1, <1>2, NothingSent
<1>4. LeftTyped' /\ Dispatched' /\ LeftTrue'  BY <1>1, NothingLeft
<1> QED  BY <1>3, <1>4, DInvParts

LEMMA StepChangeEntry ==
  ASSUME DInv, NEW n, NEW status, ChangeEntry(n, status)
  PROVE  DInv'
<1>1. /\ phase = "jobs" /\ changes < MaxChanges /\ changes' = changes + 1
      /\ input' = [input EXCEPT !.entry[n] = status]
      /\ blocked' = blocked \cap Reasons(input'.entry)
      /\ event' = event /\ phase' = phase /\ left' = left /\ tasks' = tasks /\ try' = try
  BY DEF ChangeEntry
<1>2. /\ LeftTyped /\ Counted /\ InputTrue /\ Dispatched /\ LeftTrue /\ TasksTrue
  BY DInvParts
<1>3. input = Input(input, input.entry)  BY <1>1, Processing
<1>4. input' = Input(input, input'.entry)
  BY <1>1, <1>3 DEF Input
<1>5. /\ input'.doc = input.doc /\ input'.said = input.said /\ input'.jobs = input.jobs
      /\ input'.world = input.world
  BY <1>4 DEF Input
<1>6. input' = Input(input', input'.entry)  BY <1>4, <1>5 DEF Input
<1>7. EventOf(input)' = EventOf(input)  BY <1>5 DEF EventOf
<1>8. InputTrue'
  BY <1>1, <1>2, <1>5, <1>6, <1>7 DEF InputTrue, doc
<1>9. /\ \A g : Reacts(g)' <=> Reacts(g)
      /\ \A g : Reruns(g)' <=> Reruns(g)
      /\ NobodyOfFedoraCI' <=> NobodyOfFedoraCI
      /\ \A class : Is(class)' <=> Is(class)
      /\ Parsed' <=> Parsed
      /\ \A x : TaskTrue(x)' <=> TaskTrue(x)
  BY <1>1, <1>5, Framed
<1>10. LeftTyped' /\ Dispatched' /\ LeftTrue' /\ TasksTrue'
  BY <1>1, <1>2, <1>9 DEF LeftTyped, Dispatched, LeftTrue, TasksTrue
<1>11. Counted'
  <2>1. Denied' => Denied  BY <1>1, <1>5, <1>9 DEF Denied, doc, world
  <2>2. \A x : TaskTyped(x)' <=> TaskTyped(x)  BY <1>1, <1>5 DEF TaskTyped, H, Registered
  <2>3. changes' \in 0..MaxChanges
    BY <1>1, <1>2, DispatchAssumption DEF Counted
  <2> QED  BY <1>1, <1>2, <2>1, <2>2, <2>3 DEF Counted
<1> QED  BY <1>8, <1>10, <1>11, DInvParts

LEMMA StepFinish ==
  ASSUME DInv, Finish
  PROVE  DInv'
<1>1. /\ phase' = "idle" /\ left' = {} /\ tasks' = {} /\ try' = 1 /\ changes' = 0
      /\ blocked' = {}
  BY DEF Finish
<1> QED
  BY <1>1, DInvParts, DispatchAssumption
     DEF LeftTyped, Counted, InputTrue, Dispatched, LeftTrue, TasksTrue

LEMMA Begins == Init => DInv
<1> SUFFICES ASSUME Init PROVE DInv  OBVIOUS
<1> QED
  BY DInvParts, DispatchAssumption
     DEF Init, LeftTyped, Counted, InputTrue, Dispatched, LeftTrue, TasksTrue

LEMMA Stutters ==
  ASSUME DInv, UNCHANGED vars
  PROVE  DInv'
<1>1. /\ input' = input /\ event' = event /\ phase' = phase /\ left' = left /\ tasks' = tasks
      /\ try' = try /\ changes' = changes /\ blocked' = blocked
  BY DEF vars
<1>2. /\ FedoraCIMatching' = FedoraCIMatching /\ (ForFedoraCI' <=> ForFedoraCI)
      /\ \A g : PreCheckForFedoraCI(g)' <=> PreCheckForFedoraCI(g)
      /\ \A g : Reacts(g)' <=> Reacts(g)
      /\ \A g : Reruns(g)' <=> Reruns(g)
      /\ NobodyOfFedoraCI' <=> NobodyOfFedoraCI
      /\ \A class : Is(class)' <=> Is(class)
      /\ Parsed' <=> Parsed
      /\ \A x : TaskTrue(x)' <=> TaskTrue(x)
  BY <1>1, Framed
<1>3. /\ LeftTyped /\ Counted /\ InputTrue /\ Dispatched /\ LeftTrue /\ TasksTrue
  BY DInvParts
<1>4. LeftTyped' /\ Dispatched' /\ TasksTrue'
  BY <1>1, <1>2, <1>3 DEF LeftTyped, Dispatched, TasksTrue
<1>5. InputTrue'  BY <1>1, <1>3 DEF InputTrue, doc
<1>6. LeftTrue'
  <2>1. JustSent' = JustSent  BY <1>1 DEF JustSent
  <2> QED  BY <1>1, <1>2, <1>3, <2>1 DEF LeftTrue
<1>7. Counted'
  <2>1. Denied' <=> Denied  BY <1>1, <1>2 DEF Denied, doc, world
  <2>2. \A x : TaskTyped(x)' <=> TaskTyped(x)  BY <1>1 DEF TaskTyped, H, Registered
  <2> QED  BY <1>1, <1>3, <2>1, <2>2 DEF Counted
<1> QED  BY <1>4, <1>5, <1>6, <1>7, DInvParts

\* ------------------------------------------------------------- the theorems
\* DInv holds in every state of Spec.
THEOREM Inductive == Spec => []DInv
<1>1. ASSUME DInv, [Next]_vars  PROVE  DInv'
  <2>1. CASE Receive  BY <2>1, <1>1, StepReceive
  <2>2. CASE Ignore  BY <2>2, <1>1, StepIgnore
  <2>3. CASE Installation \/ Verification \/ Help  BY <2>3, <1>1, StepOther
  <2>4. CASE ProcessJobs  BY <2>4, <1>1, StepProcessJobs
  <2>5. CASE \E h \in left : process_fedora_ci_jobs(h) \/ process_jobs(h)
    <3>1. PICK h \in left : process_fedora_ci_jobs(h) \/ process_jobs(h)  BY <2>5
    <3> QED  BY <1>1, <3>1, StepFedoraCI, StepJobs
  <2>6. CASE Retry  BY <2>6, <1>1, StepRetry
  <2>7. CASE Finish  BY <2>7, <1>1, StepFinish
  <2>8. CASE \E c \in Changes : ChangeEntry(c[1], c[2])
    <3>1. PICK c \in Changes : ChangeEntry(c[1], c[2])  BY <2>8
    <3> QED  BY <1>1, <3>1, StepChangeEntry
  <2>9. CASE UNCHANGED vars  BY <2>9, <1>1, Stutters
  <2> QED  BY <1>1, <2>1, <2>2, <2>3, <2>4, <2>5, <2>6, <2>7, <2>8, <2>9 DEF Next
<1> QED  BY Begins, <1>1, PTL DEF Spec

\* Every variable has its type, and the tasks are of handlers and jobs that match the
\* event (get_config_for_handler_kls).
THEOREM TypeCorrect == Spec => []TypeOK
<1>1. DInv => TypeOK  BY DEF DInv
<1> QED  BY <1>1, Inductive, PTL

\* The parser that MAPPING names for the source and type of a document makes the event
\* that going through the list of Parser.parse_event makes, for every document that
\* services send: no parser of the list answers before it.
THEOREM ParsedEitherWay == Spec => []SameEventEitherWay
<1>1. DInv => SameEventEitherWay  BY Processing, EitherWay DEF SameEventEitherWay
<1> QED  BY <1>1, Inductive, PTL

\* Taking the name of a check apart (parse_check_name) finds the job, target and
\* identifier it was made of, and only tasks for that kind of job and that identifier are
\* sent: for any words, if the name has a branch or a tag, and for any identifier without
\* a colon, if it has not.
THEOREM RerunsTheRightJob == Spec => []RerunRunsItsJob
<1>1. DInv => RerunRunsItsJob
  <2> SUFFICES ASSUME DInv, phase # "idle", Parsed, Is("Rerun"), ReadBack(doc.check)
               PROVE  /\ <<doc.check.job, doc.check.target, doc.check.identifier>>
                            = parse_check_name(doc.name, doc.object)
                      /\ \A x \in tasks : /\ doc.check.job \in H(x.handler).prefixes
                                          /\ x.job.identifier = doc.check.identifier
    BY DInvParts DEF RerunRunsItsJob, Counted, TaskTyped
  <2>1. /\ parse_check_name(doc.name, doc.object)
             = <<doc.check.job, doc.check.target, doc.check.identifier>>
        /\ event.identifier = doc.check.identifier
    BY Processing, RerunTrue
  <2>2. parse_check_name(doc.name, doc.object)[1] = doc.check.job  BY <2>1
  <2>3. ASSUME NEW x \in tasks
        PROVE  /\ doc.check.job \in H(x.handler).prefixes
               /\ x.job.identifier = doc.check.identifier
    <3>1. x.handler \in HandlerNames /\ x.job.identifier = event.identifier /\ Reruns(x.handler)
      BY DInvParts DEF TasksTrue, TaskTrue
    <3> QED  BY <2>1, <2>2, <3>1 DEF Reruns, get_handlers_for_check_rerun
  <2> QED  BY <2>1, <2>3
<1> QED  BY <1>1, Inductive, PTL

\* A result never goes to a handler of Fedora CI and to one of the configured jobs:
\* process_jobs is not reached when process_fedora_ci_jobs has made a task.
THEOREM ReportedOnce == Spec => []OneReporter
<1>1. DInv => OneReporter
  <2> SUFFICES ASSUME DInv PROVE OneReporter  OBVIOUS
  <2>1. ASSUME NEW x \in tasks, NEW y \in tasks, x.handler \in HandlerNames
        PROVE  y.handler \notin FedoraCINames
    BY <2>1, DInvParts DEF TasksTrue, TaskTrue, NobodyOfFedoraCI
  <2>2. /\ {"TestingFarmResultsHandler", "KojiTaskReportHandler"} \subseteq HandlerNames
        /\ {"DownstreamTestingFarmResultsHandler", "KojiTaskReportDownstreamHandler"}
             \subseteq FedoraCINames
    BY DEF HandlerNames, FedoraCINames
  <2>3. \A x \in tasks : Runs(x.handler) = x.handler  BY DInvParts DEF Counted, TaskTyped
  <2> QED  BY <2>1, <2>2, <2>3 DEF OneReporter
<1> QED  BY <1>1, Inductive, PTL

\* What somebody else than an admin does in a project, or as a user, that the allowlist
\* has not allowed at any time since the message came starts no job, however often the
\* entries change between the handlers and the tries (Allowlist.check_and_report).
THEOREM DeniedGetNothing == Spec => []NotAllowedGetsNothing
<1>1. DInv => NotAllowedGetsNothing  BY DEF DInv
<1> QED  BY <1>1, Inductive, PTL

\* The task, which has the event as a dictionary, finds the row that the dispatch added
\* (EventData._add_project_object_and_event), for every event but Forgejo's.
THEOREM TasksFindTheirRow == Spec => []TaskFindsRow
<1>1. DInv => TaskFindsRow
  <2> DEFINE row == Event(kind, tagged).row
  <2> SUFFICES ASSUME DInv, phase = "done", NEW x \in tasks, x.handler \in HandlerNames,
                      kind # "forgejo.issue.Comment",
                      row.type \in {"release", "branch", "pull_request", "issue", "anitya"}
               PROVE  FoundByTask(kind, tagged) = row
    BY DInvParts DEF TaskFindsRow, Counted, TaskTyped
  <2>1. /\ event = EventOf(input) /\ Parsed /\ Reacts(x.handler)
    BY Processing, DInvParts DEF Dispatched, TasksTrue, TaskTrue
  <2>2. kind \in Kinds /\ tagged \in BOOLEAN  BY <2>1 DEF Parsed, tagged
  <2>3. PICK class \in H(x.handler).events : class \in Event(kind, tagged).is \/ class = kind
    BY <2>1, EventTrue DEF Reacts
  <2>4. kind \notin Lost  BY <2>2, <2>3, ClassesOfLost, NobodyReacts
  <2> QED  BY <2>2, <2>4, FoundOrLost
<1> QED  BY <1>1, Inductive, PTL
====
