----------------------------- MODULE MCDispatch -----------------------------
(* Each document that a service sends, the same with one key missing, with  *)
(* another action or by another actor; each command; three configurations;  *)
(* the world as it should be with one fact changed; and six allowlists.     *)
EXTENDS Dispatch

Doc(source, type, objectKind, action, has) ==
  [source |-> source, type |-> type, kind |-> objectKind, action |-> action, actor |-> "person",
   has |-> has, object |-> "pull_request", name |-> <<>>, identifier |-> <<>>,
   check |-> [job |-> "", target |-> "", identifier |-> <<>>]]
GH(type, action, has) == Doc("github", type, "", action, has)
GL(type, objectKind, action, has) == Doc("gitlab", type, objectKind, action, has)
Fedora(topic, action, has) == Doc("fedora-messaging", topic, "", action, has)

GithubDocs ==
  {GH("pull_request", "opened", {"pull_request", "number", "pull_request.head.repo.owner.login",
                                 "pull_request.head.repo.name", "pull_request.head.sha"}),
   GH("issue_comment", "created", {"issue.pull_request", "issue.number", "issue.user.login",
                                   "repository.name", "comment.body", "comment.id"}),
   GH("issue_comment", "created", {"issue.number", "issue.user.login", "repository.name",
                                   "comment.body", "comment.id"}),
   GH("commit_comment", "created", {"comment.commit_id"}),
   GH("release", "published", {"release", "release.tag_name"} \cup RepoKeys),
   GH("push", "", {"ref", "before", "after", "pusher.name"} \cup RepoKeys),
   GH("installation", "created", {"installation.account"})}
\* The checks of a pull request, a release and a branch, without identifier, with
\* one and with one that has a colon.
Rerun1(job, object, target, identifier) ==
  [GH("check_run", "rerequested", {"check_run", "ours", "check_run.external_id", "known"}
                                    \cup RepoKeys)
     EXCEPT !.object = object, !.name = get_check_cls(job, object, target, identifier),
            !.check = [job |-> job, target |-> target, identifier |-> identifier]]
RerunDocs ==
  {Rerun1(job, object, "f41", identifier) :
     job \in BuildTestJobs, object \in {"pull_request", "release", "branch"},
     identifier \in {<<>>, <<"id1">>, <<"id1", "id2">>}}
  \cup {Rerun1("propose-downstream", "release", "f41", <<>>)}

GitlabDocs ==
  {GL("Merge Request Hook", "merge_request", "opened",
      {"id", "iid", "source.web_url", "project.web_url"}),
   GL("Note Hook", "note", "opened", {"merge_request", "source.web_url", "project.web_url",
                                      "last_commit.id", "note", "note.id"}),
   GL("Note Hook", "note", "opened", {"issue", "issue.iid", "note", "note.id",
                                      "project.web_url"}),
   GL("Note Hook", "note", "opened", {"commit", "project.web_url", "note", "note.id"}),
   GL("Push Hook", "push", "", {"ref", "commits", "before", "after", "checkout_sha",
                                "project.web_url"}),
   GL("Tag Push Hook", "tag_push", "", {"ref", "commits", "before", "after", "checkout_sha",
                                        "project.web_url"}),
   GL("Pipeline Hook", "pipeline", "", {}),
   GL("Release Hook", "release", "create", {"project.web_url"})}

FedoraDocs ==
  {Fedora("copr.build.start", "", {"build"}), Fedora("copr.build.end", "", {"build"}),
   Fedora("buildsys.task.state.change", "", {"info.state"}),
   Fedora("buildsys.build.state.change", "", {"request"}), Fedora("buildsys.tag", "", {}),
   Fedora("pagure.git.receive", "", {"repo.namespace", "repo.name", "branch", "end_commit"}),
   Fedora("pagure.pull-request.flag.added", "", {"flag"}),
   Fedora("pagure.pull-request.comment.added", "", {"pullrequest"}),
   Fedora("pagure.pull-request.new", "", {"pullrequest"}),
   Fedora("hotness.update.bug.file", "", {}), Fedora(AnityaUpdate, "", {"CentOS"}),
   Fedora("openscanhub.task.started", "", {"known"}),
   Fedora("openscanhub.task.finished", "", {"known"}),
   Fedora("logdetective.analysis", "", {"enabled", "start", "build_system", "known"}),
   Fedora("forgejo.push", "", {"body.ref", "body.after", "body.before", "body.pusher",
                               "heads or tags", "body.repository"}),
   Fedora("forgejo.pull_request", "opened", {"body.pull_request", "body.base", "body.head",
                                             "body.repository"}),
   Fedora("forgejo.issue_comment", "created", {"body.issue", "body.repository", "body.is_pull",
                                    "body.pull_request", "body.base", "body.head"}),
   Fedora("forgejo.issue_comment", "created", {"body.issue", "body.repository"}),
   Fedora("forgejo.action_run_success", "push", {"body.run", "body.run.repository"}),
   Fedora("some.other.topic", "", {})}
TestingFarmDoc == Doc("testing-farm", "results", "", "", {"source=testing-farm", "request_id",
                                                         "details"})

GoodDocs == GithubDocs \cup RerunDocs \cup GitlabDocs \cup FedoraDocs \cup {TestingFarmDoc}
\* A key less, another action, another actor; result of a run of a release.
Variants ==
  UNION {{[d EXCEPT !.has = @ \ {key}] : key \in d.has} : d \in GoodDocs}
  \cup {[d EXCEPT !.actor = a] : d \in GoodDocs, a \in {"us", "nobody"}}
  \cup {[d EXCEPT !.action = "deleted"] : d \in GithubDocs \cup GitlabDocs \cup FedoraDocs}
  \cup {[d EXCEPT !.has = @ \cup {key}] : d \in GoodDocs, key \in {"deleted", "body.deleted"}}

\* ------------------------------------------------------------- comments
Said(prefix, command, args) ==
  [prefix |-> prefix, command |-> command, args |-> args, package |-> "", target |-> ""]
Quiet == Said("", "", {})
CommentDocs == {d \in GoodDocs : parse_message(d) \in Kinds
                                 /\ IsInstance(parse_message(d), "CommentEvent")}
PackitCommands ==
  {"build", "copr-build", "test", "upstream-koji-build", "propose-downstream",
   "pull-from-upstream", "koji-build", "koji-tag", "create-update", "vm-image-build", "help",
   "verify-fas", "something-else"}
Comments ==
  {Said("/packit", c, {}) : c \in PackitCommands}
  \cup {Said("/packit", "build", {"release"}), Said("/packit", "test", {"identifier"}),
        Said("/packit-ci", "scratch-build", {}), Said("/packit-ci", "test", {}), Quiet,
        [Said("/packit", "build", {}) EXCEPT !.package = "pkg"],
        [Said("/packit-ci", "test", {}) EXCEPT !.target = "eln"]}
SaidFor(d) == IF d \in CommentDocs THEN Comments ELSE {Quiet}
MainSaid(d) ==
  CASE d \notin CommentDocs -> {Quiet}
    [] d.source = "fedora-messaging" ->
         {Said("/packit", c, {}) : c \in {"koji-build", "create-update", "pull-from-upstream",
                                          "propose-downstream"}}
           \cup {Said("/packit-ci", "scratch-build", {})}
    [] OTHER -> {Said("/packit", c, {}) : c \in {"build", "create-update", "verify-fas"}}

\* -------------------------------------------------------- configuration
Job(type, trigger, identifier, opts) ==
  [type |-> type, trigger |-> trigger, identifier |-> identifier, opts |-> opts,
   package |-> "pkg"]
UpstreamJobs(trigger) ==
  {Job("copr_build", trigger, <<>>, {}), Job("copr_build", trigger, <<"id1">>, {"package"}),
   Job("tests", trigger, <<>>, {"use_internal_tf"}), Job("tests", trigger, <<"id1">>, {}),
   Job("tests", trigger, <<"id1", "id2">>, {}), Job("tests", trigger, <<"id2">>, {}),
   Job("upstream_koji_build", trigger, <<>>, {"scratch"})}
JobSets ==
  {UpstreamJobs("pull_request") \cup {Job("vm_image_build", "pull_request", <<>>, {}),
     Job("tests", "pull_request", <<>>, {"manual_trigger", "skip_build"}),
     Job("copr_build", "pull_request", <<>>, {"require label"})},
   UpstreamJobs("release") \cup {Job("propose_downstream", "release", <<>>, {}),
     Job("pull_from_upstream", "release", <<>>, {"upstream_tag_include"})},
   UpstreamJobs("commit") \cup {Job("sync_from_downstream", "commit", <<>>, {}),
     Job("koji_build", "commit", <<>>, {"run_condition"}),
     Job("koji_build", "koji_build", <<>>, {"run_condition"}),
     Job("koji_build", "commit", <<>>, {"sidetag_group"}),
     Job("bodhi_update", "commit", <<>>, {}),
     Job("bodhi_update", "koji_build", <<>>, {"sidetag_group", "other deployment"})}}

\* ----------------------------------------------------------- the world
GoodWorld ==
  {"branch configured", "job_build", "job_tests", "can_merge_pr", "packager", "write access",
   "owner and project of the job", "build of the package", "run known", "other pull request ok",
   "group known", "author is named", "committer is named", "owner is named",
   "project to sync", "repo name and namespace", "upstream_project_url", "tag_names",
   "tag included", "builds complete", "condition exits with 0", "rawhide target",
   "copr build of the chroot", "notifications repository", "issue by packit", "sidetag known",
   "labels match", "packit config", "package configured", "rpms namespace", "scratch build",
   "scratch success", "identifier of the comment"}
Exceptions ==
  {"closed", "start time set", "internal tests with build", "DISABLE_INTERNAL_TF",
   "fedora_ci_test", "pagure project", "tag excluded", "actor is admin", "private",
   "enabled for Fedora CI"}
Flip(w, f) == IF f \in w THEN w \ {f} ELSE w \cup {f}
Worlds == {Flip(GoodWorld, f) : f \in GoodWorld \cup Exceptions}
FedoraCIWorlds ==
  {Flip(GoodWorld \cup {"enabled for Fedora CI", "pagure project"}, f) :
     f \in {"", "run known", "fedora_ci_test", "rpms namespace", "scratch build", "packager",
            "pagure project"}}

Entry(project, namespace, host, user) ==
  [n \in {"project", "namespace", "host", "user"} |->
     CASE n = "project" -> project [] n = "namespace" -> namespace
       [] n = "host" -> host [] n = "user" -> user]
Allowed == Entry("none", "approved_automatically", "none", "none")
Allowlists ==
  {Allowed, Entry("none", "none", "none", "none"),
   Entry("none", "waiting", "approved_manually", "none"),
   Entry("denied", "approved_manually", "none", "none"),
   Entry("approved_manually", "denied", "none", "none"),
   Entry("none", "approved_manually", "none", "denied")}

MCChanges == {<<"project", "denied">>, <<"namespace", "approved_manually">>,
              <<"namespace", "none">>, <<"user", "denied">>}

In(docs, saids(_), sets, worlds, entries) ==
  UNION {{[doc |-> d, said |-> s, jobs |-> js, world |-> w, entry |-> entry] :
            s \in saids(d), js \in sets, w \in worlds, entry \in entries} : d \in docs}
OneSet == {CHOOSE js \in JobSets : TRUE}
MCInputs ==
  In({d \in GoodDocs : d.source \in {"github", "gitlab"}}, SaidFor, JobSets, {GoodWorld},
     Allowlists)
  \cup In(GoodDocs \ RerunDocs, MainSaid, JobSets, Worlds, {Allowed})
  \cup In({d \in GoodDocs : d.source \in {"fedora-messaging", "testing-farm"}}, SaidFor,
          JobSets, FedoraCIWorlds, {Allowed})
  \cup In(Variants, LAMBDA d : {Quiet}, OneSet, {GoodWorld}, {Allowed})
=============================================================================
