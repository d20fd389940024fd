------------------------------ MODULE Allowlist ------------------------------
(***************************************************************************)
(* packit_service.worker.allowlist: who is served.  A namespace is a git   *)
(* project ("github.com/packit/packit.git"), one of its parents, or that   *)
(* of a user ("github.com/user").  entry maps it to its status in the      *)
(* table allowlist, "none" without one.  A path is a namespace with its    *)
(* parents, the most specific one first.                                   *)
(***************************************************************************)
EXTENDS Events, Checkers, FiniteSetsExt

Statuses == {"approved_automatically", "approved_manually", "waiting", "denied"}
Approved == {"approved_automatically", "approved_manually"}

\* The first entry that is not waiting decides.
is_namespace_or_parent_approved(entry, path) ==
  LET deciding == {i \in DOMAIN path : entry[path[i]] \notin {"none", "waiting"}}
  IN deciding # {} /\ entry[path[Min(deciding)]] \in Approved

\* Mutant: the parents are not looked at.
is_namespace_or_parent_deniedExact(entry, path) == entry[path[1]] = "denied"

is_namespace_or_parent_denied(entry, path) ==
  \E i \in DOMAIN path : entry[path[i]] = "denied"

is_denied(entry, namespace) == entry[namespace] = "denied"

\* --------------------------------------------- the checks of an event
\* The project of the event and the actor's own namespace.
Path == <<"project", "namespace", "host">>
User == "user"

ApprovedAndNotDenied(entry) ==
  ~is_namespace_or_parent_denied(entry, Path) /\ is_namespace_or_parent_approved(entry, Path)

_check_release_push_event(entry) ==
  IF ApprovedAndNotDenied(entry) THEN "passed" ELSE "refused"

_check_pr_event(entry, e, w) ==
  IF e.actor = "" THEN "raises"
  ELSE IF /\ ~is_denied(entry, User)
          /\ ApprovedAndNotDenied(entry)
          /\ Holds(w, "can_merge_pr") \/ Holds(w, "author of the pull request")
  THEN "passed" ELSE "refused"

_check_issue_and_commit_comment_event(entry, e, w) ==
  IF e.actor = "" THEN "raises"
  ELSE IF /\ ~is_denied(entry, User)
          /\ ApprovedAndNotDenied(entry)
          /\ Holds(w, "can_merge_pr")
  THEN "passed" ELSE "refused"

Unchecked == {"pagure.push.Commit", "pagure.pr.Action", "pagure.pr.Comment", "CoprBuild",
              "testing_farm.Result", "github.installation.Installation", "koji.result.Task",
              "koji.result.Build", "koji.tag.Build", "Rerun", "anitya.NewHotness",
              "openscanhub.task.Started", "openscanhub.task.Finished"}
ReleasePush == {"github.release.Release", "gitlab.release.Release", "github.push.Commit",
                "gitlab.push.Commit"}
PullRequest == {"github.pr.Action", "github.pr.Comment", "gitlab.mr.Action", "gitlab.mr.Comment"}
IssueOrCommitComment == {"github.issue.Comment", "gitlab.issue.Comment", "comment.Commit"}

\* The first callback for the event; an event of another kind raises.
check_and_report(entry, e, w) ==
  LET Is(classes) == \E class \in classes : class \in e.is
  IN CASE e.actor # "" /\ Admin(w) -> "passed"
       [] OTHER ->
            CASE Is(Unchecked) -> "passed"
              [] Is(ReleasePush) -> _check_release_push_event(entry)
              [] Is(PullRequest) -> _check_pr_event(entry, e, w)
              [] Is(IssueOrCommitComment) -> _check_issue_and_commit_comment_event(entry, e, w)
              [] OTHER -> "raises"
=============================================================================
