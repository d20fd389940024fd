------------------------------ MODULE Sidetags ------------------------------
(***************************************************************************)
(* Sidetags of one group and one dist-git branch.  Koji builds and the     *)
(* command to tag a build ask for the sidetag (get_or_create_sidetag); the *)
(* row of the group in the database is locked while Koji makes it.  What   *)
(* gets into a sidetag is announced by Koji, and KojiBuildTagHandler sends *)
(* tasks for the packages that depend on it.                               *)
(*                                                                         *)
(* A build is <<package, version>>.  Its submission is in KojiBuilds; here *)
(* it is done when it is in the sidetag.                                   *)
(***************************************************************************)
EXTENDS Naturals, FiniteSets, SequencesExt

CONSTANTS Packages,
          Dependencies,  \* of the koji_build job of each package
          Dependents,
          BuildJobs,     \* packages whose koji_build job has the trigger koji_build
          Commented,     \* packages that a comment asks to tag
          Stable,        \* [Packages -> Nat]: the version in the stable tag, 0 for none
          MaxVersion,    \* bound on the versions of each package
          MaxTags,       \* bound on the sidetags made
          MaxCalls,      \* bound on the tasks that ask for a sidetag
          MaxFaults      \* bound on the crashes

ASSUME SidetagsAssumption ==
  /\ IsFiniteSet(Packages)
  /\ Dependencies \in [Packages -> SUBSET Packages]
  /\ Dependents \in [Packages -> SUBSET Packages]
  /\ BuildJobs \subseteq Packages /\ Commented \subseteq Packages
  /\ Stable \in [Packages -> Nat] /\ MaxVersion \in [Packages -> Nat]
  /\ \A p \in Packages : Stable[p] <= MaxVersion[p]
  /\ MaxTags \in Nat /\ MaxCalls \in Nat /\ MaxFaults \in Nat

VARIABLES koji_name,  \* SidetagModel.koji_name, 0 for none
          lock,       \* the call that has the row of the group, 0 for none
          tags,       \* the sidetags that Koji has made: [live, builds]
          version,    \* of each package: the version in dist-git
          calls,
          announced,  \* messages of Koji: <<tag, package>>
          faults
sidetagVars == <<koji_name, lock, tags, version, calls, announced, faults>>

Call == [pc : {"new", "locked", "made", "have", "done"}, pkg : Packages,
         command : {"build", "tag"}, tag : 0..MaxTags]
NewCall(command, p) == [pc |-> "new", pkg |-> p, command |-> command, tag |-> 0]
AnyPackage == CHOOSE p \in Packages : TRUE
At(c, pc) == calls[c].pc = pc

Names(builds) == {b[1] : b \in builds}
get_packages(t) == Names(tags[t].builds)
Exists(t) == t # 0 /\ tags[t].live
get_missing_dependencies(t, dependencies) == dependencies \ get_packages(t)

Init ==
  /\ koji_name = 0 /\ lock = 0 /\ tags = <<>>
  /\ version = Stable
  /\ calls = <<>> /\ announced = {} /\ faults = 0

Goto(c, pc, t) == calls' = [calls EXCEPT ![c].pc = pc, ![c].tag = t]
\* Nothing of a call matters any more.
Done(c) == calls' = [calls EXCEPT ![c] = [NewCall("build", AnyPackage) EXCEPT !.pc = "done"]]

\* ----------------------------------------------------- what asks for builds
\* A new version is pushed to dist-git, or a comment asks to tag the package.
Push(p) ==
  /\ version[p] < MaxVersion[p] /\ Len(calls) < MaxCalls
  /\ version' = [version EXCEPT ![p] = @ + 1]
  /\ calls' = Append(calls, NewCall("build", p))
  /\ UNCHANGED <<koji_name, lock, tags, announced, faults>>

TagComment(p) ==
  /\ Len(calls) < MaxCalls
  /\ calls' = Append(calls, NewCall("tag", p))
  /\ UNCHANGED <<koji_name, lock, tags, version, announced, faults>>

\* --------------------------------------------------- get_or_create_sidetag
\* Mutant: the row is read without FOR UPDATE.
LockNothing(c) ==
  /\ At(c, "new")
  /\ Goto(c, "locked", 0)
  /\ UNCHANGED <<koji_name, lock, tags, version, announced, faults>>

\* SELECT ... FOR UPDATE.
Lock(c) ==
  /\ At(c, "new") /\ lock = 0
  /\ lock' = c
  /\ Goto(c, "locked", 0)
  /\ UNCHANGED <<koji_name, tags, version, announced, faults>>

Unlock(c) == lock' = IF lock = c THEN 0 ELSE lock

\* Mutant: what the row names is taken without asking Koji.
FoundInDatabase(c) ==
  /\ At(c, "locked") /\ koji_name # 0
  /\ Goto(c, "have", koji_name) /\ Unlock(c)
  /\ UNCHANGED <<koji_name, tags, version, announced, faults>>

Found(c) ==
  /\ At(c, "locked") /\ Exists(koji_name)
  /\ Goto(c, "have", koji_name) /\ Unlock(c)
  /\ UNCHANGED <<koji_name, tags, version, announced, faults>>

CreateSidetag(c) ==
  /\ At(c, "locked") /\ ~Exists(koji_name) /\ Len(tags) < MaxTags
  /\ tags' = Append(tags, [live |-> TRUE, builds |-> {}])
  /\ Goto(c, "made", Len(tags) + 1)
  /\ UNCHANGED <<koji_name, lock, version, announced, faults>>

CreateFails(c) ==
  /\ At(c, "locked") /\ ~Exists(koji_name)
  /\ Done(c) /\ Unlock(c)
  /\ UNCHANGED <<koji_name, tags, version, announced, faults>>

\* Koji has made it, and its answer is lost.
CreateLost(c) ==
  /\ At(c, "locked") /\ ~Exists(koji_name) /\ Len(tags) < MaxTags /\ faults < MaxFaults
  /\ faults' = faults + 1
  /\ tags' = Append(tags, [live |-> TRUE, builds |-> {}])
  /\ Done(c) /\ Unlock(c)
  /\ UNCHANGED <<koji_name, version, announced>>

Commit(c) ==
  /\ At(c, "made")
  /\ koji_name' = calls[c].tag
  /\ Goto(c, "have", calls[c].tag) /\ Unlock(c)
  /\ UNCHANGED <<tags, version, announced, faults>>

\* -------------------------------------------- what is done with the sidetag
InSidetag(c, build) ==
  /\ tags' = [tags EXCEPT ![calls[c].tag].builds = @ \cup {build}]
  /\ announced' = announced \cup {<<calls[c].tag, calls[c].pkg>>}

\* A build that lacks its dependencies, or whose sidetag is gone, is not made.
Build(c) ==
  /\ At(c, "have") /\ calls[c].command = "build"
  /\ IF /\ get_missing_dependencies(calls[c].tag, Dependencies[calls[c].pkg]) = {}
        /\ tags[calls[c].tag].live
     THEN InSidetag(c, <<calls[c].pkg, version[calls[c].pkg]>>)
     ELSE UNCHANGED <<tags, announced>>
  /\ Done(c)
  /\ UNCHANGED <<koji_name, lock, version, faults>>

\* run_for_branch of TagIntoSidetagHandler.
TagBuild(c) ==
  LET stable == Stable[calls[c].pkg] IN
  /\ At(c, "have") /\ calls[c].command = "tag"
  /\ IF stable # 0 /\ tags[calls[c].tag].live
     THEN InSidetag(c, <<calls[c].pkg, stable>>)
     ELSE UNCHANGED <<tags, announced>>
  /\ Done(c)
  /\ UNCHANGED <<koji_name, lock, version, faults>>

\* Koji removes a sidetag with what is tagged (never the last one of the bound).
RemoveSidetag(t) ==
  /\ tags[t].live /\ t < MaxTags
  /\ tags' = [tags EXCEPT ![t] = [live |-> FALSE, builds |-> {}]]
  /\ UNCHANGED <<koji_name, lock, version, calls, announced, faults>>

\* The worker dies; PostgreSQL rolls back, and the task is delivered again.
Crash(c) ==
  /\ calls[c].pc \in {"locked", "made", "have"} /\ faults < MaxFaults
  /\ faults' = faults + 1
  /\ Goto(c, "new", 0) /\ Unlock(c)
  /\ UNCHANGED <<koji_name, tags, version, announced>>

\* ------------------------------------------------------ KojiBuildTagHandler
\* The dependents of everything in the sidetag; the package itself if it has none.
packages_to_trigger(t, p) ==
  UNION {Dependents[q] : q \in get_packages(t)}
    \cup {q \in {p} \cap get_packages(t) : Dependents[q] = {}}

\* SidetagExists, and a task for each job; TaggedBuildIsNotABuildOfSelf.
KojiBuildTag(t, p) ==
  LET known == t = koji_name /\ Exists(t)
      build == IF known THEN (packages_to_trigger(t, p) \cap BuildJobs) \ {p} ELSE {}
      new == SetToSeq({NewCall("build", q) : q \in build})
  IN /\ <<t, p>> \in announced
     /\ announced' = announced \ {<<t, p>>}
     /\ Len(calls) + Len(new) <= MaxCalls
     /\ calls' = calls \o new
     /\ UNCHANGED <<koji_name, lock, tags, version, faults>>

Ask(c) ==
  \/ Lock(c) \/ Found(c) \/ CreateSidetag(c) \/ CreateFails(c) \/ CreateLost(c) \/ Commit(c)
  \/ Build(c) \/ TagBuild(c) \/ Crash(c)

SidetagStep ==
  \/ \E p \in Packages : Push(p)
  \/ \E p \in Commented : TagComment(p)
  \/ \E c \in DOMAIN calls : Ask(c)
  \/ \E t \in DOMAIN tags : RemoveSidetag(t)

-----------------------------------------------------------------------------
\* Packages of a group are built by tasks on different workers, yet Koji has one
\* sidetag for them: a second one takes a task that died, or got no answer, after the
\* first was made.
OneSidetag == Cardinality({t \in DOMAIN tags : tags[t].live}) <= 1 + faults

Promised == INSTANCE SidetagPerGroup WITH
  Callers <- 1..MaxCalls,
  Tags    <- 1..MaxTags,
  sidetag <- koji_name,
  exists  <- Exists(koji_name),
  got     <- {<<c, calls[c].tag>> : c \in {d \in DOMAIN calls : At(d, "have")}}

\* Whatever the interleaving of callers on several workers, of Koji and of crashes,
\* a caller gets the group's sidetag if Koji still has it, and otherwise a new one
\* that takes its place: to the callers it is one step, although Koji makes the tag
\* before the database has its name, and a crash forgets the tag.
ImplementsPromise == Promised!Spec
=============================================================================
