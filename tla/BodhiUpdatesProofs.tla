------------------------- MODULE BodhiUpdatesProofs -------------------------
(***************************************************************************)
(* Proofs about BodhiUpdates, and so about Sidetags: types, one sidetag    *)
(* (OneSidetag), what its callers are promised (ImplementsPromise), and    *)
(* one update of a build (OneUpdatePerBuild), for any number of packages,  *)
(* calls, tasks, targets, retries and faults.                              *)
(*                                                                         *)
(* Sidetags: the call at "locked" or "made" has the row of the group, so   *)
(* that a live tag is the one the row names, the one that is being made,   *)
(* or an orphan; each orphan took a crash.                                 *)
(*                                                                         *)
(* Updates: a task owns its target and the target it is given for its      *)
(* retry; no two tasks own the same, and what is owned is in progress in   *)
(* the database.  Each update but the lost ones is held by a target in     *)
(* progress for the builds it was made with, that no task owns which could *)
(* still make an update: the check before an update (CheckNvrs) finds it.  *)
(***************************************************************************)
EXTENDS BodhiUpdates, SequenceTheorems, FiniteSetTheorems, TLAPS

Tag == [live : BOOLEAN, builds : SUBSET Nvrs]
UpdateRecord == [made : SUBSET Nvrs, has : SUBSET Nvrs]

LEMMA Constants ==
    /\ MaxTags \in Nat /\ MaxCalls \in Nat /\ MaxFaults \in Nat /\ MaxTasks \in Nat
    /\ MaxTargets \in Nat /\ MaxRetries \in Nat
  BY SidetagsAssumption, BodhiAssumption

LEMMA FreshTask ==
    ASSUME NEW sidetag \in BOOLEAN, NEW nvrs \in SUBSET Nvrs
    PROVE  /\ NewTask(sidetag, nvrs) \in Task
           /\ NewTask(sidetag, nvrs).pc = "new" /\ NewTask(sidetag, nvrs).target = 0
           /\ NewTask(sidetag, nvrs).given = 0
<1>1. 0 \in 0..MaxTags /\ 0 \in 0..MaxTargets /\ 0 \in 0..MaxRetries
  BY Constants
<1>2. {} \in SUBSET Nvrs
  OBVIOUS
<1> QED
  BY <1>1, <1>2 DEF NewTask, Task

-----------------------------------------------------------------------------
(* Sequences                                                               *)

LEMMA Replace ==
    ASSUME NEW S, NEW s \in Seq(S), NEW i \in DOMAIN s, NEW e \in S, NEW t,
           t = [s EXCEPT ![i] = e]
    PROVE  /\ t \in Seq(S) /\ Len(t) = Len(s) /\ DOMAIN t = DOMAIN s
           /\ t[i] = e /\ \A j \in DOMAIN s : j # i => t[j] = s[j]
<1>1. DOMAIN s = 1..Len(s)
  BY LenProperties
<1>2. t \in Seq(S) /\ Len(t) = Len(s)
  BY <1>1, ExceptSeq
<1>3. DOMAIN t = 1..Len(t)
  BY <1>2, LenProperties
<1> QED
  BY <1>1, <1>2, <1>3

LEMMA Extend ==
    ASSUME NEW S, NEW s \in Seq(S), NEW e \in S, NEW t, t = Append(s, e)
    PROVE  /\ t \in Seq(S) /\ Len(t) = Len(s) + 1 /\ Len(s) \in Nat
           /\ DOMAIN s = 1..Len(s) /\ DOMAIN t = 1..(Len(s) + 1)
           /\ t[Len(s) + 1] = e /\ \A j \in DOMAIN s : j \in DOMAIN t /\ t[j] = s[j]
<1>1. DOMAIN s = 1..Len(s) /\ Len(s) \in Nat
  BY LenProperties
<1>2. t \in Seq(S) /\ Len(t) = Len(s) + 1 /\ t[Len(s) + 1] = e /\ \A j \in 1..Len(s) : t[j] = s[j]
  BY AppendProperties
<1>3. DOMAIN t = 1..Len(t)
  BY <1>2, LenProperties
<1> QED
  BY <1>1, <1>2, <1>3

LEMMA ToSeq ==
    ASSUME NEW S, IsFiniteSet(S), NEW T, S \subseteq T
    PROVE  SetToSeq(S) \in Seq(T) /\ \A i \in DOMAIN SetToSeq(S) : SetToSeq(S)[i] \in S
<1>1. Cardinality(S) \in Nat /\ ExistsBijection(1..Cardinality(S), S)
  BY FS_CardinalityType
<1>2. \E f \in [1..Cardinality(S) -> S] : IsInjective(f)
  BY <1>1 DEF ExistsBijection, Bijection, Injection, Surjection, IsInjective
<1>3. SetToSeq(S) \in [1..Cardinality(S) -> S]
  BY <1>2 DEF SetToSeq
<1>4. SetToSeq(S) \in Seq(S)
  BY <1>1, <1>3
<1> QED
  BY <1>3, <1>4, SeqMonotonic

LEMMA GotoCall ==
    ASSUME calls \in Seq(Call), NEW c \in DOMAIN calls, NEW t \in 0..MaxTags,
           NEW pc \in {"new", "locked", "made", "have", "done"}, Goto(c, pc, t)
    PROVE  /\ calls' \in Seq(Call) /\ Len(calls') = Len(calls) /\ DOMAIN calls' = DOMAIN calls
           /\ calls'[c].pc = pc /\ calls'[c].tag = t
           /\ \A d \in DOMAIN calls : d # c => calls'[d] = calls[d]
<1> DEFINE e == [calls[c] EXCEPT !.pc = pc, !.tag = t]
<1>1. calls[c] \in Call
  BY LenProperties, ElementOfSeq
<1>2. e \in Call /\ e.pc = pc /\ e.tag = t
  BY <1>1 DEF Call
<1>3. calls' = [calls EXCEPT ![c] = e]
  BY DEF Goto
<1> HIDE DEF e
<1> QED
  BY <1>2, <1>3, Replace

LEMMA DoneCall ==
    ASSUME calls \in Seq(Call), NEW c \in DOMAIN calls, Done(c)
    PROVE  /\ calls' \in Seq(Call) /\ Len(calls') = Len(calls) /\ DOMAIN calls' = DOMAIN calls
           /\ calls'[c].pc = "done"
           /\ \A d \in DOMAIN calls : d # c => calls'[d] = calls[d]
<1> DEFINE e == [NewCall("build", AnyPackage) EXCEPT !.pc = "done"]
<1>1. calls[c].pkg \in Packages
  <2>1. calls[c] \in Call
    BY LenProperties, ElementOfSeq
  <2> QED
    BY <2>1 DEF Call
<1>2. AnyPackage \in Packages
  BY <1>1 DEF AnyPackage
<1>3. e \in Call /\ e.pc = "done"
  <2> DEFINE new == NewCall("build", AnyPackage)
  <2>1. new \in Call
    BY <1>2, Constants DEF Call, NewCall
  <2>2. e = [new EXCEPT !.pc = "done"]
    OBVIOUS
  <2> HIDE DEF new, e
  <2> QED
    BY <2>1, <2>2 DEF Call
<1>4. calls' = [calls EXCEPT ![c] = e]
  BY DEF Done
<1> HIDE DEF e
<1> QED
  BY <1>3, <1>4, Replace

-----------------------------------------------------------------------------
(* Sidetags                                                                *)

SidetagTypes ==
  /\ tags \in Seq(Tag) /\ Len(tags) <= MaxTags
  /\ calls \in Seq(Call)
  /\ koji_name \in 0..Len(tags) /\ lock \in 0..Len(calls)
  /\ version \in [Packages -> Nat] /\ \A p \in Packages : version[p] <= MaxVersion[p]
  /\ announced \subseteq (DOMAIN tags) \X Packages
  /\ faults \in 0..MaxFaults

\* A call that works on the sidetag has the row, and Koji has not lost the tag it
\* made for one that the row names.
CallTrue(c) ==
  /\ calls[c].pc \in {"made", "have"} => calls[c].tag \in DOMAIN tags
  /\ calls[c].pc \in {"locked", "made"} => lock = c
  /\ calls[c].pc = "made" => ~Exists(koji_name)

CallsTrue == \A c \in DOMAIN calls : CallTrue(c)

\* The sidetags that Koji has, but for the one of the row and the one that is made.
Known == {koji_name} \cup {calls[c].tag : c \in {d \in DOMAIN calls : At(d, "made")}}
Orphans == {t \in DOMAIN tags : tags[t].live} \ Known

SidetagInv == SidetagTypes /\ CallsTrue /\ Cardinality(Orphans) <= faults

SidetagNext ==
  \/ SidetagStep
  \/ \E m \in announced : KojiBuildTag(m[1], m[2])
  \/ /\ UNCHANGED <<koji_name, lock, tags, version, calls, announced>>
     /\ faults' = faults \/ (faults < MaxFaults /\ faults' = faults + 1)

LEMMA Domains ==
    ASSUME SidetagTypes
    PROVE  /\ DOMAIN tags = 1..Len(tags) /\ Len(tags) \in Nat
           /\ DOMAIN calls = 1..Len(calls) /\ Len(calls) \in Nat
           /\ \A c \in DOMAIN calls : calls[c] \in Call
           /\ \A t \in DOMAIN tags : tags[t] \in Tag
  BY LenProperties, ElementOfSeq DEF SidetagTypes

\* A call is added.
LEMMA AddCall ==
    ASSUME SidetagTypes, NEW p \in Packages, NEW command \in {"build", "tag"},
           calls' = Append(calls, NewCall(command, p))
    PROVE  /\ calls' \in Seq(Call) /\ Len(calls') = Len(calls) + 1
           /\ \A c \in DOMAIN calls : c \in DOMAIN calls' /\ calls'[c] = calls[c]
           /\ \A c \in DOMAIN calls' : c \in DOMAIN calls \/ calls'[c].pc = "new"
<1> DEFINE e == NewCall(command, p)
<1>1. e \in Call /\ e.pc = "new"
  BY Constants DEF NewCall, Call
<1>2. calls \in Seq(Call) /\ calls' = Append(calls, e)
  BY DEF SidetagTypes
<1> HIDE DEF e
<1> QED
  BY <1>1, <1>2, Extend

LEMMA AddCalls ==
    ASSUME SidetagTypes, NEW t, NEW p, KojiBuildTag(t, p)
    PROVE  /\ calls' \in Seq(Call) /\ Len(calls') >= Len(calls) /\ Len(calls') <= MaxCalls
           /\ \A c \in DOMAIN calls : c \in DOMAIN calls' /\ calls'[c] = calls[c]
           /\ \A c \in DOMAIN calls' : c \in DOMAIN calls \/ calls'[c].pc = "new"
<1> DEFINE known == t = koji_name /\ Exists(t)
           build == IF known THEN (packages_to_trigger(t, p) \cap BuildJobs) \ {p} ELSE {}
           S == {NewCall("build", q) : q \in build}
           new == SetToSeq(S)
<1>1. build \subseteq Packages
  BY SidetagsAssumption
<1>2. IsFiniteSet(build)
  BY <1>1, SidetagsAssumption, FS_Subset
<1>3. IsFiniteSet(S)
  <2> DEFINE f == [q \in build |-> NewCall("build", q)]
  <2> HIDE DEF build
  <2>1. f \in Surjection(build, S)
    BY DEF Surjection
  <2> QED
    BY <1>2, <2>1, FS_Surjection DEF ExistsSurjection
<1>4. \A e \in S : e \in Call /\ e.pc = "new"
  <2> HIDE DEF build
  <2> QED
    BY <1>1, Constants DEF NewCall, Call
<1> HIDE DEF S
<1>5. new \in Seq(Call) /\ \A i \in DOMAIN new : new[i].pc = "new"
  BY <1>3, <1>4, ToSeq
<1>6. calls' = calls \o new /\ Len(calls) + Len(new) <= MaxCalls
  BY DEF KojiBuildTag, S
<1> HIDE DEF new
<1>7. /\ calls \in Seq(Call) /\ Len(calls) \in Nat /\ Len(new) \in Nat
      /\ DOMAIN calls = 1..Len(calls) /\ DOMAIN new = 1..Len(new)
  BY <1>5, LenProperties DEF SidetagTypes
<1>8. /\ calls' \in Seq(Call) /\ Len(calls') = Len(calls) + Len(new)
      /\ \A i \in 1..(Len(calls) + Len(new)) :
            calls'[i] = IF i <= Len(calls) THEN calls[i] ELSE new[i - Len(calls)]
  BY <1>5, <1>6, <1>7, ConcatProperties
<1>9. DOMAIN calls' = 1..(Len(calls) + Len(new))
  BY <1>8, LenProperties
<1>10. \A c \in DOMAIN calls' : c \in DOMAIN calls \/ calls'[c].pc = "new"
  <2> SUFFICES ASSUME NEW c \in DOMAIN calls', c \notin DOMAIN calls PROVE calls'[c].pc = "new"
    OBVIOUS
  <2>1. c - Len(calls) \in DOMAIN new /\ calls'[c] = new[c - Len(calls)]
    BY <1>7, <1>8, <1>9
  <2> QED
    BY <1>5, <2>1
<1> QED
  BY <1>6, <1>7, <1>8, <1>9, <1>10

\* What a step with a sidetag keeps, but for a crash.
SidetagKept == SidetagTypes' /\ CallsTrue' /\ Orphans' \subseteq Orphans

\* Calls are added that have done nothing yet.
LEMMA CallsAdded ==
    ASSUME SidetagTypes, CallsTrue, UNCHANGED <<koji_name, lock, tags, faults>>,
           calls' \in Seq(Call), Len(calls') >= Len(calls),
           \A c \in DOMAIN calls : c \in DOMAIN calls' /\ calls'[c] = calls[c],
           \A c \in DOMAIN calls' : c \in DOMAIN calls \/ calls'[c].pc = "new",
           version' \in [Packages -> Nat], \A p \in Packages : version'[p] <= MaxVersion[p],
           announced' \subseteq announced
    PROVE  SidetagKept
<1>1. Len(calls') \in Nat /\ Len(calls) \in Nat
  BY LenProperties DEF SidetagTypes
<1>2. SidetagTypes'
  BY <1>1 DEF SidetagTypes
<1>3. CallsTrue'
  BY DEF CallsTrue, CallTrue, Exists
<1>4. Orphans' \subseteq Orphans
  BY DEF Orphans, Known, At
<1> QED
  BY <1>2, <1>3, <1>4 DEF SidetagKept

\* A call goes on, and Koji and the row stay.
LEMMA CallMoves ==
    ASSUME SidetagTypes, CallsTrue, UNCHANGED <<koji_name, tags, version, announced, faults>>,
           NEW c \in DOMAIN calls,
           calls' \in Seq(Call), Len(calls') = Len(calls), DOMAIN calls' = DOMAIN calls,
           \A d \in DOMAIN calls : d # c => calls'[d] = calls[d],
           calls[c].pc # "made", CallTrue(c)',
           \A d \in DOMAIN calls : d # c /\ lock = d => lock' = d,
           lock' \in 0..Len(calls)
    PROVE  SidetagKept
<1>1. SidetagTypes'
  BY DEF SidetagTypes
<1>2. CallsTrue'
  BY DEF CallsTrue, CallTrue, Exists
<1>3. Orphans' \subseteq Orphans
  BY DEF Orphans, Known, At
<1> QED
  BY <1>1, <1>2, <1>3 DEF SidetagKept

LEMMA CallSteps ==
    ASSUME SidetagTypes, CallsTrue, NEW c \in DOMAIN calls,
           Lock(c) \/ Found(c) \/ CreateFails(c)
    PROVE  SidetagKept
<1>1. /\ DOMAIN calls = 1..Len(calls) /\ Len(calls) \in Nat /\ calls \in Seq(Call)
      /\ MaxTags \in Nat /\ Len(tags) \in Nat /\ Len(tags) <= MaxTags
      /\ koji_name \in 0..Len(tags) /\ DOMAIN tags = 1..Len(tags)
  BY Domains, Constants DEF SidetagTypes
<1>2. CASE Lock(c)
  <2>1. Goto(c, "locked", 0) /\ lock = 0 /\ lock' = c /\ calls[c].pc = "new"
        /\ UNCHANGED <<koji_name, tags, version, announced, faults>>
    BY <1>2 DEF Lock, At
  <2>2. /\ calls' \in Seq(Call) /\ Len(calls') = Len(calls) /\ DOMAIN calls' = DOMAIN calls
        /\ calls'[c].pc = "locked" /\ \A d \in DOMAIN calls : d # c => calls'[d] = calls[d]
    BY <1>1, <2>1, GotoCall
  <2>3. CallTrue(c)'
    BY <2>1, <2>2 DEF CallTrue
  <2>4. \A d \in DOMAIN calls : d # c /\ lock = d => lock' = d
    BY <1>1, <2>1
  <2>5. lock' \in 0..Len(calls)
    BY <1>1, <2>1
  <2> QED
    BY <2>1, <2>2, <2>3, <2>4, <2>5, CallMoves
<1>3. CASE Found(c)
  <2>1. Goto(c, "have", koji_name) /\ calls[c].pc = "locked" /\ lock' \in {0, lock}
        /\ (lock # c => lock' = lock) /\ Exists(koji_name)
        /\ UNCHANGED <<koji_name, tags, version, announced, faults>>
    BY <1>3 DEF Found, At, Unlock
  <2>2. /\ calls' \in Seq(Call) /\ Len(calls') = Len(calls) /\ DOMAIN calls' = DOMAIN calls
        /\ calls'[c].pc = "have" /\ calls'[c].tag = koji_name
        /\ \A d \in DOMAIN calls : d # c => calls'[d] = calls[d]
    BY <1>1, <2>1, GotoCall
  <2>3. CallTrue(c)'
    BY <1>1, <2>1, <2>2 DEF CallTrue, Exists
  <2>4. lock' \in 0..Len(calls)
    BY <1>1, <2>1 DEF SidetagTypes
  <2> QED
    BY <2>1, <2>2, <2>3, <2>4, CallMoves
<1>4. CASE CreateFails(c)
  <2>1. Done(c) /\ calls[c].pc = "locked" /\ lock' \in {0, lock} /\ (lock # c => lock' = lock)
        /\ UNCHANGED <<koji_name, tags, version, announced, faults>>
    BY <1>4 DEF CreateFails, At, Unlock
  <2>2. /\ calls' \in Seq(Call) /\ Len(calls') = Len(calls) /\ DOMAIN calls' = DOMAIN calls
        /\ calls'[c].pc = "done" /\ \A d \in DOMAIN calls : d # c => calls'[d] = calls[d]
    BY <1>1, <2>1, DoneCall
  <2>3. CallTrue(c)'
    BY <2>2 DEF CallTrue
  <2>4. lock' \in 0..Len(calls)
    BY <1>1, <2>1 DEF SidetagTypes
  <2> QED
    BY <2>1, <2>2, <2>3, <2>4, CallMoves
<1> QED
  BY <1>2, <1>3, <1>4

\* Only the call that has the row is at "locked" or "made".
LEMMA OneHasTheRow ==
    ASSUME CallsTrue, NEW c \in DOMAIN calls, calls[c].pc \in {"locked", "made"}
    PROVE  lock = c /\ \A d \in DOMAIN calls : d # c => calls[d].pc \notin {"locked", "made"}
  BY DEF CallsTrue, CallTrue

LEMMA CreateStep ==
    ASSUME SidetagTypes, CallsTrue, NEW c \in DOMAIN calls, CreateSidetag(c)
    PROVE  SidetagKept
<1>0. tags \in Seq(Tag)
  BY DEF SidetagTypes
<1>1. /\ DOMAIN calls = 1..Len(calls) /\ Len(calls) \in Nat /\ calls \in Seq(Call)
      /\ MaxTags \in Nat /\ Len(tags) \in Nat /\ Len(tags) < MaxTags
      /\ koji_name \in 0..Len(tags) /\ DOMAIN tags = 1..Len(tags)
  BY Domains, Constants DEF SidetagTypes, CreateSidetag
<1> DEFINE n == Len(tags) + 1
           e == [live |-> TRUE, builds |-> {}]
<1>2. Goto(c, "made", n) /\ calls[c].pc = "locked" /\ ~Exists(koji_name) /\ tags' = Append(tags, e)
      /\ UNCHANGED <<koji_name, lock, version, announced, faults>>
  BY DEF CreateSidetag, At
<1>3. lock = c /\ \A d \in DOMAIN calls : d # c => calls[d].pc \notin {"locked", "made"}
  BY <1>2, OneHasTheRow
<1>4. /\ calls' \in Seq(Call) /\ Len(calls') = Len(calls) /\ DOMAIN calls' = DOMAIN calls
      /\ calls'[c].pc = "made" /\ calls'[c].tag = n
      /\ \A d \in DOMAIN calls : d # c => calls'[d] = calls[d]
  BY <1>1, <1>2, GotoCall
<1>5. e \in Tag
  BY DEF Tag
<1> HIDE DEF e
<1>6. /\ tags' \in Seq(Tag) /\ Len(tags') = n /\ DOMAIN tags' = 1..n
      /\ \A t \in DOMAIN tags : tags'[t] = tags[t]
  BY <1>0, <1>1, <1>2, <1>5, Extend
<1>7. SidetagTypes'
  BY <1>1, <1>2, <1>4, <1>6 DEF SidetagTypes
<1>8. ~Exists(koji_name)'
  BY <1>1, <1>2, <1>6 DEF Exists
<1>9. CallsTrue'
  BY <1>1, <1>2, <1>3, <1>4, <1>6, <1>8 DEF CallsTrue, CallTrue
<1>10. Orphans' \subseteq Orphans
  BY <1>1, <1>2, <1>3, <1>4, <1>6 DEF Orphans, Known, At
<1> QED
  BY <1>7, <1>9, <1>10 DEF SidetagKept

LEMMA CommitStep ==
    ASSUME SidetagTypes, CallsTrue, NEW c \in DOMAIN calls, Commit(c)
    PROVE  SidetagKept
<1>1. /\ DOMAIN calls = 1..Len(calls) /\ Len(calls) \in Nat /\ calls \in Seq(Call)
      /\ MaxTags \in Nat /\ Len(tags) \in Nat /\ Len(tags) <= MaxTags
      /\ koji_name \in 0..Len(tags) /\ DOMAIN tags = 1..Len(tags)
  BY Domains, Constants DEF SidetagTypes
<1> DEFINE t == calls[c].tag
<1>2. Goto(c, "have", t) /\ calls[c].pc = "made" /\ koji_name' = t /\ lock' \in {0, lock}
      /\ UNCHANGED <<tags, version, announced, faults>>
  BY DEF Commit, At, Unlock
<1>3. lock = c /\ \A d \in DOMAIN calls : d # c => calls[d].pc \notin {"locked", "made"}
  BY <1>2, OneHasTheRow
<1>4. t \in DOMAIN tags /\ ~Exists(koji_name)
  BY <1>2 DEF CallsTrue, CallTrue
<1> HIDE DEF t
<1>5. /\ calls' \in Seq(Call) /\ Len(calls') = Len(calls) /\ DOMAIN calls' = DOMAIN calls
      /\ calls'[c].pc = "have" /\ calls'[c].tag = t
      /\ \A d \in DOMAIN calls : d # c => calls'[d] = calls[d]
  <2>1. t \in 0..MaxTags
    BY <1>1, <1>4
  <2> QED
    BY <1>1, <1>2, <2>1, GotoCall
<1>6. SidetagTypes'
  BY <1>1, <1>2, <1>4, <1>5 DEF SidetagTypes
<1>7. CallsTrue'
  BY <1>2, <1>3, <1>4, <1>5 DEF CallsTrue, CallTrue
<1>8. Orphans' \subseteq Orphans
  <2> SUFFICES ASSUME NEW x \in Orphans' PROVE x \notin Known
    BY <1>2 DEF Orphans
  <2>1. x \in DOMAIN tags /\ tags[x].live /\ x # t /\ x # 0
    BY <1>1, <1>2 DEF Orphans, Known
  <2>2. x # koji_name
    BY <1>4, <2>1 DEF Exists
  <2> QED
    BY <1>2, <1>3, <2>1, <2>2 DEF Known, At, t
<1> QED
  BY <1>6, <1>7, <1>8 DEF SidetagKept

\* The tags stay, and those that are live now were live.
LEMMA TagsKept ==
    ASSUME SidetagTypes, NEW t \in DOMAIN tags, NEW e \in Tag, tags' = [tags EXCEPT ![t] = e],
           e.live => tags[t].live
    PROVE  /\ tags' \in Seq(Tag) /\ Len(tags') = Len(tags) /\ DOMAIN tags' = DOMAIN tags
           /\ \A x \in DOMAIN tags : tags'[x].live => tags[x].live
<1>1. tags \in Seq(Tag)
  BY DEF SidetagTypes
<1> QED
  BY <1>1, Replace

\* A build is put into the sidetag, or not; nothing of the call matters any more.
LEMMA BuildSteps ==
    ASSUME SidetagTypes, CallsTrue, NEW c \in DOMAIN calls, Build(c) \/ TagBuild(c)
    PROVE  SidetagKept
<1>1. /\ DOMAIN calls = 1..Len(calls) /\ Len(calls) \in Nat /\ calls \in Seq(Call)
      /\ DOMAIN tags = 1..Len(tags) /\ Len(tags) \in Nat
      /\ calls[c] \in Call /\ \A t \in DOMAIN tags : tags[t] \in Tag
  BY Domains DEF SidetagTypes
<1> DEFINE t == calls[c].tag
           p == calls[c].pkg
<1>2. calls[c].pc = "have" /\ Done(c) /\ UNCHANGED <<koji_name, lock, version, faults>>
      /\ t \in DOMAIN tags /\ p \in Packages
  BY <1>1 DEF Build, TagBuild, At, CallsTrue, CallTrue, Call
<1>3. /\ calls' \in Seq(Call) /\ Len(calls') = Len(calls) /\ DOMAIN calls' = DOMAIN calls
      /\ calls'[c].pc = "done" /\ \A d \in DOMAIN calls : d # c => calls'[d] = calls[d]
  BY <1>1, <1>2, DoneCall
<1>4. \/ UNCHANGED <<tags, announced>>
      \/ InSidetag(c, <<p, version[p]>>)
      \/ InSidetag(c, <<p, Stable[p]>>)
  BY DEF Build, TagBuild
<1>5. ASSUME NEW v \in {version[p], Stable[p]} PROVE <<p, v>> \in Nvrs
  <2>1. v \in Nat /\ MaxVersion[p] \in Nat /\ v <= MaxVersion[p]
    BY <1>2, SidetagsAssumption DEF SidetagTypes
  <2>2. v \in 0..MaxVersion[p]
    BY <2>1
  <2>3. <<p, v>> \in {p} \X (0..MaxVersion[p])
    BY <2>2
  <2> QED
    BY <1>2, <2>3, Zenon DEF Nvrs
<1>6. /\ tags' \in Seq(Tag) /\ Len(tags') = Len(tags) /\ DOMAIN tags' = DOMAIN tags
      /\ \A x \in DOMAIN tags : tags'[x].live => tags[x].live
      /\ announced' \subseteq announced \cup {<<t, p>>}
  <2>1. CASE UNCHANGED <<tags, announced>>
    BY <2>1 DEF SidetagTypes
  <2>2. ASSUME NEW v \in {version[p], Stable[p]}, InSidetag(c, <<p, v>>)
        PROVE  /\ tags' \in Seq(Tag) /\ Len(tags') = Len(tags) /\ DOMAIN tags' = DOMAIN tags
               /\ \A x \in DOMAIN tags : tags'[x].live => tags[x].live
               /\ announced' = announced \cup {<<t, p>>}
    <3> DEFINE b == <<p, v>>
               e == [tags[t] EXCEPT !.builds = @ \cup {b}]
    <3>1. b \in Nvrs /\ tags[t] \in Tag
      BY <1>1, <1>2, <1>5
    <3>2. tags' = [tags EXCEPT ![t] = e] /\ announced' = announced \cup {<<t, p>>}
      BY <2>2 DEF InSidetag
    <3> HIDE DEF b
    <3>3. e \in Tag /\ e.live = tags[t].live
      BY <3>1 DEF Tag
    <3> HIDE DEF e, t
    <3> QED
      BY <1>2, <3>2, <3>3, TagsKept
  <2> QED
    BY <1>4, <2>1, <2>2
<1>7. <<t, p>> \in (DOMAIN tags) \X Packages
  BY <1>2
<1> HIDE DEF t, p
<1>8. SidetagTypes'
  BY <1>2, <1>3, <1>6, <1>7 DEF SidetagTypes
<1>9. CallsTrue'
  <2>1. koji_name \in 0..Len(tags)
    BY DEF SidetagTypes
  <2>2. ~Exists(koji_name) => ~Exists(koji_name)'
    BY <1>1, <1>2, <1>6, <2>1 DEF Exists
  <2> QED
    BY <1>2, <1>3, <1>6, <2>2 DEF CallsTrue, CallTrue
<1>10. Orphans' \subseteq Orphans
  BY <1>2, <1>3, <1>6 DEF Orphans, Known, At
<1> QED
  BY <1>8, <1>9, <1>10 DEF SidetagKept

LEMMA RemoveStep ==
    ASSUME SidetagTypes, CallsTrue, NEW t \in DOMAIN tags, RemoveSidetag(t)
    PROVE  SidetagKept
<1> DEFINE e == [live |-> FALSE, builds |-> {}]
<1>1. e \in Tag /\ ~e.live
  BY DEF Tag
<1>2. tags' = [tags EXCEPT ![t] = e] /\ UNCHANGED <<koji_name, lock, version, calls, announced, faults>>
  BY DEF RemoveSidetag
<1> HIDE DEF e
<1>3. /\ tags' \in Seq(Tag) /\ Len(tags') = Len(tags) /\ DOMAIN tags' = DOMAIN tags
      /\ \A x \in DOMAIN tags : tags'[x].live => tags[x].live
  BY <1>1, <1>2, TagsKept
<1>4. DOMAIN tags = 1..Len(tags) /\ koji_name \in 0..Len(tags) /\ Len(tags) \in Nat
  BY Domains DEF SidetagTypes
<1>5. SidetagTypes'
  BY <1>2, <1>3 DEF SidetagTypes
<1>6. CallsTrue'
  <2>1. ~Exists(koji_name) => ~Exists(koji_name)'
    BY <1>2, <1>3, <1>4 DEF Exists
  <2> QED
    BY <1>2, <1>3, <2>1 DEF CallsTrue, CallTrue
<1>7. Orphans' \subseteq Orphans
  BY <1>2, <1>3 DEF Orphans, Known, At
<1> QED
  BY <1>5, <1>6, <1>7 DEF SidetagKept

\* A call that dies loses the tag it has made.
LEMMA CrashStep ==
    ASSUME SidetagTypes, CallsTrue, NEW c \in DOMAIN calls, Crash(c)
    PROVE  /\ SidetagTypes' /\ CallsTrue' /\ faults' = faults + 1
           /\ \E t : Orphans' \subseteq Orphans \cup {t}
<1>1. /\ DOMAIN calls = 1..Len(calls) /\ Len(calls) \in Nat /\ calls \in Seq(Call)
      /\ MaxTags \in Nat /\ MaxFaults \in Nat
  BY Domains, Constants DEF SidetagTypes
<1>2. /\ Goto(c, "new", 0) /\ faults' = faults + 1 /\ faults < MaxFaults /\ lock' \in {0, lock}
      /\ (lock # c => lock' = lock) /\ UNCHANGED <<koji_name, tags, version, announced>>
  BY DEF Crash, Unlock
<1>3. /\ calls' \in Seq(Call) /\ Len(calls') = Len(calls) /\ DOMAIN calls' = DOMAIN calls
      /\ calls'[c].pc = "new" /\ \A d \in DOMAIN calls : d # c => calls'[d] = calls[d]
  BY <1>1, <1>2, GotoCall
<1>4. SidetagTypes'
  BY <1>1, <1>2, <1>3 DEF SidetagTypes
<1>5. CallsTrue'
  BY <1>2, <1>3 DEF CallsTrue, CallTrue, Exists
<1>6. Orphans' \subseteq Orphans \cup {calls[c].tag}
  BY <1>2, <1>3 DEF Orphans, Known, At
<1> QED
  BY <1>2, <1>4, <1>5, <1>6

\* Nobody has the tag that Koji has made without an answer.
LEMMA CreateLostStep ==
    ASSUME SidetagTypes, CallsTrue, NEW c \in DOMAIN calls, CreateLost(c)
    PROVE  /\ SidetagTypes' /\ CallsTrue' /\ faults' = faults + 1
           /\ \E t : Orphans' \subseteq Orphans \cup {t}
<1>0. tags \in Seq(Tag)
  BY DEF SidetagTypes
<1>1. /\ DOMAIN calls = 1..Len(calls) /\ Len(calls) \in Nat /\ calls \in Seq(Call)
      /\ MaxTags \in Nat /\ MaxFaults \in Nat /\ Len(tags) \in Nat /\ Len(tags) <= MaxTags
      /\ koji_name \in 0..Len(tags) /\ DOMAIN tags = 1..Len(tags)
  BY Domains, Constants DEF SidetagTypes
<1> DEFINE e == [live |-> TRUE, builds |-> {}]
           n == Len(tags) + 1
<1>2. /\ tags' = Append(tags, e) /\ Len(tags) < MaxTags /\ Done(c) /\ lock' \in {0, lock}
      /\ (lock # c => lock' = lock) /\ faults' = faults + 1 /\ faults < MaxFaults
      /\ calls[c].pc = "locked" /\ UNCHANGED <<koji_name, version, announced>>
  BY DEF CreateLost, Unlock, At
<1>3. e \in Tag
  BY DEF Tag
<1> HIDE DEF e
<1>4. /\ tags' \in Seq(Tag) /\ Len(tags') = n /\ DOMAIN tags' = 1..n
      /\ \A t \in DOMAIN tags : t \in DOMAIN tags' /\ tags'[t] = tags[t]
  BY <1>0, <1>2, <1>3, Extend
<1>5. /\ calls' \in Seq(Call) /\ Len(calls') = Len(calls) /\ DOMAIN calls' = DOMAIN calls
      /\ calls'[c].pc = "done" /\ \A d \in DOMAIN calls : d # c => calls'[d] = calls[d]
  BY <1>1, <1>2, DoneCall
<1>6. SidetagTypes'
  <2>1. announced' \subseteq (DOMAIN tags') \X Packages
    BY <1>1, <1>2, <1>4 DEF SidetagTypes
  <2>2. Len(tags') <= MaxTags /\ koji_name' \in 0..Len(tags')
    BY <1>1, <1>2, <1>4
  <2>3. faults' \in 0..MaxFaults /\ lock' \in 0..Len(calls')
    BY <1>1, <1>2, <1>5 DEF SidetagTypes
  <2> QED
    BY <1>2, <1>4, <1>5, <2>1, <2>2, <2>3 DEF SidetagTypes
<1>7. Exists(koji_name)' = Exists(koji_name)
  BY <1>1, <1>2, <1>4 DEF Exists
<1>8. CallsTrue'
  BY <1>2, <1>4, <1>5, <1>7 DEF CallsTrue, CallTrue
<1>9. Orphans' \subseteq Orphans \cup {n}
  <2>1. \A t \in DOMAIN tags' : t \in DOMAIN tags \/ t = n
    BY <1>1, <1>4
  <2>2. Known \subseteq Known'
    BY <1>2, <1>5 DEF Known, At
  <2> HIDE DEF n
  <2> QED
    BY <1>4, <2>1, <2>2 DEF Orphans
<1> QED
  BY <1>2, <1>6, <1>8, <1>9

\* A tag that the row does not name takes a call that died, or got no answer.
LEMMA SidetagsNext == SidetagInv /\ SidetagNext => SidetagInv'
<1> SUFFICES ASSUME SidetagInv, SidetagNext PROVE SidetagInv'
  OBVIOUS
<1> USE DEF SidetagInv
<1>1. faults \in Nat /\ MaxFaults \in Nat
  BY Constants DEF SidetagTypes
<1>2. IsFiniteSet(Orphans) /\ Cardinality(Orphans) \in Nat
  <2>1. IsFiniteSet(DOMAIN tags)
    BY Domains, FS_Interval
  <2>2. Orphans \subseteq DOMAIN tags
    BY DEF Orphans
  <2> QED
    BY <2>1, <2>2, FS_Subset, FS_CardinalityType
<1>3. ASSUME SidetagKept, faults' \in Nat, faults <= faults' PROVE SidetagInv'
  <2>1. Cardinality(Orphans') <= Cardinality(Orphans) /\ Cardinality(Orphans') \in Nat
    BY <1>2, <1>3, FS_Subset, FS_CardinalityType DEF SidetagKept
  <2> QED
    BY <1>1, <1>2, <1>3, <2>1 DEF SidetagKept
<1>4. ASSUME NEW p \in Packages, Push(p) PROVE SidetagInv'
  <2>1. /\ calls' \in Seq(Call) /\ Len(calls') = Len(calls) + 1
        /\ \A c \in DOMAIN calls : c \in DOMAIN calls' /\ calls'[c] = calls[c]
        /\ \A c \in DOMAIN calls' : c \in DOMAIN calls \/ calls'[c].pc = "new"
    BY <1>4, AddCall DEF Push
  <2>2. version' \in [Packages -> Nat] /\ \A q \in Packages : version'[q] <= MaxVersion[q]
    <3>1. /\ version \in [Packages -> Nat] /\ \A q \in Packages : version[q] <= MaxVersion[q]
          /\ version' = [version EXCEPT ![p] = version[p] + 1] /\ version[p] < MaxVersion[p]
      BY <1>4 DEF Push, SidetagTypes
    <3>2. version[p] \in Nat /\ MaxVersion[p] \in Nat
      BY <3>1, SidetagsAssumption
    <3>3. version[p] + 1 \in Nat /\ version[p] + 1 <= MaxVersion[p]
      BY <3>1, <3>2
    <3> QED
      BY <3>1, <3>3
  <2>3. UNCHANGED <<koji_name, lock, tags, announced, faults>>
    BY <1>4 DEF Push
  <2>4. Len(calls) \in Nat
    BY Domains
  <2> QED
    BY <1>1, <1>3, <2>1, <2>2, <2>3, <2>4, CallsAdded
<1>5. ASSUME NEW p \in Packages, TagComment(p) PROVE SidetagInv'
  <2>1. /\ calls' \in Seq(Call) /\ Len(calls') = Len(calls) + 1
        /\ \A c \in DOMAIN calls : c \in DOMAIN calls' /\ calls'[c] = calls[c]
        /\ \A c \in DOMAIN calls' : c \in DOMAIN calls \/ calls'[c].pc = "new"
    BY <1>5, AddCall DEF TagComment
  <2>2. UNCHANGED <<koji_name, lock, tags, version, announced, faults>>
    BY <1>5 DEF TagComment
  <2>3. Len(calls) \in Nat
    BY Domains
  <2> QED
    BY <1>1, <1>3, <2>1, <2>2, <2>3, CallsAdded DEF SidetagTypes
<1>6. ASSUME NEW t, NEW p, KojiBuildTag(t, p) PROVE SidetagInv'
  <2>1. /\ calls' \in Seq(Call) /\ Len(calls') >= Len(calls)
        /\ \A c \in DOMAIN calls : c \in DOMAIN calls' /\ calls'[c] = calls[c]
        /\ \A c \in DOMAIN calls' : c \in DOMAIN calls \/ calls'[c].pc = "new"
    BY <1>6, AddCalls
  <2>2. UNCHANGED <<koji_name, lock, tags, version, faults>> /\ announced' \subseteq announced
    BY <1>6 DEF KojiBuildTag
  <2> QED
    BY <1>1, <1>3, <2>1, <2>2, CallsAdded DEF SidetagTypes
<1>7. ASSUME NEW c \in DOMAIN calls, Lock(c) \/ Found(c) \/ CreateFails(c) \/ CreateSidetag(c)
                                     \/ Commit(c) \/ Build(c) \/ TagBuild(c)
      PROVE  SidetagInv'
  <2>1. faults' = faults
    BY <1>7 DEF Lock, Found, CreateFails, CreateSidetag, Commit, Build, TagBuild
  <2>2. SidetagKept
    BY <1>7, CallSteps, CreateStep, CommitStep, BuildSteps
  <2> QED
    BY <1>1, <1>3, <2>1, <2>2
<1>8. ASSUME NEW c \in DOMAIN calls, Crash(c) \/ CreateLost(c) PROVE SidetagInv'
  <2>1. /\ SidetagTypes' /\ CallsTrue' /\ faults' = faults + 1
    BY <1>8, CrashStep, CreateLostStep
  <2>2. PICK t : Orphans' \subseteq Orphans \cup {t}
    BY <1>8, CrashStep, CreateLostStep
  <2> DEFINE old == Orphans
  <2>3. IsFiniteSet(old \cup {t}) /\ Cardinality(old \cup {t}) \in Nat
        /\ Cardinality(old \cup {t}) <= Cardinality(old) + 1
    <3>1. IsFiniteSet(old) /\ Cardinality(old) \in Nat
      BY <1>2
    <3> HIDE DEF old
    <3>2. /\ IsFiniteSet(old \cup {t})
          /\ Cardinality(old \cup {t}) = IF t \in old THEN Cardinality(old) ELSE Cardinality(old) + 1
      BY <3>1, FS_AddElement
    <3> QED
      BY <3>1, <3>2
  <2>4. Cardinality(Orphans') <= Cardinality(Orphans \cup {t}) /\ Cardinality(Orphans') \in Nat
    BY <2>2, <2>3, FS_Subset, FS_CardinalityType
  <2> QED
    BY <1>1, <1>2, <2>1, <2>3, <2>4
<1>9. ASSUME NEW t \in DOMAIN tags, RemoveSidetag(t) PROVE SidetagInv'
  <2>1. faults' = faults
    BY <1>9 DEF RemoveSidetag
  <2> QED
    BY <1>1, <1>3, <1>9, <2>1, RemoveStep
<1>10. CASE /\ UNCHANGED <<koji_name, lock, tags, version, calls, announced>>
            /\ faults' = faults \/ (faults < MaxFaults /\ faults' = faults + 1)
  <2>1. SidetagTypes' /\ CallsTrue' /\ Orphans' = Orphans
    BY <1>1, <1>10 DEF SidetagTypes, CallsTrue, CallTrue, Exists, Orphans, Known, At
  <2> QED
    BY <1>1, <1>3, <1>10, <2>1 DEF SidetagKept
<1> QED
  BY <1>4, <1>5, <1>6, <1>7, <1>8, <1>9, <1>10, SidetagsAssumption DEF SidetagNext, SidetagStep, Ask

\* One live tag that the row names or that is made, and the orphans.
LEMMA OneIsKnown == SidetagInv => OneSidetag
<1> SUFFICES ASSUME SidetagInv PROVE OneSidetag
  OBVIOUS
<1> DEFINE live == {t \in DOMAIN tags : tags[t].live}
           old == Orphans
<1>1. /\ IsFiniteSet(live) /\ IsFiniteSet(old)
      /\ Cardinality(live) \in Nat /\ Cardinality(old) \in Nat
  <2>1. IsFiniteSet(DOMAIN tags)
    BY Domains, FS_Interval DEF SidetagInv
  <2>2. live \subseteq DOMAIN tags /\ old \subseteq DOMAIN tags
    BY DEF Orphans
  <2> QED
    BY <2>1, <2>2, FS_Subset, FS_CardinalityType
<1>2. \E t : live \subseteq old \cup {t}
  <2>1. CASE Exists(koji_name)
    <3>1. \A c \in DOMAIN calls : calls[c].pc # "made"
      BY <2>1 DEF SidetagInv, CallsTrue, CallTrue
    <3> QED
      BY <3>1 DEF Orphans, Known, At
  <2>2. CASE ~Exists(koji_name)
    <3>1. \A t \in live : t # koji_name
      <4>1. 0 \notin DOMAIN tags
        BY Domains DEF SidetagInv
      <4> QED
        BY <2>2, <4>1 DEF Exists
    <3>2. \A c \in DOMAIN calls : calls[c].pc = "made" => c = lock
      BY DEF SidetagInv, CallsTrue, CallTrue
    <3>3. live \subseteq old \cup {calls[lock].tag}
      BY <3>1, <3>2 DEF Orphans, Known, At
    <3> QED
      BY <3>3
  <2> QED
    BY <2>1, <2>2
<1>3. Cardinality(old) <= faults /\ faults \in Nat
  BY Constants DEF SidetagInv, SidetagTypes
<1>4. PICK t : live \subseteq old \cup {t}
  BY <1>2
<1> HIDE DEF live, old
<1>5. /\ IsFiniteSet(old \cup {t})
      /\ Cardinality(old \cup {t}) = IF t \in old THEN Cardinality(old) ELSE Cardinality(old) + 1
  BY <1>1, FS_AddElement
<1>6. Cardinality(live) <= Cardinality(old \cup {t})
  BY <1>1, <1>4, <1>5, FS_Subset
<1>7. Cardinality(live) <= 1 + faults
  BY <1>1, <1>3, <1>5, <1>6
<1> QED
  BY <1>7 DEF OneSidetag, live

LEMMA SidetagsInit == Init => SidetagInv
<1> SUFFICES ASSUME Init PROVE SidetagInv
  OBVIOUS
<1>1. tags \in Seq(Tag) /\ Len(tags) = 0 /\ calls \in Seq(Call) /\ Len(calls) = 0
      /\ DOMAIN tags = {} /\ DOMAIN calls = {}
  BY DEF Init
<1>2. SidetagTypes
  BY <1>1, SidetagsAssumption DEF Init, SidetagTypes
<1>3. CallsTrue
  BY <1>1 DEF CallsTrue
<1>4. Orphans = {}
  BY <1>1 DEF Orphans
<1>5. Cardinality(Orphans) = 0
  BY <1>4, FS_EmptySet
<1> QED
  BY <1>2, <1>3, <1>5 DEF SidetagInv, Init

-----------------------------------------------------------------------------
(* Updates                                                                 *)

UpdateTypes ==
  /\ tasks \in Seq(Task) /\ Len(tasks) <= MaxTasks
  /\ targets \in Seq(Target) /\ Len(targets) <= MaxTargets
  /\ updates \in Seq(UpdateRecord) /\ Len(updates) <= MaxTargets
  /\ clock \in Nat /\ lost \in Nat

\* The targets a task works on or is given for its retry, and what their status may be;
\* and the tasks about to make an update that the others see in the database.
Owned(k) == {tasks[k].target, tasks[k].given} \ {0}
Taken == Open \cup {"error"}
Early == {"new", "group", "done"}
Creates(k) == tasks[k].pc = "create" /\ tasks[k].alias = 0 /\ TargetOf(k).status \in Open

\* What a task owns, the others see in the database, unless it is in error.
TaskTrue(k) ==
  /\ tasks[k].pc = "new" => tasks[k].target = 0
  /\ tasks[k].pc \in {"group", "done"} => Owned(k) = {}
  /\ tasks[k].pc \notin Early =>
       tasks[k].target # 0 /\ tasks[k].given \in {0, tasks[k].target}
  /\ \A i \in Owned(k) : i \in DOMAIN targets /\ targets[i].status \in Taken

OneOwner == \A k, m \in DOMAIN tasks : k # m => Owned(k) \cap Owned(m) = {}
TasksTrue == OneOwner /\ \A k \in DOMAIN tasks : TaskTrue(k)

\* No two tasks that are about to make an update of the same build.
CreatorsApart ==
  \A k, m \in DOMAIN tasks :
    k # m /\ Creates(k) /\ Creates(m) => TargetOf(k).nvrs \cap TargetOf(m).nvrs = {}

\* The target i is in the database for the builds of the update u, and no task has
\* it that could still make an update of them.
Holds(i, u) ==
  /\ i \in DOMAIN targets /\ targets[i].nvrs = updates[u].made /\ targets[i].status \in Open
  /\ \A k \in DOMAIN tasks : i \in Owned(k) => Made(k)

HeldBy(missed, h) ==
  \A u \in DOMAIN updates \ missed :
    /\ Holds(h[u], u)
    /\ \A x \in DOMAIN updates \ missed :
         x # u => h[x] # h[u] /\ updates[u].made \cap updates[x].made = {}
    /\ \A k \in DOMAIN tasks : Creates(k) => TargetOf(k).nvrs \cap updates[u].made = {}

\* Each update is held by a target of its own, but for those that were lost.
UpdatesHeld ==
  \E missed \in SUBSET DOMAIN updates : \E h \in [DOMAIN updates -> 0..MaxTargets] :
    Cardinality(missed) <= lost /\ HeldBy(missed, h)

\* The tasks that may still make an update which the others do not see coming.
Unsure == {k \in DOMAIN tasks : ~Made(k) /\ \E i \in Owned(k) : targets[i].status = "error"}
LostFew == lost + Cardinality(Unsure) <= 2 * faults

UpdateInv == UpdateTypes /\ TasksTrue /\ CreatorsApart /\ UpdatesHeld /\ LostFew

LEMMA UpdateDomains ==
    ASSUME UpdateTypes
    PROVE  /\ DOMAIN tasks = 1..Len(tasks) /\ Len(tasks) \in Nat
           /\ DOMAIN targets = 1..Len(targets) /\ Len(targets) \in Nat
           /\ DOMAIN updates = 1..Len(updates) /\ Len(updates) \in Nat
           /\ \A k \in DOMAIN tasks : tasks[k] \in Task
           /\ \A i \in DOMAIN targets : targets[i] \in Target
           /\ \A u \in DOMAIN updates : updates[u] \in UpdateRecord
  BY LenProperties, ElementOfSeq DEF UpdateTypes

\* A step of task k alone: the targets it has are its own, or new.
Alone(k) ==
  /\ DOMAIN tasks' = DOMAIN tasks
  /\ \A m \in DOMAIN tasks : m # k => tasks'[m] = tasks[m]
  /\ \A i \in DOMAIN targets :
       /\ i \in DOMAIN targets' /\ targets'[i].nvrs = targets[i].nvrs
       /\ i \in Owned(k) \/ targets'[i].status = targets[i].status
  /\ \A i \in Owned(k)' : i \in DOMAIN targets => i \in Owned(k)
  /\ TaskTrue(k)'

LEMMA OthersTrue ==
    ASSUME TasksTrue, NEW k \in DOMAIN tasks, Alone(k)
    PROVE  TasksTrue'
<1>1. \A m \in DOMAIN tasks : m # k => Owned(m)' = Owned(m)
  BY DEF Alone, Owned
<1>2. \A m \in DOMAIN tasks : \A i \in Owned(m) : i \in DOMAIN targets /\ targets[i].status \in Taken
  BY DEF TasksTrue, TaskTrue
<1>3. \A m \in DOMAIN tasks : m # k => Owned(m) \cap Owned(k) = {}
  BY DEF TasksTrue, OneOwner
<1>4. \A m \in DOMAIN tasks : m # k => Owned(m)' \cap Owned(k)' = {}
  BY <1>1, <1>2, <1>3 DEF Alone
<1>5. OneOwner'
  BY <1>1, <1>4 DEF OneOwner, TasksTrue, Alone
<1>6. ASSUME NEW m \in DOMAIN tasks, m # k PROVE TaskTrue(m)'
  <2>1. TaskTrue(m) /\ tasks'[m] = tasks[m]
    BY <1>6 DEF TasksTrue, Alone
  <2>2. \A i \in Owned(m)' : i \in DOMAIN targets' /\ targets'[i].status \in Taken
    BY <1>1, <1>2, <1>3, <1>6 DEF Alone
  <2> QED
    BY <1>1, <1>6, <2>1, <2>2 DEF TaskTrue
<1> QED
  BY <1>5, <1>6 DEF TasksTrue, Alone

\* The builds a task is about to make an update of stay the same.
LEMMA SameBuilds ==
    ASSUME TasksTrue, NEW k \in DOMAIN tasks, Alone(k)
    PROVE  /\ \A m \in DOMAIN tasks : m # k /\ Creates(m)' => Creates(m)
           /\ \A m \in DOMAIN tasks :
                Creates(m) /\ tasks'[m].target = tasks[m].target => TargetOf(m)'.nvrs = TargetOf(m).nvrs
<1>1. \A m \in DOMAIN tasks : tasks[m].pc = "create" =>
        tasks[m].target \in DOMAIN targets /\ tasks[m].target \in Owned(m)
  BY DEF TasksTrue, TaskTrue, Owned, Early
<1>2. \A m \in DOMAIN tasks : m # k /\ tasks[m].pc = "create" => tasks[m].target \notin Owned(k)
  BY <1>1 DEF TasksTrue, OneOwner
<1> QED
  BY <1>1, <1>2 DEF Alone, Creates, TargetOf

\* The task gives up no target that holds an update, but for those of more.
GivesUpNone(k, h, more) ==
  \A u \in DOMAIN updates \ more :
    /\ h[u] \in Owned(k)' => Made(k)'
    /\ h[u] \in Owned(k) => targets'[h[u]].status \in Open

\* The updates that there were are held after the step.
OldHeld(h, more) ==
  \A u \in DOMAIN updates \ more :
    /\ Holds(h[u], u)'
    /\ \A x \in DOMAIN updates \ more :
         x # u => h[x] # h[u] /\ updates'[u].made \cap updates'[x].made = {}
    /\ \A m \in DOMAIN tasks : Creates(m)' => TargetOf(m)'.nvrs \cap updates'[u].made = {}

NoNewCreator(k) == ~Creates(k)'
OldUpdates ==
  /\ DOMAIN updates \subseteq DOMAIN updates'
  /\ \A u \in DOMAIN updates : updates'[u].made = updates[u].made

LEMMA CreatorsStay ==
    ASSUME TasksTrue, CreatorsApart, NEW k \in DOMAIN tasks, Alone(k), NoNewCreator(k)
    PROVE  CreatorsApart'
<1>1. \A m \in DOMAIN tasks : Creates(m)' => Creates(m) /\ TargetOf(m)'.nvrs = TargetOf(m).nvrs
  BY SameBuilds DEF Alone, NoNewCreator
<1>2. DOMAIN tasks' = DOMAIN tasks
  BY DEF Alone
<1> QED
  BY <1>1, <1>2 DEF CreatorsApart

LEMMA StillHeld ==
    ASSUME TasksTrue, NEW k \in DOMAIN tasks, Alone(k), NoNewCreator(k), OldUpdates,
           NEW missed, NEW h, HeldBy(missed, h), NEW more, missed \subseteq more,
           GivesUpNone(k, h, more)
    PROVE  OldHeld(h, more)
<1> USE DEF GivesUpNone, OldHeld, NoNewCreator, OldUpdates
<1> SUFFICES ASSUME NEW u \in DOMAIN updates \ more
             PROVE  /\ Holds(h[u], u)'
                    /\ \A x \in DOMAIN updates \ more :
                         x # u => h[x] # h[u] /\ updates'[u].made \cap updates'[x].made = {}
                    /\ \A m \in DOMAIN tasks :
                         Creates(m)' => TargetOf(m)'.nvrs \cap updates'[u].made = {}
  OBVIOUS
<1>1. u \in DOMAIN updates \ missed /\ \A x \in DOMAIN updates \ more : x \in DOMAIN updates \ missed
  OBVIOUS
<1>2. /\ Holds(h[u], u)
      /\ \A x \in DOMAIN updates \ missed :
           x # u => h[x] # h[u] /\ updates[u].made \cap updates[x].made = {}
      /\ \A m \in DOMAIN tasks : Creates(m) => TargetOf(m).nvrs \cap updates[u].made = {}
  BY <1>1 DEF HeldBy
<1>3. Holds(h[u], u)'
  <2>1. /\ h[u] \in DOMAIN targets /\ targets[h[u]].nvrs = updates[u].made
        /\ targets[h[u]].status \in Open
        /\ \A m \in DOMAIN tasks : h[u] \in Owned(m) => Made(m)
    BY <1>2 DEF Holds
  <2>2. /\ h[u] \in DOMAIN targets' /\ targets'[h[u]].nvrs = updates'[u].made
        /\ targets'[h[u]].status \in Open
    BY <2>1 DEF Alone
  <2>3. \A m \in DOMAIN tasks : m # k => Owned(m)' = Owned(m) /\ Made(m)' = Made(m)
    BY DEF Alone, Owned, Made
  <2>4. \A m \in DOMAIN tasks' : h[u] \in Owned(m)' => Made(m)'
    BY <2>1, <2>3 DEF Alone
  <2> QED
    BY <2>2, <2>4 DEF Holds
<1>4. \A m \in DOMAIN tasks : Creates(m)' => Creates(m) /\ TargetOf(m)'.nvrs = TargetOf(m).nvrs
  BY SameBuilds DEF Alone
<1> QED
  BY <1>1, <1>2, <1>3, <1>4

\* What is lost, and may still be, grows by at most two with a fault.
Accounted(k) ==
  \/ lost' = lost /\ faults' = faults /\ (k \in Unsure' => k \in Unsure)
  \/ lost' = lost + 1 /\ faults' = faults /\ k \in Unsure /\ k \notin Unsure'
  \/ lost' \in {lost, lost + 1} /\ faults' = faults + 1

LEMMA FewStay ==
    ASSUME UpdateTypes, TasksTrue, LostFew, faults \in Nat,
           NEW k \in DOMAIN tasks, Alone(k), Accounted(k)
    PROVE  LostFew' /\ faults' \in Nat /\ lost' \in Nat /\ lost <= lost'
<1> DEFINE old == Unsure
           new == Unsure'
           n == Cardinality(Unsure)
           x == Cardinality(Unsure')
<1>1. IsFiniteSet(old) /\ n \in Nat /\ lost \in Nat
  <2>1. IsFiniteSet(DOMAIN tasks)
    BY UpdateDomains, FS_Interval
  <2>2. Unsure \subseteq DOMAIN tasks
    BY DEF Unsure
  <2> QED
    BY <2>1, <2>2, FS_Subset, FS_CardinalityType DEF UpdateTypes
<1>2. \A m \in DOMAIN tasks : m # k /\ m \in new => m \in old
  <2> SUFFICES ASSUME NEW m \in DOMAIN tasks, m # k, m \in new PROVE m \in old
    OBVIOUS
  <2>1. Owned(m)' = Owned(m) /\ (Made(m)' <=> Made(m))
    BY DEF Alone, Owned, Made
  <2>2. \A i \in Owned(m) : i \in DOMAIN targets /\ i \notin Owned(k)
    BY DEF TasksTrue, TaskTrue, OneOwner
  <2>3. \A i \in Owned(m) : targets'[i].status = targets[i].status
    BY <2>2 DEF Alone
  <2> QED
    BY <2>1, <2>3 DEF Unsure
<1>3. new \subseteq old \cup {k}
  BY <1>2 DEF Unsure, Alone
<1>4. IsFiniteSet(new) /\ x \in Nat /\ x <= n + 1
  <2> HIDE DEF old, new
  <2>1. /\ IsFiniteSet(old \cup {k})
        /\ Cardinality(old \cup {k}) = IF k \in old THEN Cardinality(old) ELSE Cardinality(old) + 1
    BY <1>1, FS_AddElement
  <2>2. IsFiniteSet(new) /\ Cardinality(new) \in Nat /\ Cardinality(new) <= Cardinality(old \cup {k})
    BY <1>3, <2>1, FS_Subset, FS_CardinalityType
  <2>3. Cardinality(new) = x /\ Cardinality(old) = n
    BY DEF old, new
  <2> QED
    BY <1>1, <2>1, <2>2, <2>3
<1>5. ASSUME k \in new => k \in old PROVE x <= n
  <2>1. new \subseteq old
    BY <1>3, <1>5
  <2> HIDE DEF old, new
  <2>2. Cardinality(new) <= Cardinality(old)
    BY <1>1, <2>1, FS_Subset
  <2> QED
    BY <2>2 DEF old, new
<1>6. ASSUME k \in old, k \notin new PROVE x + 1 <= n
  <2>1. new \subseteq old \ {k}
    BY <1>3, <1>6
  <2> HIDE DEF old, new
  <2>2. IsFiniteSet(old \ {k}) /\ Cardinality(old \ {k}) = Cardinality(old) - 1
    BY <1>1, <1>6, FS_RemoveElement
  <2>3. Cardinality(new) <= Cardinality(old \ {k})
    BY <2>1, <2>2, FS_Subset
  <2>4. Cardinality(new) = x /\ Cardinality(old) = n
    BY DEF old, new
  <2> QED
    BY <1>1, <1>4, <2>2, <2>3, <2>4
<1>7. lost + n <= 2 * faults
  BY DEF LostFew
<1>8. lost' + x <= 2 * faults' /\ faults' \in Nat /\ lost' \in Nat /\ lost <= lost'
  <2>1. CASE lost' = lost /\ faults' = faults /\ (k \in Unsure' => k \in Unsure)
    <3>1. x <= n
      BY <1>5, <2>1
    <3> HIDE DEF x, n
    <3> QED
      BY <1>1, <1>4, <1>7, <2>1, <3>1
  <2>2. CASE lost' = lost + 1 /\ faults' = faults /\ k \in Unsure /\ k \notin Unsure'
    <3>1. x + 1 <= n
      BY <1>6, <2>2
    <3> HIDE DEF x, n
    <3> QED
      BY <1>1, <1>4, <1>7, <2>2, <3>1
  <2>3. CASE lost' \in {lost, lost + 1} /\ faults' = faults + 1
    <3>1. faults' \in Nat /\ lost' \in Nat /\ lost <= lost' /\ lost' <= lost + 1
      BY <1>1, <2>3
    <3>2. x \in Nat /\ n \in Nat /\ x <= n + 1
      BY <1>1, <1>4
    <3>3. \A m, l, u, v, f \in Nat :
            m <= l + 1 /\ u <= v + 1 /\ l + v <= 2 * f => m + u <= 2 * (f + 1)
      OBVIOUS
    <3> HIDE DEF x, n
    <3>4. lost' + x <= 2 * (faults + 1)
      BY <1>1, <1>7, <3>1, <3>2, <3>3
    <3> QED
      BY <2>3, <3>1, <3>4
  <2> QED
    BY <2>1, <2>2, <2>3 DEF Accounted
<1> QED
  BY <1>8 DEF LostFew

\* The same, with the updates that there were.
LEMMA HeldStay ==
    ASSUME UpdateTypes, TasksTrue, UpdatesHeld, NEW k \in DOMAIN tasks, Alone(k),
           NoNewCreator(k), OldUpdates, DOMAIN updates' = DOMAIN updates,
           lost \in Nat, lost' \in Nat, lost <= lost',
           \A i \in DOMAIN targets : i \in Owned(k)' /\ Made(k) => Made(k)',
           \A i \in DOMAIN targets :
             i \in Owned(k) /\ targets[i].status \in Open /\ targets'[i].status \notin Open => ~Made(k)
    PROVE  UpdatesHeld'
<1>1. PICK missed \in SUBSET DOMAIN updates : \E h \in [DOMAIN updates -> 0..MaxTargets] :
        Cardinality(missed) <= lost /\ HeldBy(missed, h)
  BY DEF UpdatesHeld
<1>2. PICK h \in [DOMAIN updates -> 0..MaxTargets] :
        Cardinality(missed) <= lost /\ HeldBy(missed, h)
  BY <1>1
<1>3. \A u \in DOMAIN updates \ missed :
        h[u] \in DOMAIN targets /\ targets[h[u]].status \in Open /\ (h[u] \in Owned(k) => Made(k))
  BY <1>2 DEF HeldBy, Holds
<1>4. GivesUpNone(k, h, missed)
  BY <1>3 DEF GivesUpNone, Alone
<1>5. OldHeld(h, missed)
  BY <1>2, <1>4, StillHeld
<1>6. HeldBy(missed, h)'
  BY <1>5 DEF OldHeld, HeldBy, Alone
<1>7. Cardinality(missed) <= lost'
  <2>1. IsFiniteSet(missed)
    <3>1. IsFiniteSet(DOMAIN updates)
      BY UpdateDomains, FS_Interval
    <3> QED
      BY <3>1, FS_Subset
  <2> QED
    BY <1>2, <2>1, FS_CardinalityType
<1> QED
  BY <1>6, <1>7 DEF UpdatesHeld

-----------------------------------------------------------------------------
(* Steps of a task                                                         *)

OwnedBy(e) == {e.target, e.given} \ {0}
MadeAt == {"made", "success", "named"}

\* The targets after a step of task k, which sets its own only or adds one.
TargetsAfter(k) ==
  /\ targets' \in Seq(Target) /\ Len(targets') <= MaxTargets
  /\ \A i \in DOMAIN targets :
       /\ i \in DOMAIN targets' /\ targets'[i].nvrs = targets[i].nvrs
       /\ i = tasks[k].target \/ targets'[i].status = targets[i].status

\* What holds of the task after the step.
EntryTrue(e) ==
  /\ e.pc = "new" => e.target = 0
  /\ e.pc \in {"group", "done"} => OwnedBy(e) = {}
  /\ e.pc \notin Early => e.target # 0 /\ e.given \in {0, e.target}
  /\ \A i \in OwnedBy(e) : i \in DOMAIN targets' /\ targets'[i].status \in Taken

Step(k, e) ==
  /\ e \in Task /\ tasks' = [tasks EXCEPT ![k] = e]
  /\ TargetsAfter(k) /\ EntryTrue(e)
  /\ \A i \in OwnedBy(e) : i \in DOMAIN targets => i \in Owned(k)

LEMMA StepAlone ==
    ASSUME UpdateTypes, NEW k \in DOMAIN tasks, NEW e, Step(k, e)
    PROVE  /\ Alone(k) /\ tasks' \in Seq(Task) /\ Len(tasks') = Len(tasks)
           /\ tasks'[k] = e /\ Owned(k)' = OwnedBy(e) /\ (Made(k)' <=> e.pc \in MadeAt)
           /\ (Creates(k)' => e.pc = "create" /\ e.alias = 0)
           /\ (k \in Unsure' <=> e.pc \notin MadeAt /\ \E i \in OwnedBy(e) : targets'[i].status = "error")
<1>1. tasks \in Seq(Task) /\ e \in Task /\ tasks' = [tasks EXCEPT ![k] = e]
  BY DEF UpdateTypes, Step
<1>2. /\ tasks' \in Seq(Task) /\ Len(tasks') = Len(tasks) /\ DOMAIN tasks' = DOMAIN tasks
      /\ tasks'[k] = e /\ \A m \in DOMAIN tasks : m # k => tasks'[m] = tasks[m]
  BY <1>1, Replace
<1>3. /\ Owned(k)' = OwnedBy(e) /\ (Made(k)' <=> e.pc \in MadeAt)
      /\ (Creates(k)' => e.pc = "create" /\ e.alias = 0)
  BY <1>2 DEF Owned, OwnedBy, Made, MadeAt, Creates
<1>4. TaskTrue(k)'
  BY <1>2, <1>3 DEF TaskTrue, Step, EntryTrue
<1>5. \A i \in DOMAIN targets : i = tasks[k].target => i \in Owned(k)
  BY UpdateDomains DEF Owned
<1>6. Alone(k)
  BY <1>2, <1>3, <1>4, <1>5 DEF Alone, Step, TargetsAfter
<1>7. k \in Unsure' <=> e.pc \notin MadeAt /\ \E i \in OwnedBy(e) : targets'[i].status = "error"
  BY <1>2, <1>3 DEF Unsure
<1> QED
  BY <1>2, <1>3, <1>6, <1>7

\* Nothing is lost, and the task has no target in error that it had not.
Calm(k, e) ==
  /\ lost' = lost /\ faults' = faults
  /\ e.pc \in MadeAt \/ \A i \in OwnedBy(e) : targets'[i].status = "error" => k \in Unsure

\* No update is about to be made, and no target that holds one is given up.
Gentle(k, e) ==
  /\ e.pc = "create" => e.alias # 0
  /\ \A i \in OwnedBy(e) : i \in DOMAIN targets /\ Made(k) => e.pc \in MadeAt
  /\ tasks[k].target \in DOMAIN targets /\ TargetOf(k).status \in Open
       /\ targets'[tasks[k].target].status \notin Open => ~Made(k)
  /\ clock' \in Nat
  /\ Calm(k, e) \/ (lost' \in {lost, lost + 1} /\ faults' = faults + 1)
Quiet(k, e) == Gentle(k, e) /\ updates' = updates

\* The updates stay, though one may be edited.
SameUpdates ==
  /\ updates' \in Seq(UpdateRecord) /\ Len(updates') = Len(updates) /\ DOMAIN updates' = DOMAIN updates
  /\ \A u \in DOMAIN updates : updates'[u].made = updates[u].made

LEMMA EditStep ==
    ASSUME UpdateInv, faults \in Nat, NEW k \in DOMAIN tasks, NEW e,
           Step(k, e), Gentle(k, e), SameUpdates
    PROVE  UpdateInv'
<1>1. UpdateTypes /\ TasksTrue /\ CreatorsApart /\ UpdatesHeld /\ LostFew
  BY DEF UpdateInv
<1>2. /\ Alone(k) /\ tasks' \in Seq(Task) /\ Len(tasks') = Len(tasks)
      /\ tasks'[k] = e /\ Owned(k)' = OwnedBy(e) /\ (Made(k)' <=> e.pc \in MadeAt)
      /\ (Creates(k)' => e.pc = "create" /\ e.alias = 0)
      /\ (k \in Unsure' <=> e.pc \notin MadeAt /\ \E i \in OwnedBy(e) : targets'[i].status = "error")
  BY <1>1, StepAlone
<1>11. Accounted(k)
  BY <1>2 DEF Gentle, Calm, Accounted
<1>12. LostFew' /\ faults' \in Nat /\ lost' \in Nat /\ lost <= lost'
  BY <1>1, <1>2, <1>11, FewStay
<1>3. UpdateTypes'
  BY <1>1, <1>2, <1>12 DEF UpdateTypes, Step, TargetsAfter, Gentle, SameUpdates
<1>4. NoNewCreator(k) /\ OldUpdates /\ DOMAIN updates' = DOMAIN updates
  BY <1>2 DEF NoNewCreator, OldUpdates, Gentle, SameUpdates
<1>5. lost \in Nat /\ lost' \in Nat /\ lost <= lost'
  BY <1>1, <1>12 DEF UpdateTypes
<1>6. \A i \in DOMAIN targets : i \in Owned(k)' /\ Made(k) => Made(k)'
  BY <1>2 DEF Gentle
<1>7. \A i \in DOMAIN targets :
        i \in Owned(k) /\ targets[i].status \in Open /\ targets'[i].status \notin Open => ~Made(k)
  BY DEF Gentle, Step, TargetsAfter, TargetOf
<1>8. TasksTrue'
  BY <1>1, <1>2, OthersTrue
<1>9. CreatorsApart'
  BY <1>1, <1>2, <1>4, CreatorsStay
<1>10. UpdatesHeld'
  BY <1>1, <1>2, <1>4, <1>5, <1>6, <1>7, HeldStay
<1> QED
  BY <1>3, <1>8, <1>9, <1>10, <1>12 DEF UpdateInv

LEMMA QuietStep ==
    ASSUME UpdateInv, faults \in Nat, NEW k \in DOMAIN tasks, NEW e,
           Step(k, e), Quiet(k, e)
    PROVE  UpdateInv'
<1>1. SameUpdates
  BY DEF SameUpdates, Quiet, UpdateInv, UpdateTypes
<1> QED
  BY <1>1, EditStep DEF Quiet, Gentle

LEMMA TargetsStay ==
    ASSUME UpdateTypes, NEW k, UNCHANGED targets
    PROVE  TargetsAfter(k)
  BY DEF UpdateTypes, TargetsAfter

LEMMA TargetSet ==
    ASSUME UpdateTypes, NEW k, tasks[k].target \in DOMAIN targets, NEW r \in Target,
           r.nvrs = TargetOf(k).nvrs, targets' = [targets EXCEPT ![tasks[k].target] = r]
    PROVE  /\ TargetsAfter(k) /\ targets'[tasks[k].target] = r /\ DOMAIN targets' = DOMAIN targets
<1> DEFINE i == tasks[k].target
<1>1. targets \in Seq(Target) /\ i \in DOMAIN targets /\ Len(targets) <= MaxTargets
  BY DEF UpdateTypes
<1>2. /\ targets' \in Seq(Target) /\ Len(targets') = Len(targets) /\ DOMAIN targets' = DOMAIN targets
      /\ targets'[i] = r /\ \A j \in DOMAIN targets : j # i => targets'[j] = targets[j]
  BY <1>1, Replace
<1> QED
  BY <1>1, <1>2 DEF TargetsAfter, TargetOf

\* A task that works has a target, in progress or in error.
LEMMA OwnTarget ==
    ASSUME UpdateTypes, TasksTrue, NEW k \in DOMAIN tasks, tasks[k].pc \notin Early
    PROVE  /\ tasks[k] \in Task /\ tasks[k].target \in DOMAIN targets
           /\ Owned(k) = {tasks[k].target}
           /\ tasks[k].target \in 1..MaxTargets /\ tasks[k].given \in {0, tasks[k].target}
           /\ TargetOf(k) \in Target /\ TargetOf(k).status \in Taken
<1>1. tasks[k].target # 0 /\ tasks[k].given \in {0, tasks[k].target}
      /\ \A i \in Owned(k) : i \in DOMAIN targets /\ targets[i].status \in Taken
  BY DEF TasksTrue, TaskTrue
<1>2. Owned(k) = {tasks[k].target}
  BY <1>1 DEF Owned
<1>3. tasks[k].target \in DOMAIN targets /\ TargetOf(k).status \in Taken
  BY <1>1, <1>2 DEF TargetOf
<1>4. TargetOf(k) \in Target /\ tasks[k] \in Task
  BY <1>3, UpdateDomains DEF TargetOf
<1>5. tasks[k].target \in 1..MaxTargets
  BY <1>3, UpdateDomains, Constants DEF UpdateTypes
<1> QED
  BY <1>1, <1>2, <1>3, <1>4, <1>5

\* Only the place of the task, and perhaps its alias, changes.
LEMMA MoveStep ==
    ASSUME UpdateInv, faults \in Nat, faults' = faults, NEW k \in DOMAIN tasks,
           tasks[k].pc \notin Early, UNCHANGED <<targets, updates, clock, lost>>,
           NEW pc \in {"look", "check", "skip", "create", "made", "success", "named"},
           NEW alias \in 0..MaxTargets,
           tasks' = [tasks EXCEPT ![k].pc = pc, ![k].alias = alias],
           pc = "create" => alias # 0, Made(k) => pc \in MadeAt
    PROVE  UpdateInv'
<1>1. UpdateTypes /\ TasksTrue
  BY DEF UpdateInv
<1>2. /\ tasks[k] \in Task /\ tasks[k].target \in DOMAIN targets /\ Owned(k) = {tasks[k].target}
      /\ tasks[k].target \in 1..MaxTargets /\ tasks[k].given \in {0, tasks[k].target}
      /\ TargetOf(k) \in Target /\ TargetOf(k).status \in Taken
  BY <1>1, OwnTarget
<1> DEFINE e == [tasks[k] EXCEPT !.pc = pc, !.alias = alias]
<1>3. /\ e \in Task /\ e.pc = pc /\ e.alias = alias
      /\ e.target = tasks[k].target /\ e.given = tasks[k].given
  BY <1>2 DEF Task
<1>4. tasks' = [tasks EXCEPT ![k] = e]
  OBVIOUS
<1> HIDE DEF e
<1>5. OwnedBy(e) = {tasks[k].target}
  BY <1>2, <1>3, Constants DEF OwnedBy
<1>6. EntryTrue(e)
  BY <1>2, <1>3, <1>5, Constants DEF EntryTrue, TargetOf, Early
<1>7. Step(k, e)
  BY <1>1, <1>2, <1>3, <1>4, <1>5, <1>6, TargetsStay DEF Step
<1>8. clock' \in Nat
  BY <1>1 DEF UpdateTypes
<1>9. Calm(k, e)
  BY <1>2, <1>3, <1>5 DEF Calm, Unsure
<1>10. Quiet(k, e)
  BY <1>2, <1>3, <1>8, <1>9 DEF Quiet, Gentle, TargetOf
<1> QED
  BY <1>7, <1>10, QuietStep

LEMMA GotoStep ==
    ASSUME UpdateInv, faults \in Nat, faults' = faults, NEW k \in DOMAIN tasks,
           tasks[k].pc \notin Early, UNCHANGED <<targets, updates, clock, lost>>,
           NEW pc \in {"look", "check", "skip", "made", "success", "named"},
           GotoTask(k, pc), Made(k) => pc \in MadeAt
    PROVE  UpdateInv'
<1>1. tasks[k] \in Task
  BY UpdateDomains DEF UpdateInv
<1>2. tasks[k].alias \in 0..MaxTargets
  BY <1>1 DEF Task
<1>3. tasks \in Seq(Task)
  BY DEF UpdateInv, UpdateTypes
<1>4. [tasks[k] EXCEPT !.pc = pc, !.alias = tasks[k].alias] = [tasks[k] EXCEPT !.pc = pc]
  BY <1>1 DEF Task
<1>5. tasks' = [tasks EXCEPT ![k].pc = pc, ![k].alias = tasks[k].alias]
  BY <1>4 DEF GotoTask
<1>6. pc # "create"
  OBVIOUS
<1> QED
  BY <1>2, <1>5, <1>6, MoveStep

\* Nothing of a task matters any more, and its target may be set.
LEMMA DoneEntry ==
    ASSUME UpdateTypes, NEW k \in DOMAIN tasks, DoneTask(k), TargetsAfter(k)
    PROVE  \E e : Step(k, e) /\ OwnedBy(e) = {} /\ e.pc = "done"
<1> DEFINE e == [NewTask(FALSE, {}) EXCEPT !.pc = "done"]
<1>1. /\ e \in Task /\ e.pc = "done" /\ e.target = 0 /\ e.given = 0
  <2>1. PICK fresh \in Task : /\ fresh = NewTask(FALSE, {})
                              /\ fresh.target = 0 /\ fresh.given = 0
    BY FreshTask
  <2> QED
    BY <2>1 DEF Task
<1>2. tasks' = [tasks EXCEPT ![k] = e]
  BY DEF DoneTask
<1> HIDE DEF e
<1>3. OwnedBy(e) = {}
  BY <1>1 DEF OwnedBy
<1> QED
  BY <1>1, <1>2, <1>3 DEF Step, EntryTrue, Early

LEMMA DoneStep ==
    ASSUME UpdateInv, faults \in Nat, faults' = faults, NEW k \in DOMAIN tasks,
           DoneTask(k), TargetsAfter(k), UNCHANGED <<updates, lost>>, clock' \in Nat,
           tasks[k].target \in DOMAIN targets /\ TargetOf(k).status \in Open
             /\ targets'[tasks[k].target].status \notin Open => ~Made(k)
    PROVE  UpdateInv'
<1>1. PICK e : Step(k, e) /\ OwnedBy(e) = {} /\ e.pc = "done"
  BY DoneEntry DEF UpdateInv
<1>2. Quiet(k, e)
  BY <1>1 DEF Quiet, Gentle, Calm
<1> QED
  BY <1>1, <1>2, QuietStep

\* The task starts from the beginning, with a target or none.
LEMMA AgainEntry ==
    ASSUME UpdateTypes, NEW k \in DOMAIN tasks, TargetsAfter(k),
           NEW given \in 0..MaxTargets, NEW retries \in 0..MaxRetries, Again(k, given, retries),
           given # 0 => given \in Owned(k) /\ given \in DOMAIN targets'
                          /\ targets'[given].status \in Taken
    PROVE  \E e : Step(k, e) /\ OwnedBy(e) = {given} \ {0} /\ e.pc = "new"
<1>1. tasks[k] \in Task
  BY UpdateDomains
<1> DEFINE e == [NewTask(tasks[k].sidetag, tasks[k].nvrs) EXCEPT !.given = given, !.retries = retries]
<1>2. /\ e \in Task /\ e.pc = "new" /\ e.target = 0 /\ e.given = given
  <2>1. tasks[k].sidetag \in BOOLEAN /\ tasks[k].nvrs \in SUBSET Nvrs
    BY <1>1 DEF Task
  <2>2. PICK fresh \in Task : /\ fresh = NewTask(tasks[k].sidetag, tasks[k].nvrs)
                              /\ fresh.pc = "new" /\ fresh.target = 0
    BY <2>1, FreshTask
  <2> QED
    BY <2>2 DEF Task
<1>3. tasks' = [tasks EXCEPT ![k] = e]
  BY DEF Again
<1> HIDE DEF e
<1>4. OwnedBy(e) = {given} \ {0}
  BY <1>2 DEF OwnedBy
<1>5. EntryTrue(e)
  BY <1>2, <1>4 DEF EntryTrue, Early
<1> QED
  BY <1>2, <1>3, <1>4, <1>5 DEF Step

\* The target of a task gets a status.
LEMMA StatusSet ==
    ASSUME UpdateTypes, TasksTrue, NEW k \in DOMAIN tasks, tasks[k].pc \notin Early,
           NEW status \in Taken \cup {"skipped"}, SetStatus(k, status)
    PROVE  /\ TargetsAfter(k) /\ targets'[tasks[k].target].status = status
           /\ DOMAIN targets' = DOMAIN targets
<1> DEFINE r == [TargetOf(k) EXCEPT !.status = status]
<1>1. tasks[k].target \in DOMAIN targets /\ TargetOf(k) \in Target
  BY OwnTarget
<1>2. r \in Target /\ r.nvrs = TargetOf(k).nvrs /\ r.status = status
  BY <1>1 DEF Target, Open, Taken
<1>3. targets' = [targets EXCEPT ![tasks[k].target] = r]
  BY DEF SetStatus, TargetOf
<1> HIDE DEF r
<1> QED
  BY <1>1, <1>2, <1>3, TargetSet

\* A retry has the target of the task that failed.
LEMMA RetryEntry ==
    ASSUME UpdateTypes, TasksTrue, NEW k \in DOMAIN tasks, tasks[k].pc \notin Early,
           Failed(k)
    PROVE  /\ \E e : /\ Step(k, e) /\ OwnedBy(e) \subseteq {tasks[k].target}
                     /\ e.pc \in {"new", "done"}
                     /\ \A i \in OwnedBy(e) : targets'[i].status # "error"
<1>1. /\ tasks[k] \in Task /\ tasks[k].target \in DOMAIN targets /\ Owned(k) = {tasks[k].target}
      /\ tasks[k].target \in 1..MaxTargets /\ tasks[k].given \in {0, tasks[k].target}
      /\ TargetOf(k) \in Target /\ TargetOf(k).status \in Taken
  BY OwnTarget
<1>2. CASE tasks[k].retries < MaxRetries
  <2>1. SetStatus(k, "retry") /\ Again(k, tasks[k].target, tasks[k].retries + 1)
    BY <1>2 DEF Failed
  <2>2. tasks[k].retries \in 0..MaxRetries
    BY <1>1 DEF Task
  <2>3. tasks[k].retries + 1 \in 0..MaxRetries /\ tasks[k].target \in 0..MaxTargets
    BY <1>1, <1>2, <2>2, Constants
  <2>4. /\ TargetsAfter(k) /\ targets'[tasks[k].target].status = "retry"
        /\ DOMAIN targets' = DOMAIN targets
    BY <2>1, StatusSet DEF Taken, Open
  <2>5. PICK e : Step(k, e) /\ OwnedBy(e) = {tasks[k].target} \ {0} /\ e.pc = "new"
    BY <1>1, <2>1, <2>3, <2>4, AgainEntry DEF Taken, Open
  <2> QED
    BY <2>4, <2>5
<1>3. CASE ~(tasks[k].retries < MaxRetries)
  <2>1. SetStatus(k, "error") /\ DoneTask(k)
    BY <1>3 DEF Failed
  <2>2. TargetsAfter(k)
    BY <2>1, StatusSet DEF Taken
  <2> QED
    BY <2>1, <2>2, DoneEntry
<1> QED
  BY <1>2, <1>3

LEMMA FailsStep ==
    ASSUME UpdateInv, faults \in Nat, faults' = faults, NEW k \in DOMAIN tasks, UpdateFails(k)
    PROVE  UpdateInv'
<1>1. /\ tasks[k].pc = "create" /\ Failed(k) /\ UNCHANGED <<updates, clock, lost>>
      /\ UpdateTypes /\ TasksTrue /\ tasks[k].pc \notin Early /\ ~Made(k)
  BY DEF UpdateFails, TaskAt, UpdateInv, Early, Made
<1>2. PICK e : /\ Step(k, e) /\ OwnedBy(e) \subseteq {tasks[k].target} /\ e.pc \in {"new", "done"}
               /\ \A i \in OwnedBy(e) : targets'[i].status # "error"
  BY <1>1, RetryEntry
<1>3. clock' \in Nat
  BY <1>1 DEF UpdateTypes
<1>4. Quiet(k, e)
  BY <1>1, <1>2, <1>3 DEF Quiet, Gentle, Calm
<1> QED
  BY <1>2, <1>4, QuietStep

LEMMA SkippedStep ==
    ASSUME UpdateInv, faults \in Nat, faults' = faults, NEW k \in DOMAIN tasks, SetSkipped(k)
    PROVE  UpdateInv'
<1>1. /\ tasks[k].pc = "skip" /\ DoneTask(k) /\ SetStatus(k, "skipped")
      /\ UNCHANGED <<updates, clock, lost>> /\ UpdateTypes /\ TasksTrue
  BY DEF SetSkipped, TaskAt, UpdateInv
<1>2. TargetsAfter(k)
  BY <1>1, StatusSet DEF Early
<1>3. ~Made(k) /\ clock' \in Nat
  BY <1>1 DEF Made, UpdateTypes
<1> QED
  BY <1>1, <1>2, <1>3, DoneStep

\* The target of an update that Bodhi has: first its status, then its alias, its time last.
LEMMA NamingSteps ==
    ASSUME UpdateInv, faults \in Nat, faults' = faults, NEW k \in DOMAIN tasks,
           SetSuccess(k) \/ SetAlias(k) \/ SetTime(k)
    PROVE  UpdateInv'
<1>1. UpdateTypes /\ TasksTrue /\ tasks[k].pc \in MadeAt
      /\ UNCHANGED <<updates, lost>> /\ clock \in Nat
  BY DEF UpdateInv, UpdateTypes, SetSuccess, SetAlias, SetTime, TaskAt, MadeAt
<1>2. /\ tasks[k] \in Task /\ tasks[k].target \in DOMAIN targets /\ Owned(k) = {tasks[k].target}
      /\ tasks[k].target \in 1..MaxTargets /\ tasks[k].given \in {0, tasks[k].target}
      /\ TargetOf(k) \in Target /\ TargetOf(k).status \in Taken
  BY <1>1, OwnTarget DEF MadeAt, Early
<1>3. ASSUME NEW r \in Target, r.nvrs = TargetOf(k).nvrs, r.status \in {"success", TargetOf(k).status},
             targets' = [targets EXCEPT ![tasks[k].target] = r]
      PROVE  /\ TargetsAfter(k) /\ targets'[tasks[k].target].status \in {"success", TargetOf(k).status}
             /\ DOMAIN targets' = DOMAIN targets
  BY <1>1, <1>2, <1>3, TargetSet
<1>4. ASSUME NEW pc \in {"success", "named"}, GotoTask(k, pc), clock' = clock,
             TargetsAfter(k), targets'[tasks[k].target].status \in {"success", TargetOf(k).status},
             DOMAIN targets' = DOMAIN targets
      PROVE  UpdateInv'
  <2> DEFINE e == [tasks[k] EXCEPT !.pc = pc]
  <2>1. e \in Task /\ e.pc = pc /\ e.target = tasks[k].target /\ e.given = tasks[k].given
    BY <1>2 DEF Task
  <2>2. tasks' = [tasks EXCEPT ![k] = e]
    BY <1>4 DEF GotoTask
  <2> HIDE DEF e
  <2>3. OwnedBy(e) = {tasks[k].target}
    BY <1>2, <2>1, Constants DEF OwnedBy
  <2>4. EntryTrue(e)
    BY <1>2, <1>4, <2>1, <2>3, Constants DEF EntryTrue, Early, Taken, Open
  <2>5. Step(k, e)
    BY <1>2, <1>4, <2>1, <2>2, <2>3, <2>4 DEF Step
  <2>6. Quiet(k, e)
    BY <1>1, <1>4, <2>1 DEF Quiet, Gentle, Calm, MadeAt, Open
  <2> QED
    BY <2>5, <2>6, QuietStep
<1>5. CASE SetSuccess(k)
  <2> DEFINE r == [TargetOf(k) EXCEPT !.status = "success"]
  <2>1. r \in Target /\ r.nvrs = TargetOf(k).nvrs /\ r.status = "success"
    BY <1>2 DEF Target, Open
  <2>2. targets' = [targets EXCEPT ![tasks[k].target] = r]
    BY <1>5 DEF SetSuccess, SetStatus, TargetOf
  <2> HIDE DEF r
  <2>3. GotoTask(k, "success") /\ clock' = clock
    BY <1>5 DEF SetSuccess
  <2> QED
    BY <1>3, <1>4, <2>1, <2>2, <2>3
<1>6. CASE SetAlias(k)
  <2> DEFINE r == [TargetOf(k) EXCEPT !.alias = tasks[k].alias]
  <2>1. r \in Target /\ r.nvrs = TargetOf(k).nvrs /\ r.status = TargetOf(k).status
    BY <1>2 DEF Target, Task
  <2>2. targets' = [targets EXCEPT ![tasks[k].target] = r]
    BY <1>6 DEF SetAlias, TargetOf
  <2> HIDE DEF r
  <2>3. GotoTask(k, "named") /\ clock' = clock
    BY <1>6 DEF SetAlias
  <2> QED
    BY <1>3, <1>4, <2>1, <2>2, <2>3
<1>7. CASE SetTime(k)
  <2> DEFINE r == [TargetOf(k) EXCEPT !.time = clock + 1]
  <2>1. r \in Target /\ r.nvrs = TargetOf(k).nvrs /\ r.status = TargetOf(k).status
    BY <1>1, <1>2 DEF Target
  <2>2. targets' = [targets EXCEPT ![tasks[k].target] = r]
    BY <1>7 DEF SetTime, TargetOf
  <2> HIDE DEF r
  <2>3. DoneTask(k) /\ clock' \in Nat
    BY <1>1, <1>7 DEF SetTime
  <2>4. TargetsAfter(k) /\ targets'[tasks[k].target].status \in {"success", TargetOf(k).status}
    BY <1>3, <2>1, <2>2
  <2> QED
    BY <1>1, <2>3, <2>4, DoneStep DEF Open
<1> QED
  BY <1>5, <1>6, <1>7

\* A task starts that owns nothing yet.
LEMMA StartStep ==
    ASSUME UpdateInv, faults \in Nat, faults' = faults, NEW sidetag \in BOOLEAN, NEW nvrs \in SUBSET Nvrs,
           StartUpdate(sidetag, nvrs)
    PROVE  UpdateInv'
<1> DEFINE e == NewTask(sidetag, nvrs)
<1>0. UpdateTypes /\ TasksTrue /\ CreatorsApart /\ UpdatesHeld /\ LostFew
  BY DEF UpdateInv
<1>1. e \in Task /\ e.pc = "new" /\ e.target = 0 /\ e.given = 0
  BY Constants DEF NewTask, Task
<1>2. /\ tasks' = Append(tasks, e) /\ UNCHANGED <<targets, updates, clock, lost>>
      /\ Len(tasks) < MaxTasks /\ tasks \in Seq(Task)
  BY <1>0 DEF StartUpdate, UpdateTypes
<1> HIDE DEF e
<1> PICK n : n = Len(tasks) + 1
  OBVIOUS
<1>3. /\ tasks' \in Seq(Task) /\ Len(tasks') = n /\ Len(tasks) \in Nat
      /\ DOMAIN tasks = 1..Len(tasks) /\ DOMAIN tasks' = 1..n
      /\ tasks'[n] = e /\ \A m \in DOMAIN tasks : m \in DOMAIN tasks' /\ tasks'[m] = tasks[m]
  BY <1>1, <1>2, Extend
<1>4. UpdateTypes'
  BY <1>0, <1>2, <1>3, Constants DEF UpdateTypes
<1>5. \A m \in DOMAIN tasks' : m \in DOMAIN tasks \/ m = n
  BY <1>3
<1>6. /\ Owned(n)' = {} /\ ~Creates(n)' /\ TaskTrue(n)'
  BY <1>1, <1>3 DEF Owned, Creates, TaskTrue, Early
<1>7. \A m \in DOMAIN tasks :
        /\ Owned(m)' = Owned(m) /\ (Made(m)' <=> Made(m)) /\ (Creates(m)' <=> Creates(m))
        /\ TargetOf(m)' = TargetOf(m)
  BY <1>2, <1>3 DEF Owned, Made, Creates, TargetOf
<1>8. TasksTrue'
  <2>1. OneOwner'
    BY <1>0, <1>5, <1>6, <1>7 DEF TasksTrue, OneOwner
  <2>2. \A m \in DOMAIN tasks : TaskTrue(m)'
    BY <1>0, <1>2, <1>3, <1>7 DEF TasksTrue, TaskTrue
  <2> QED
    BY <1>5, <1>6, <2>1, <2>2 DEF TasksTrue
<1>9. CreatorsApart'
  BY <1>0, <1>5, <1>6, <1>7 DEF CreatorsApart
<1>10. UpdatesHeld'
  <2>1. PICK missed \in SUBSET DOMAIN updates : \E h \in [DOMAIN updates -> 0..MaxTargets] :
          Cardinality(missed) <= lost /\ HeldBy(missed, h)
    BY <1>0 DEF UpdatesHeld
  <2>2. PICK h \in [DOMAIN updates -> 0..MaxTargets] : Cardinality(missed) <= lost /\ HeldBy(missed, h)
    BY <2>1
  <2>3. \A u \in DOMAIN updates \ missed : Holds(h[u], u)'
    BY <1>2, <1>5, <1>6, <1>7, <2>2 DEF HeldBy, Holds
  <2>4. HeldBy(missed, h)'
    BY <1>2, <1>5, <1>6, <1>7, <2>2, <2>3 DEF HeldBy
  <2> QED
    BY <1>2, <2>2, <2>4 DEF UpdatesHeld
<1>11. LostFew'
  <2>1. Unsure' = Unsure
    BY <1>2, <1>3, <1>5, <1>6, <1>7 DEF Unsure
  <2> QED
    BY <1>0, <1>2, <2>1 DEF LostFew
<1> QED
  BY <1>4, <1>8, <1>9, <1>10, <1>11 DEF UpdateInv

LEMMA MakeTargetStep ==
    ASSUME UpdateInv, faults \in Nat, faults' = faults, NEW k \in DOMAIN tasks, MakeTarget(k)
    PROVE  UpdateInv'
<1> DEFINE r == [nvrs |-> tasks[k].builds, tag |-> tasks[k].tag, status |-> "queued",
                 alias |-> 0, time |-> 0]
           n == Len(targets) + 1
           e == [tasks[k] EXCEPT !.pc = "look", !.target = n, !.builds = {}, !.tag = 0]
<1>1. UpdateTypes /\ TasksTrue /\ tasks[k] \in Task
  BY UpdateDomains DEF UpdateInv
<1>2. /\ targets' = Append(targets, r) /\ tasks' = [tasks EXCEPT ![k] = e]
      /\ Len(targets) < MaxTargets /\ UNCHANGED <<updates, clock, lost>>
      /\ targets \in Seq(Target) /\ tasks[k].pc = "group"
  BY <1>1 DEF MakeTarget, UpdateTypes, TaskAt
<1>3. r \in Target /\ r.status = "queued"
  BY <1>1, Constants DEF Target, Open, Task
<1> HIDE DEF r
<1>4. /\ targets' \in Seq(Target) /\ Len(targets') = n /\ Len(targets) \in Nat
      /\ DOMAIN targets = 1..Len(targets) /\ DOMAIN targets' = 1..n
      /\ targets'[n] = r
      /\ \A j \in DOMAIN targets : j \in DOMAIN targets' /\ targets'[j] = targets[j]
  BY <1>2, <1>3, Extend
<1>5. n \in 1..MaxTargets /\ tasks[k].given = 0
  <2>1. n \in 1..MaxTargets
    BY <1>2, <1>4, Constants
  <2>2. tasks[k].given \notin Nat \ {0} /\ tasks[k].given \in 0..MaxTargets
    BY <1>1, <1>2, Constants DEF TasksTrue, TaskTrue, Owned, Task
  <2> QED
    BY <2>1, <2>2, Constants
<1> HIDE DEF n
<1>6. e \in Task /\ e.pc = "look" /\ e.target = n /\ e.given = 0
  <2>1. n \in 0..MaxTargets /\ 0 \in 0..MaxTags
    BY <1>5, Constants
  <2> QED
    BY <1>1, <1>5, <2>1 DEF Task
<1> HIDE DEF e
<1>7. OwnedBy(e) = {n} /\ n \notin DOMAIN targets
  BY <1>4, <1>5, <1>6 DEF OwnedBy, n
<1>8. TargetsAfter(k)
  BY <1>2, <1>4, Constants DEF TargetsAfter, n
<1>9. n \in DOMAIN targets' /\ targets'[n].status = "queued"
  BY <1>3, <1>4, <1>5
<1>10. EntryTrue(e)
  BY <1>5, <1>6, <1>7, <1>9 DEF EntryTrue, Open, Taken, Early
<1>11. Step(k, e)
  BY <1>2, <1>6, <1>7, <1>8, <1>10 DEF Step
<1>12. clock' \in Nat /\ ~Made(k)
  BY <1>1, <1>2 DEF UpdateTypes, Made
<1>13. Quiet(k, e)
  BY <1>2, <1>6, <1>7, <1>9, <1>12 DEF Quiet, Gentle, Calm
<1> QED
  BY <1>11, <1>13, QuietStep

LEMMA GroupSteps ==
    ASSUME UpdateInv, SidetagTypes, faults' = faults, NEW k \in DOMAIN tasks,
           Group(k) \/ GroupGiven(k)
    PROVE  UpdateInv'
<1>1. UpdateTypes /\ TasksTrue /\ tasks[k].pc = "new" /\ tasks[k] \in Task /\ tasks[k].target = 0
      /\ faults \in Nat /\ ~Made(k) /\ UNCHANGED <<targets, updates, clock, lost>>
  BY UpdateDomains, Constants
     DEF UpdateInv, Group, GroupGiven, TaskAt, TasksTrue, TaskTrue, SidetagTypes, Made
<1>2. clock' \in Nat /\ TargetsAfter(k)
  BY <1>1, TargetsStay DEF UpdateTypes
<1>3. CASE Group(k)
  <2> DEFINE dependencies == Dependencies[UpdateOf] \cup {UpdateOf}
  <2>1. tasks[k].given = 0
    BY <1>3 DEF Group
  <2>2. ASSUME NEW builds \in SUBSET Nvrs, NEW t \in 0..MaxTags, AskKoji(k, builds, t)
        PROVE  UpdateInv'
    <3> DEFINE e == [tasks[k] EXCEPT !.pc = "group", !.builds = builds, !.tag = t]
    <3>1. e \in Task /\ e.pc = "group" /\ e.target = 0 /\ e.given = 0
      BY <1>1, <2>1 DEF Task
    <3>2. tasks' = [tasks EXCEPT ![k] = e]
      BY <2>2 DEF AskKoji
    <3> HIDE DEF e
    <3>3. OwnedBy(e) = {}
      BY <3>1 DEF OwnedBy
    <3>4. Step(k, e)
      BY <1>2, <3>1, <3>2, <3>3 DEF Step, EntryTrue, Early
    <3>5. Quiet(k, e)
      BY <1>1, <1>2, <3>1, <3>3 DEF Quiet, Gentle, Calm
    <3> QED
      BY <1>1, <3>4, <3>5, QuietStep
  <2>3. CASE AskKoji(k, tasks[k].nvrs, 0)
    <3>1. tasks[k].nvrs \in SUBSET Nvrs /\ 0 \in 0..MaxTags
      BY <1>1, Constants DEF Task
    <3> QED
      BY <2>2, <2>3, <3>1
  <2>4. CASE /\ Exists(koji_name)
             /\ AskKoji(k, BuildsFor(k, koji_name, dependencies), koji_name)
    <3>1. koji_name \in DOMAIN tags /\ tags[koji_name] \in Tag /\ koji_name \in 0..MaxTags
      BY <2>4, Domains, Constants DEF Exists, SidetagTypes
    <3>2. tasks[k].nvrs \in SUBSET Nvrs /\ tags[koji_name].builds \subseteq Nvrs
      BY <1>1, <3>1 DEF Task, Tag
    <3>3. BuildsFor(k, koji_name, dependencies) \in SUBSET Nvrs
      BY <3>2 DEF BuildsFor, get_builds_suitable_for_update, newest
    <3> QED
      BY <2>2, <2>4, <3>1, <3>3
  <2>5. CASE DoneTask(k)
    BY <1>1, <1>2, <2>5, DoneStep
  <2> QED
    BY <1>3, <2>3, <2>4, <2>5 DEF Group
<1>4. CASE GroupGiven(k)
  <2> DEFINE i == tasks[k].given
             e == [tasks[k] EXCEPT !.pc = "look", !.target = i]
  <2>1. i # 0 /\ tasks' = [tasks EXCEPT ![k] = e]
    BY <1>4 DEF GroupGiven
  <2>2. e \in Task /\ e.pc = "look" /\ e.target = i /\ e.given = i
    BY <1>1 DEF Task
  <2>3. i \in Owned(k) /\ i \in DOMAIN targets /\ targets[i].status \in Taken
    BY <1>1, <2>1 DEF Owned, TasksTrue, TaskTrue
  <2> HIDE DEF e, i
  <2>4. OwnedBy(e) = {i}
    BY <2>1, <2>2 DEF OwnedBy
  <2>5. EntryTrue(e)
    BY <1>1, <2>1, <2>2, <2>3, <2>4 DEF EntryTrue, Early
  <2>6. Step(k, e)
    BY <1>2, <2>1, <2>2, <2>3, <2>4, <2>5 DEF Step
  <2>7. Quiet(k, e)
    BY <1>1, <1>2, <2>1, <2>2, <2>3, <2>4 DEF Quiet, Gentle, Calm, Unsure
  <2> QED
    BY <1>1, <2>6, <2>7, QuietStep
<1> QED
  BY <1>3, <1>4

LEMMA LookStep ==
    ASSUME UpdateInv, faults \in Nat, faults' = faults, NEW k \in DOMAIN tasks,
           LookAlias(k) \/ AlreadyCreated(k)
    PROVE  UpdateInv'
<1>1. UpdateTypes /\ UNCHANGED <<targets, updates, clock, lost>>
      /\ tasks[k].pc \in {"look", "create"} /\ tasks[k].pc \notin Early /\ ~Made(k)
  <2>1. CASE LookAlias(k)
    <3>1. targets' = targets
      BY <2>1, Zenon DEF LookAlias, Skip
    <3>2. TaskAt(k, "look") /\ UNCHANGED <<updates, clock, lost, sidetagVars>>
      BY <2>1, Zenon DEF LookAlias
    <3> QED
      BY <3>1, <3>2 DEF UpdateInv, TaskAt, Early, Made
  <2>2. CASE AlreadyCreated(k)
    BY <2>2 DEF UpdateInv, AlreadyCreated, Skip, TaskAt, Early, Made
  <2> QED
    BY <2>1, <2>2
<1>2. ASSUME Skip(k) PROVE UpdateInv'
  <2>1. GotoTask(k, "skip")
    BY <1>2 DEF Skip
  <2> QED
    BY <1>1, <2>1, GotoStep
<1>3. ASSUME tasks' = [tasks EXCEPT ![k].pc = "check", ![k].alias = 0] PROVE UpdateInv'
  <2>1. 0 \in 0..MaxTargets
    BY Constants
  <2> QED
    BY <1>1, <1>3, <2>1, MoveStep
<1>4. ASSUME NEW i \in DOMAIN targets, targets[i].alias # 0,
             tasks' = [tasks EXCEPT ![k].pc = "create", ![k].alias = targets[i].alias]
      PROVE  UpdateInv'
  <2>1. targets[i].alias \in 0..MaxTargets
    BY <1>1, UpdateDomains DEF Target
  <2> QED
    BY <1>1, <1>4, <2>1, MoveStep
<1>5. CASE AlreadyCreated(k)
  BY <1>2, <1>5 DEF AlreadyCreated
<1>6. CASE LookAlias(k)
  <2>1. get_last_successful_by_sidetag(TargetOf(k).tag) \subseteq DOMAIN targets
    BY DEF get_last_successful_by_sidetag
  <2> QED
    BY <1>2, <1>3, <1>4, <1>6, <2>1 DEF LookAlias
<1> QED
  BY <1>5, <1>6

\* A task goes on to make an update when no other target is in progress for its builds.
LEMMA CheckStep ==
    ASSUME UpdateInv, faults \in Nat, faults' = faults, NEW k \in DOMAIN tasks, CheckNvrs(k)
    PROVE  UpdateInv'
<1>1. UpdateTypes /\ TasksTrue /\ CreatorsApart /\ UpdatesHeld /\ LostFew
      /\ ~Made(k) /\ tasks[k].pc \notin Early /\ tasks[k].pc = "check" /\ UNCHANGED <<targets, updates, clock, lost>>
  BY DEF UpdateInv, CheckNvrs, TaskAt, Skip, Made, Early
<1>2. CASE Skip(k)
  BY <1>1, <1>2, GotoStep DEF Skip
<1>3. CASE /\ get_all_successful_or_in_progress_by_nvrs(TargetOf(k).nvrs) \ {tasks[k].target} = {}
           /\ GotoTask(k, "create")
  <2>1. /\ tasks[k] \in Task /\ tasks[k].target \in DOMAIN targets /\ Owned(k) = {tasks[k].target}
        /\ tasks[k].target \in 1..MaxTargets /\ tasks[k].given \in {0, tasks[k].target}
        /\ TargetOf(k) \in Target /\ TargetOf(k).status \in Taken
    BY <1>1, OwnTarget
  <2> DEFINE e == [tasks[k] EXCEPT !.pc = "create"]
             b == TargetOf(k).nvrs
  <2>2. /\ e \in Task /\ e.pc = "create" /\ e.target = tasks[k].target
        /\ e.given = tasks[k].given
    BY <2>1 DEF Task
  <2>3. tasks' = [tasks EXCEPT ![k] = e]
    BY <1>3 DEF GotoTask
  <2> HIDE DEF e
  <2>4. OwnedBy(e) = {tasks[k].target} /\ Owned(k) = {tasks[k].target}
    BY <2>1, <2>2 DEF OwnedBy, Owned
  <2>5. EntryTrue(e)
    BY <1>1, <2>1, <2>2, <2>4 DEF EntryTrue, TargetOf, Early
  <2>6. Step(k, e)
    BY <1>1, <2>2, <2>3, <2>4, <2>5, TargetsStay DEF Step
  <2>7. Alone(k) /\ tasks' \in Seq(Task) /\ Len(tasks') = Len(tasks) /\ tasks'[k] = e
    BY <1>1, <2>6, StepAlone
  <2>8. TasksTrue'
    BY <1>1, <2>7, OthersTrue
  <2>9. \A i \in DOMAIN targets :
          i # tasks[k].target /\ targets[i].status \in Open => targets[i].nvrs \cap b = {}
    BY <1>3 DEF get_all_successful_or_in_progress_by_nvrs
  <2>10. TargetOf(k)'.nvrs = b
    BY <1>1, <2>2, <2>7 DEF TargetOf
  <2>11. \A m \in DOMAIN tasks : m # k /\ Creates(m)' =>
           Creates(m) /\ TargetOf(m)'.nvrs = TargetOf(m).nvrs /\ TargetOf(m).nvrs \cap b = {}
    <3> SUFFICES ASSUME NEW m \in DOMAIN tasks, m # k, Creates(m)'
                 PROVE  Creates(m) /\ TargetOf(m)'.nvrs = TargetOf(m).nvrs /\ TargetOf(m).nvrs \cap b = {}
      OBVIOUS
    <3>1. Creates(m) /\ tasks'[m] = tasks[m]
      BY <1>1, <2>7, SameBuilds DEF Alone
    <3>2. tasks[m].target \in DOMAIN targets /\ tasks[m].target \in Owned(m)
          /\ TargetOf(m).status \in Open
      BY <1>1, <3>1, OwnTarget DEF Creates, Early
    <3>3. tasks[m].target # tasks[k].target
      BY <1>1, <2>1, <3>2 DEF TasksTrue, OneOwner
    <3> QED
      BY <1>1, <2>9, <3>1, <3>2, <3>3 DEF TargetOf
  <2>12. CreatorsApart'
    <3>1. DOMAIN tasks' = DOMAIN tasks
      BY <2>7 DEF Alone
    <3> HIDE DEF b
    <3> QED
      BY <1>1, <2>10, <2>11, <3>1 DEF CreatorsApart
  <2>13. UpdatesHeld'
    <3>1. PICK missed \in SUBSET DOMAIN updates : \E h \in [DOMAIN updates -> 0..MaxTargets] :
            Cardinality(missed) <= lost /\ HeldBy(missed, h)
      BY <1>1 DEF UpdatesHeld
    <3>2. PICK h \in [DOMAIN updates -> 0..MaxTargets] :
            Cardinality(missed) <= lost /\ HeldBy(missed, h)
      BY <3>1
    <3>3. \A m \in DOMAIN tasks : m # k => Owned(m)' = Owned(m) /\ (Made(m)' <=> Made(m))
      BY <2>7 DEF Alone, Owned, Made
    <3>4. Owned(k)' = Owned(k) /\ ~Made(k) /\ DOMAIN tasks' = DOMAIN tasks
      BY <1>1, <2>2, <2>4, <2>7 DEF Alone, Owned, OwnedBy
    <3>5. ASSUME NEW u \in DOMAIN updates \ missed
          PROVE  /\ Holds(h[u], u)'
                 /\ \A m \in DOMAIN tasks : Creates(m)' => TargetOf(m)'.nvrs \cap updates[u].made = {}
      <4>1. /\ Holds(h[u], u)
            /\ \A m \in DOMAIN tasks : Creates(m) => TargetOf(m).nvrs \cap updates[u].made = {}
        BY <3>2 DEF HeldBy
      <4>2. h[u] \notin Owned(k)
        BY <3>4, <4>1 DEF Holds
      <4>3. targets[h[u]].nvrs \cap b = {} /\ targets[h[u]].nvrs = updates[u].made
        BY <2>1, <2>9, <4>1, <4>2 DEF Holds
      <4>4. Holds(h[u], u)'
        BY <1>1, <3>3, <3>4, <4>1, <4>2 DEF Holds
      <4>5. TargetOf(k)'.nvrs \cap updates[u].made = {}
        BY <2>10, <4>3
      <4>6. \A m \in DOMAIN tasks : m # k /\ Creates(m)' => TargetOf(m)'.nvrs \cap updates[u].made = {}
        BY <2>11, <4>1
      <4> QED
        BY <4>4, <4>5, <4>6
    <3>6. HeldBy(missed, h)'
      BY <1>1, <3>2, <3>4, <3>5 DEF HeldBy
    <3> QED
      BY <1>1, <3>2, <3>6 DEF UpdatesHeld
  <2>14. UpdateTypes'
    BY <1>1, <2>7 DEF UpdateTypes
  <2>15. LostFew'
    <3>1. k \in Unsure' <=> e.pc \notin MadeAt /\ \E i \in OwnedBy(e) : targets'[i].status = "error"
      BY <1>1, <2>6, StepAlone
    <3>2. Accounted(k)
      BY <1>1, <2>4, <3>1 DEF Accounted, Unsure
    <3> QED
      BY <1>1, <2>7, <3>2, FewStay
  <2> QED
    BY <2>8, <2>12, <2>13, <2>14, <2>15 DEF UpdateInv
<1> QED
  BY <1>2, <1>3 DEF CheckNvrs

\* A task gives up its target, which may hold an update: that is lost then.
LEMMA GiveUpStep ==
    ASSUME UpdateInv, faults \in Nat, NEW k \in DOMAIN tasks, Made(k), NEW e, Step(k, e),
           e.pc \in {"new", "done"}, UNCHANGED <<updates, clock>>,
           lost' = lost + 1, faults' = faults + 1
    PROVE  UpdateInv'
<1>1. UpdateTypes /\ TasksTrue /\ CreatorsApart /\ UpdatesHeld /\ LostFew
      /\ tasks[k].pc \notin Early
  BY DEF UpdateInv, Made, Early
<1>2. /\ tasks[k] \in Task /\ tasks[k].target \in DOMAIN targets /\ Owned(k) = {tasks[k].target}
      /\ tasks[k].target \in 1..MaxTargets /\ tasks[k].given \in {0, tasks[k].target}
      /\ TargetOf(k) \in Target /\ TargetOf(k).status \in Taken
  BY <1>1, OwnTarget
<1>3. /\ Alone(k) /\ tasks' \in Seq(Task) /\ Len(tasks') = Len(tasks)
      /\ tasks'[k] = e /\ Owned(k)' = OwnedBy(e) /\ (Creates(k)' => e.pc = "create" /\ e.alias = 0)
  BY <1>1, StepAlone
<1>4. LostFew' /\ lost' \in Nat /\ lost \in Nat
  BY <1>1, <1>3, FewStay DEF Accounted, UpdateTypes
<1>5. UpdateTypes'
  BY <1>1, <1>3, <1>4 DEF UpdateTypes, Step, TargetsAfter
<1>6. TasksTrue'
  BY <1>1, <1>3, OthersTrue
<1>7. NoNewCreator(k) /\ OldUpdates /\ DOMAIN updates' = DOMAIN updates
  BY <1>3 DEF NoNewCreator, OldUpdates
<1>8. CreatorsApart'
  BY <1>1, <1>3, <1>7, CreatorsStay
<1>9. PICK missed \in SUBSET DOMAIN updates : \E h \in [DOMAIN updates -> 0..MaxTargets] :
        Cardinality(missed) <= lost /\ HeldBy(missed, h)
  BY <1>1 DEF UpdatesHeld
<1>10. PICK h \in [DOMAIN updates -> 0..MaxTargets] :
         Cardinality(missed) <= lost /\ HeldBy(missed, h)
  BY <1>9
<1>11. IsFiniteSet(missed) /\ Cardinality(missed) \in Nat
  <2>1. IsFiniteSet(DOMAIN updates)
    BY <1>1, UpdateDomains, FS_Interval
  <2> QED
    BY <2>1, FS_Subset, FS_CardinalityType
<1>12. \A i \in OwnedBy(e) : i \in DOMAIN targets => i = tasks[k].target
  BY <1>2 DEF Step
<1>13. \A u \in DOMAIN updates \ missed : h[u] \in DOMAIN targets
  BY <1>10 DEF HeldBy, Holds
<1>14. ASSUME NEW more \in SUBSET DOMAIN updates, missed \subseteq more,
              Cardinality(more) <= lost',
              \A u \in DOMAIN updates \ more : h[u] # tasks[k].target
       PROVE  UpdatesHeld'
  <2>1. GivesUpNone(k, h, more)
    BY <1>2, <1>3, <1>12, <1>13, <1>14 DEF GivesUpNone
  <2>2. OldHeld(h, more)
    BY <1>1, <1>3, <1>7, <1>10, <1>14, <2>1, StillHeld
  <2>3. HeldBy(more, h)'
    BY <1>3, <1>7, <2>2 DEF OldHeld, HeldBy, Alone
  <2> QED
    BY <1>7, <1>14, <2>3 DEF UpdatesHeld
<1>15. UpdatesHeld'
  <2>1. CASE \E w \in DOMAIN updates \ missed : h[w] = tasks[k].target
    <3>1. PICK w \in DOMAIN updates \ missed : h[w] = tasks[k].target
      BY <2>1
    <3>2. \A u \in DOMAIN updates \ missed : u # w => h[u] # h[w]
      BY <1>10 DEF HeldBy
    <3> DEFINE more == missed \cup {w}
    <3>3. Cardinality(more) <= lost'
      <4>1. Cardinality(more) = Cardinality(missed) + 1
        BY <1>11, <3>1, FS_AddElement
      <4> QED
        BY <1>4, <1>10, <1>11, <4>1
    <3>4. /\ more \in SUBSET DOMAIN updates /\ missed \subseteq more
          /\ \A u \in DOMAIN updates \ more : h[u] # tasks[k].target
      BY <3>1, <3>2
    <3> HIDE DEF more
    <3> QED
      BY <1>14, <3>3, <3>4
  <2>2. CASE \A w \in DOMAIN updates \ missed : h[w] # tasks[k].target
    <3>1. Cardinality(missed) <= lost'
      BY <1>4, <1>10, <1>11
    <3> QED
      BY <1>14, <2>2, <3>1
  <2> QED
    BY <2>1, <2>2
<1> QED
  BY <1>4, <1>5, <1>6, <1>8, <1>15 DEF UpdateInv

\* The worker dies: a task that was given its target loses it for the update it has made.
LEMMA CrashTaskStep ==
    ASSUME UpdateInv, faults \in Nat, NEW k \in DOMAIN tasks, CrashTask(k)
    PROVE  UpdateInv'
<1>1. UpdateTypes /\ TasksTrue /\ UNCHANGED <<targets, updates, clock>>
      /\ faults' = faults + 1 /\ tasks[k] \in Task /\ tasks[k].pc # "new"
      /\ Again(k, tasks[k].given, tasks[k].retries)
  BY UpdateDomains DEF UpdateInv, CrashTask
<1>2. tasks[k].given \in 0..MaxTargets /\ tasks[k].retries \in 0..MaxRetries
  BY <1>1 DEF Task
<1>3. tasks[k].given # 0 => /\ tasks[k].given \in Owned(k) /\ tasks[k].given \in DOMAIN targets'
                            /\ targets'[tasks[k].given].status \in Taken
  BY <1>1 DEF Owned, TasksTrue, TaskTrue
<1>4. PICK e : Step(k, e) /\ OwnedBy(e) = {tasks[k].given} \ {0} /\ e.pc = "new"
  BY <1>1, <1>2, <1>3, TargetsStay, AgainEntry
<1>5. CASE tasks[k].given # 0 /\ Made(k)
  <2>1. lost' = lost + 1
    BY <1>5 DEF CrashTask
  <2> QED
    BY <1>1, <1>4, <1>5, <2>1, GiveUpStep
<1>6. CASE ~(tasks[k].given # 0 /\ Made(k))
  <2>1. lost' = lost
    BY <1>6 DEF CrashTask
  <2>2. clock' \in Nat
    BY <1>1 DEF UpdateTypes
  <2>3. Quiet(k, e)
    BY <1>1, <1>4, <1>6, <2>1, <2>2 DEF Quiet, Gentle, TargetOf
  <2> QED
    BY <1>4, <2>3, QuietStep
<1> QED
  BY <1>5, <1>6

\* A new update is held by the target of its task, or lost.
LEMMA NewUpdate ==
    ASSUME UpdateInv, faults \in Nat, NEW k \in DOMAIN tasks, tasks[k].pc = "create",
           NEW e, Step(k, e), OwnedBy(e) \subseteq {tasks[k].target}, e.pc # "create",
           Len(updates) < MaxTargets,
           updates' = Append(updates, [made |-> TargetOf(k).nvrs, has |-> TargetOf(k).nvrs]),
           clock' = clock, Accounted(k),
           \/ Creates(k) /\ e.pc \in MadeAt /\ targets' = targets /\ lost' = lost
           \/ lost' = lost + 1
    PROVE  UpdateInv'
<1>1. UpdateTypes /\ TasksTrue /\ CreatorsApart /\ UpdatesHeld /\ LostFew
      /\ tasks[k].pc \notin Early /\ ~Made(k)
  BY DEF UpdateInv, Early, Made
<1>2. /\ tasks[k].target \in DOMAIN targets /\ Owned(k) = {tasks[k].target}
      /\ tasks[k].target \in 1..MaxTargets /\ tasks[k].given \in {0, tasks[k].target}
      /\ TargetOf(k) \in Target
  BY <1>1, OwnTarget
<1>3. /\ Alone(k) /\ tasks' \in Seq(Task) /\ Len(tasks') = Len(tasks)
      /\ tasks'[k] = e /\ Owned(k)' = OwnedBy(e) /\ (Made(k)' <=> e.pc \in MadeAt)
      /\ (Creates(k)' => e.pc = "create" /\ e.alias = 0)
  BY <1>1, StepAlone
<1>24. LostFew' /\ lost' \in Nat
  BY <1>1, <1>3, FewStay
<1> DEFINE r == [made |-> TargetOf(k).nvrs, has |-> TargetOf(k).nvrs]
<1>4. r \in UpdateRecord /\ r.made = TargetOf(k).nvrs
  BY <1>2 DEF UpdateRecord, Target
<1>5. updates \in Seq(UpdateRecord) /\ updates' = Append(updates, r)
  BY <1>1 DEF UpdateTypes
<1> HIDE DEF r
<1> PICK n : n = Len(updates) + 1
  OBVIOUS
<1>6. /\ updates' \in Seq(UpdateRecord) /\ Len(updates') = n /\ Len(updates) \in Nat
      /\ DOMAIN updates = 1..Len(updates) /\ DOMAIN updates' = 1..n /\ updates'[n] = r
      /\ \A u \in DOMAIN updates : u \in DOMAIN updates' /\ updates'[u] = updates[u]
  BY <1>4, <1>5, Extend
<1>7. \A u \in DOMAIN updates' : u \in DOMAIN updates \/ u = n
  BY <1>6
<1>8. n \in DOMAIN updates' /\ n \notin DOMAIN updates /\ updates'[n].made = TargetOf(k).nvrs
  BY <1>4, <1>6
<1>9. UpdateTypes'
  BY <1>1, <1>3, <1>6, <1>24, Constants DEF UpdateTypes, Step, TargetsAfter
<1>10. TasksTrue'
  BY <1>1, <1>3, OthersTrue
<1>11. NoNewCreator(k) /\ OldUpdates
  BY <1>3, <1>6 DEF NoNewCreator, OldUpdates
<1>12. CreatorsApart'
  BY <1>1, <1>3, <1>11, CreatorsStay
<1>13. PICK missed \in SUBSET DOMAIN updates : \E h \in [DOMAIN updates -> 0..MaxTargets] :
         Cardinality(missed) <= lost /\ HeldBy(missed, h)
  BY <1>1 DEF UpdatesHeld
<1>14. PICK h \in [DOMAIN updates -> 0..MaxTargets] :
         Cardinality(missed) <= lost /\ HeldBy(missed, h)
  BY <1>13
<1>15. IsFiniteSet(missed) /\ Cardinality(missed) \in Nat /\ lost \in Nat
  <2>1. IsFiniteSet(DOMAIN updates)
    BY <1>1, UpdateDomains, FS_Interval
  <2> QED
    BY <1>1, <2>1, FS_Subset, FS_CardinalityType DEF UpdateTypes
<1>16. \A u \in DOMAIN updates \ missed :
         h[u] # tasks[k].target /\ (Creates(k) => TargetOf(k).nvrs \cap updates[u].made = {})
  <2>1. \A u \in DOMAIN updates \ missed :
          Holds(h[u], u) /\ (Creates(k) => TargetOf(k).nvrs \cap updates[u].made = {})
    BY <1>14 DEF HeldBy
  <2> QED
    BY <1>1, <1>2, <2>1 DEF Holds
<1>17. GivesUpNone(k, h, missed)
  BY <1>2, <1>3, <1>16 DEF GivesUpNone
<1>18. OldHeld(h, missed)
  BY <1>1, <1>3, <1>11, <1>14, <1>17, StillHeld
<1>19. DOMAIN tasks' = DOMAIN tasks /\ \A u \in DOMAIN updates : updates'[u].made = updates[u].made
  BY <1>3, <1>6 DEF Alone
<1> DEFINE g == [u \in DOMAIN updates' |-> IF u = n THEN tasks[k].target ELSE h[u]]
<1>20. /\ \E f \in [DOMAIN updates' -> 0..MaxTargets] :
            f[n] = tasks[k].target /\ \A u \in DOMAIN updates : f[u] = h[u]
  <2>1. g \in [DOMAIN updates' -> 0..MaxTargets]
    BY <1>2, <1>7, Constants
  <2>2. g[n] = tasks[k].target /\ \A u \in DOMAIN updates : g[u] = h[u]
    BY <1>6, <1>8
  <2> HIDE DEF g
  <2> QED
    BY <2>1, <2>2
<1>21. PICK f \in [DOMAIN updates' -> 0..MaxTargets] :
         f[n] = tasks[k].target /\ \A u \in DOMAIN updates : f[u] = h[u]
  BY <1>20
<1> HIDE DEF g
<1>22. CASE lost' = lost + 1
  <2> DEFINE more == missed \cup {n}
  <2>1. more \in SUBSET DOMAIN updates'
    BY <1>6, <1>8
  <2>2. Cardinality(more) <= lost'
    <3>1. Cardinality(more) = Cardinality(missed) + 1
      BY <1>8, <1>15, FS_AddElement
    <3> QED
      BY <1>14, <1>15, <1>22, <3>1
  <2>3. \A u \in DOMAIN updates' \ more : u \in DOMAIN updates \ missed
    BY <1>7
  <2> HIDE DEF more
  <2>4. HeldBy(more, f)'
    BY <1>18, <1>19, <1>21, <2>3 DEF HeldBy, OldHeld
  <2>5. UpdatesHeld'
    BY <1>21, <2>1, <2>2, <2>4 DEF UpdatesHeld
  <2> QED
    BY <1>9, <1>10, <1>12, <1>24, <2>5 DEF UpdateInv
<1>23. CASE Creates(k) /\ e.pc \in MadeAt /\ targets' = targets /\ lost' = lost
  <2>1. Cardinality(missed) <= lost' /\ missed \in SUBSET DOMAIN updates'
    BY <1>6, <1>14, <1>23
  <2>2. Holds(f[n], n)'
    <3>1. \A m \in DOMAIN tasks : tasks[k].target \in Owned(m)' => Made(m)'
      <4>1. \A m \in DOMAIN tasks : m # k => tasks[k].target \notin Owned(m)
        BY <1>1, <1>2 DEF TasksTrue, OneOwner
      <4>2. \A m \in DOMAIN tasks : m # k => Owned(m)' = Owned(m)
        BY <1>3 DEF Alone, Owned
      <4> QED
        BY <1>3, <1>23, <4>1, <4>2
    <3>2. /\ tasks[k].target \in DOMAIN targets' /\ targets'[tasks[k].target] = TargetOf(k)
          /\ updates'[n].made = TargetOf(k).nvrs
      BY <1>2, <1>8, <1>23 DEF TargetOf
    <3>3. TargetOf(k).status \in Open
      BY <1>23 DEF Creates
    <3> QED
      BY <1>2, <1>19, <1>21, <3>1, <3>2, <3>3 DEF Holds
  <2>3. HeldBy(missed, f)'
    <3>1. ASSUME NEW u \in DOMAIN updates \ missed
          PROVE  /\ Holds(f[u], u)' /\ f[u] # f[n] /\ updates'[u].made \cap updates'[n].made = {}
                 /\ \A x \in DOMAIN updates \ missed :
                      x # u => f[x] # f[u] /\ updates'[u].made \cap updates'[x].made = {}
                 /\ \A m \in DOMAIN tasks : Creates(m)' => TargetOf(m)'.nvrs \cap updates'[u].made = {}
      BY <1>8, <1>16, <1>18, <1>19, <1>21, <1>23 DEF OldHeld
    <3>2. Holds(f[n], n)'
      BY <2>2
    <3>3. \A m \in DOMAIN tasks : Creates(m)' => TargetOf(m)'.nvrs \cap updates'[n].made = {}
      <4> SUFFICES ASSUME NEW m \in DOMAIN tasks, Creates(m)'
                   PROVE  TargetOf(m)'.nvrs \cap TargetOf(k).nvrs = {}
        BY <1>8
      <4>1. m # k
        BY <1>3
      <4>2. Creates(m) /\ TargetOf(m)'.nvrs = TargetOf(m).nvrs
        BY <1>1, <1>3, <4>1, SameBuilds DEF Alone
      <4> QED
        BY <1>1, <1>23, <4>1, <4>2 DEF CreatorsApart
    <3>4. \A u \in DOMAIN updates' \ missed : u \in DOMAIN updates \ missed \/ u = n
      BY <1>7
    <3> QED
      BY <1>19, <3>1, <3>2, <3>3, <3>4 DEF HeldBy
  <2>4. UpdatesHeld'
    BY <1>21, <2>1, <2>3 DEF UpdatesHeld
  <2> QED
    BY <1>9, <1>10, <1>12, <1>24, <2>4 DEF UpdateInv
<1> QED
  BY <1>22, <1>23

LEMMA EditedUpdates ==
    ASSUME UpdateTypes, NEW k, TargetOf(k) \in Target, tasks[k].alias # 0, Save(k)
    PROVE  SameUpdates
<1> DEFINE x == tasks[k].alias
           r == [updates[x] EXCEPT !.has = TargetOf(k).nvrs]
<1>1. updates' = [updates EXCEPT ![x] = r] /\ updates \in Seq(UpdateRecord)
  BY DEF Save, UpdateTypes
<1>2. CASE x \in DOMAIN updates
  <2>1. updates[x] \in UpdateRecord /\ TargetOf(k).nvrs \in SUBSET Nvrs
    BY <1>2, UpdateDomains DEF Target
  <2>2. r \in UpdateRecord /\ r.made = updates[x].made
    BY <2>1 DEF UpdateRecord
  <2> HIDE DEF r, x
  <2>3. /\ updates' \in Seq(UpdateRecord) /\ Len(updates') = Len(updates)
        /\ DOMAIN updates' = DOMAIN updates /\ updates'[x] = r
        /\ \A u \in DOMAIN updates : u # x => updates'[u] = updates[u]
    BY <1>1, <1>2, <2>2, Replace
  <2> QED
    BY <2>2, <2>3 DEF SameUpdates
<1>3. CASE x \notin DOMAIN updates
  <2> HIDE DEF r, x
  <2>1. updates' = updates
    <3>1. updates = [u \in DOMAIN updates |-> updates[u]]
      BY <1>1, LenProperties
    <3> QED
      BY <1>1, <1>3, <3>1
  <2> QED
    BY <1>1, <2>1 DEF SameUpdates
<1> QED
  BY <1>2, <1>3

LEMMA CreateUpdateStep ==
    ASSUME UpdateInv, faults \in Nat, faults' = faults, NEW k \in DOMAIN tasks, create_update(k)
    PROVE  UpdateInv'
<1>1. UpdateTypes /\ TasksTrue /\ tasks[k].pc = "create" /\ Save(k) /\ Len(updates) < MaxTargets
      /\ UNCHANGED <<targets, clock>> /\ tasks[k].pc \notin Early /\ ~Made(k)
  BY DEF UpdateInv, create_update, TaskAt, Early, Made
<1>2. /\ tasks[k] \in Task /\ tasks[k].target \in DOMAIN targets /\ Owned(k) = {tasks[k].target}
      /\ tasks[k].target \in 1..MaxTargets /\ tasks[k].given \in {0, tasks[k].target}
      /\ TargetOf(k) \in Target /\ TargetOf(k).status \in Taken
  BY <1>1, OwnTarget
<1> DEFINE alias == IF tasks[k].alias = 0 THEN Len(updates) + 1 ELSE tasks[k].alias
           e == [tasks[k] EXCEPT !.pc = "made", !.alias = alias]
<1>3. tasks' = [tasks EXCEPT ![k] = e]
  BY DEF create_update
<1>4. alias \in 0..MaxTargets
  <2>1. tasks[k].alias \in 0..MaxTargets /\ Len(updates) \in Nat
    BY <1>1, <1>2, UpdateDomains DEF Task
  <2> QED
    BY <1>1, <2>1, Constants
<1> HIDE DEF alias
<1>5. e \in Task /\ e.pc = "made" /\ e.target = tasks[k].target /\ e.given = tasks[k].given
  BY <1>2, <1>4 DEF Task
<1> HIDE DEF e
<1>6. OwnedBy(e) = {tasks[k].target} /\ e.pc \in MadeAt
  BY <1>2, <1>5, Constants DEF OwnedBy, MadeAt
<1>7. EntryTrue(e)
  BY <1>1, <1>2, <1>5, <1>6, Constants DEF EntryTrue, TargetOf, Early
<1>8. Step(k, e)
  BY <1>1, <1>2, <1>3, <1>5, <1>6, <1>7, TargetsStay DEF Step
<1>9. k \notin Unsure' /\ e.pc # "create"
  <2>1. k \in Unsure' <=> e.pc \notin MadeAt /\ \E i \in OwnedBy(e) : targets'[i].status = "error"
    BY <1>1, <1>8, StepAlone
  <2> QED
    BY <1>5, <1>6, <2>1
<1>10. CASE tasks[k].alias = 0 /\ TargetOf(k).status # "error"
  <2>1. /\ Creates(k) /\ lost' = lost
        /\ updates' = Append(updates, [made |-> TargetOf(k).nvrs, has |-> TargetOf(k).nvrs])
    BY <1>1, <1>2, <1>10 DEF Creates, Save, Taken, create_update
  <2>2. Accounted(k)
    BY <1>9, <2>1 DEF Accounted
  <2> QED
    BY <1>1, <1>6, <1>8, <1>9, <2>1, <2>2, NewUpdate
<1>11. CASE tasks[k].alias = 0 /\ TargetOf(k).status = "error"
  <2>1. /\ lost' = lost + 1
        /\ updates' = Append(updates, [made |-> TargetOf(k).nvrs, has |-> TargetOf(k).nvrs])
    BY <1>1, <1>11 DEF Save, create_update
  <2>2. k \in Unsure
    BY <1>1, <1>2, <1>11 DEF Unsure, TargetOf
  <2>3. Accounted(k)
    BY <1>9, <2>1, <2>2 DEF Accounted
  <2> QED
    BY <1>1, <1>6, <1>8, <1>9, <2>1, <2>3, NewUpdate
<1>12. CASE tasks[k].alias # 0
  <2>1. SameUpdates /\ lost' = lost /\ clock' \in Nat
    BY <1>1, <1>2, <1>12, EditedUpdates DEF create_update, UpdateTypes
  <2>2. Gentle(k, e)
    BY <1>1, <1>5, <1>6, <2>1 DEF Gentle, Calm
  <2> QED
    BY <1>1, <1>8, <2>1, <2>2, EditStep
<1> QED
  BY <1>10, <1>11, <1>12

\* Bodhi makes or edits the update, and Packit does not know.
LEMMA SavedStep ==
    ASSUME UpdateInv, faults \in Nat, NEW k \in DOMAIN tasks, tasks[k].pc = "create",
           Len(updates) < MaxTargets, Save(k), clock' = clock,
           faults' = faults + 1, lost' = lost + 1,
           NEW e, Step(k, e), OwnedBy(e) \subseteq {tasks[k].target}, e.pc \in {"new", "done"}
    PROVE  UpdateInv'
<1>1. UpdateTypes /\ TasksTrue /\ tasks[k].pc \notin Early /\ ~Made(k)
  BY DEF UpdateInv, Early, Made
<1>2. TargetOf(k) \in Target /\ clock' \in Nat
  BY <1>1, OwnTarget DEF UpdateTypes
<1>3. CASE tasks[k].alias = 0
  <2>1. updates' = Append(updates, [made |-> TargetOf(k).nvrs, has |-> TargetOf(k).nvrs])
    BY <1>3 DEF Save
  <2>2. e.pc # "create" /\ Accounted(k)
    BY DEF Accounted
  <2> QED
    BY <2>1, <2>2, NewUpdate
<1>4. CASE tasks[k].alias # 0
  <2>1. SameUpdates
    BY <1>1, <1>2, <1>4, EditedUpdates
  <2>2. Gentle(k, e)
    BY <1>1, <1>2 DEF Gentle
  <2> QED
    BY <2>1, <2>2, EditStep
<1> QED
  BY <1>3, <1>4

LEMMA AnswerLostStep ==
    ASSUME UpdateInv, faults \in Nat, NEW k \in DOMAIN tasks, AnswerLost(k)
    PROVE  UpdateInv'
<1>1. tasks[k].pc = "create" /\ Save(k) /\ Len(updates) < MaxTargets
      /\ clock' = clock /\ Failed(k) /\ faults' = faults + 1 /\ lost' = lost + 1
  BY DEF AnswerLost, TaskAt
<1>2. PICK e : Step(k, e) /\ OwnedBy(e) \subseteq {tasks[k].target} /\ e.pc \in {"new", "done"}
  BY <1>1, RetryEntry DEF UpdateInv, Early
<1> QED
  BY <1>1, <1>2, SavedStep

\* An exception: the update that Bodhi has is lost, and so may be one that a retry makes.
LEMMA RaisesStep ==
    ASSUME UpdateInv, faults \in Nat, NEW k \in DOMAIN tasks, Raises(k)
    PROVE  UpdateInv'
<1>1. UpdateTypes /\ TasksTrue /\ tasks[k] \in Task /\ tasks[k].pc # "done"
      /\ clock' = clock /\ clock \in Nat /\ faults' = faults + 1
  BY UpdateDomains DEF UpdateInv, UpdateTypes, Raises, TaskAt
<1>2. /\ TargetsAfter(k)
      /\ \A i \in Owned(k) : i \in DOMAIN targets' /\ targets'[i].status \in Taken
  <2>1. \A i \in Owned(k) : i \in DOMAIN targets /\ targets[i].status \in Taken
    BY <1>1 DEF TasksTrue, TaskTrue
  <2>2. CASE tasks[k].target = 0
    <3>1. targets' = targets
      BY <2>2 DEF Raises
    <3> QED
      BY <1>1, <2>1, <3>1, TargetsStay
  <2>3. CASE tasks[k].target # 0
    <3>1. SetStatus(k, "error")
      BY <2>3 DEF Raises
    <3>2. tasks[k].pc \notin Early
      BY <1>1, <2>3 DEF TasksTrue, TaskTrue, Owned, Early
    <3>3. /\ TargetsAfter(k) /\ targets'[tasks[k].target].status = "error"
          /\ DOMAIN targets' = DOMAIN targets
      BY <1>1, <3>1, <3>2, StatusSet DEF Taken
    <3>4. Owned(k) = {tasks[k].target}
      BY <1>1, <3>2, OwnTarget
    <3> QED
      BY <2>1, <3>3, <3>4 DEF Taken
  <2> QED
    BY <2>2, <2>3
<1>3. PICK e : Step(k, e) /\ OwnedBy(e) \subseteq {tasks[k].given} \ {0} /\ e.pc \in {"new", "done"}
  <2>1. CASE DoneTask(k)
    BY <1>1, <1>2, <2>1, DoneEntry
  <2>2. CASE tasks[k].retries < MaxRetries /\ Again(k, tasks[k].given, tasks[k].retries + 1)
    <3>1. tasks[k].retries \in 0..MaxRetries /\ tasks[k].given \in 0..MaxTargets
      BY <1>1 DEF Task
    <3>2. tasks[k].retries + 1 \in 0..MaxRetries
      BY <2>2, <3>1, Constants
    <3>3. tasks[k].given # 0 => tasks[k].given \in Owned(k)
      BY DEF Owned
    <3> QED
      BY <1>1, <1>2, <2>2, <3>1, <3>2, <3>3, AgainEntry
  <2> QED
    BY <2>1, <2>2 DEF Raises
<1>4. CASE UNCHANGED updates /\ Made(k)
  <2>1. lost' = lost + 1
    BY <1>4 DEF Raises, TaskAt, Made
  <2> QED
    BY <1>1, <1>3, <1>4, <2>1, GiveUpStep
<1>5. CASE UNCHANGED updates /\ ~Made(k)
  <2>1. lost' \in {lost, lost + 1}
    BY <1>5 DEF Raises
  <2>2. Quiet(k, e)
    BY <1>1, <1>3, <1>5, <2>1 DEF Quiet, Gentle
  <2> QED
    BY <1>3, <2>2, QuietStep
<1>6. CASE TaskAt(k, "create") /\ Len(updates) < MaxTargets /\ Save(k) /\ lost' = lost + 1
  <2>1. tasks[k].pc = "create" /\ tasks[k].given \in {0, tasks[k].target}
    BY <1>1, <1>6, OwnTarget DEF TaskAt, Early
  <2> QED
    BY <1>1, <1>3, <1>6, <2>1, SavedStep
<1> QED
  BY <1>4, <1>5, <1>6 DEF Raises

-----------------------------------------------------------------------------
(* What get_or_create_sidetag promises                                     *)

Got == {<<c, calls[c].tag>> : c \in {d \in DOMAIN calls : At(d, "have")}}

\* A tag that is being made is newer than the one of the row, which nobody changes.
Newer == \A c \in DOMAIN calls : At(c, "made") => koji_name < calls[c].tag

PromiseInv == SidetagInv /\ Newer /\ Len(calls) <= MaxCalls

SameTag == UNCHANGED koji_name /\ Exists(koji_name)' = Exists(koji_name)
PromiseKept == SameTag /\ Got' = Got /\ Newer'

\* Calls that have done nothing yet have got nothing.
LEMMA NothingGot ==
    ASSUME Newer, UNCHANGED <<koji_name, tags>>,
           \A c \in DOMAIN calls : c \in DOMAIN calls' /\ calls'[c] = calls[c],
           \A c \in DOMAIN calls' : c \in DOMAIN calls \/ calls'[c].pc = "new"
    PROVE  PromiseKept
<1>1. SameTag
  BY DEF SameTag, Exists
<1>2. Got' = Got
  BY DEF Got, At
<1>3. Newer'
  BY DEF Newer, At
<1> QED
  BY <1>1, <1>2, <1>3 DEF PromiseKept

\* One call goes on.
LEMMA OneCallGot ==
    ASSUME NEW c \in DOMAIN calls, DOMAIN calls' = DOMAIN calls,
           \A d \in DOMAIN calls : d # c => calls'[d] = calls[d]
    PROVE  /\ calls'[c].pc # "have" => Got' = {g \in Got : g[1] # c}
           /\ calls[c].pc # "have" /\ calls'[c].pc = "have" =>
                /\ Got' = Got \cup {<<c, calls'[c].tag>>}
                /\ \A g \in Got : g[1] # c
  BY DEF Got, At

\* A call goes on that has not got, and does not get, the sidetag; or it is done.
LEMMA CallLeaves ==
    ASSUME PromiseInv, SameTag, NEW c \in DOMAIN calls, DOMAIN calls' = DOMAIN calls,
           \A d \in DOMAIN calls : d # c => calls'[d] = calls[d],
           calls'[c].pc # "have", calls'[c].pc = "made" => koji_name < calls'[c].tag,
           Len(calls') = Len(calls)
    PROVE  Newer' /\ Len(calls') <= MaxCalls /\ Promised!Next
<1>1. Newer'
  BY DEF PromiseInv, Newer, At, SameTag
<1>2. Got' = {g \in Got : g[1] # c}
  BY OneCallGot
<1>3. Promised!Leave(c)
  BY <1>2 DEF Promised!Leave, Got, SameTag
<1>4. c \in 1..MaxCalls /\ Len(calls') <= MaxCalls
  BY Domains, Constants DEF PromiseInv, SidetagInv
<1> QED
  BY <1>1, <1>3, <1>4 DEF Promised!Next

\* The rest of SELECT ... FOR UPDATE, and what callers do with the sidetag.
LEMMA LeavingSteps ==
    ASSUME PromiseInv, NEW c \in DOMAIN calls,
           \/ Lock(c) \/ CreateSidetag(c) \/ CreateFails(c) \/ CreateLost(c)
           \/ Build(c) \/ TagBuild(c) \/ Crash(c)
    PROVE  Newer' /\ Len(calls') <= MaxCalls /\ Promised!Next
<1>1. /\ DOMAIN calls = 1..Len(calls) /\ Len(calls) \in Nat /\ calls \in Seq(Call)
      /\ MaxTags \in Nat /\ Len(tags) \in Nat /\ Len(tags) <= MaxTags /\ tags \in Seq(Tag)
      /\ koji_name \in 0..Len(tags) /\ DOMAIN tags = 1..Len(tags)
  BY Domains, Constants DEF PromiseInv, SidetagInv, SidetagTypes
<1>2. ASSUME NEW pc \in {"new", "locked", "made"}, NEW t \in 0..MaxTags, Goto(c, pc, t),
             pc = "made" => koji_name < t, SameTag
      PROVE  Newer' /\ Len(calls') <= MaxCalls /\ Promised!Next
  <2>1. /\ calls' \in Seq(Call) /\ Len(calls') = Len(calls) /\ DOMAIN calls' = DOMAIN calls
        /\ calls'[c].pc = pc /\ calls'[c].tag = t
        /\ \A d \in DOMAIN calls : d # c => calls'[d] = calls[d]
    BY <1>1, <1>2, GotoCall
  <2> QED
    BY <1>2, <2>1, CallLeaves
<1>3. ASSUME Done(c), SameTag
      PROVE  Newer' /\ Len(calls') <= MaxCalls /\ Promised!Next
  <2>1. /\ calls' \in Seq(Call) /\ Len(calls') = Len(calls) /\ DOMAIN calls' = DOMAIN calls
        /\ calls'[c].pc = "done" /\ \A d \in DOMAIN calls : d # c => calls'[d] = calls[d]
    BY <1>1, <1>3, DoneCall
  <2> QED
    BY <1>3, <2>1, CallLeaves
<1>4. CASE Lock(c) \/ Crash(c)
  <2>1. SameTag /\ \E pc \in {"new", "locked"} : Goto(c, pc, 0)
    BY <1>4 DEF Lock, Crash, SameTag, Exists
  <2> QED
    BY <1>1, <1>2, <2>1
<1>5. CASE CreateFails(c)
  BY <1>3, <1>5 DEF CreateFails, SameTag, Exists
<1>6. CASE CreateSidetag(c) \/ CreateLost(c)
  <2> DEFINE e == [live |-> TRUE, builds |-> {}]
  <2>1. tags' = Append(tags, e) /\ Len(tags) < MaxTags /\ UNCHANGED koji_name
        /\ (Goto(c, "made", Len(tags) + 1) \/ Done(c))
    BY <1>6 DEF CreateSidetag, CreateLost
  <2>2. e \in Tag
    BY DEF Tag
  <2> HIDE DEF e
  <2>3. \A t \in DOMAIN tags : tags'[t] = tags[t]
    BY <1>1, <2>1, <2>2, Extend
  <2>4. SameTag
    BY <1>1, <2>1, <2>3 DEF SameTag, Exists
  <2>5. Len(tags) + 1 \in 0..MaxTags /\ koji_name < Len(tags) + 1
    BY <1>1, <2>1
  <2> QED
    BY <1>2, <1>3, <2>1, <2>4, <2>5
<1>7. CASE Build(c) \/ TagBuild(c)
  <2>1. /\ Done(c) /\ UNCHANGED koji_name /\ calls[c].tag \in DOMAIN tags
        /\ tags' = tags \/ \E b : tags' = [tags EXCEPT ![calls[c].tag].builds = @ \cup {b}]
    BY <1>7 DEF Build, TagBuild, InSidetag, At, PromiseInv, SidetagInv, CallsTrue, CallTrue
  <2>2. \A t \in DOMAIN tags : tags'[t].live = tags[t].live
    <3>1. \A t \in DOMAIN tags : tags[t] \in Tag
      BY Domains DEF PromiseInv, SidetagInv
    <3> QED
      BY <2>1, <3>1 DEF Tag
  <2>3. SameTag
    BY <1>1, <2>1, <2>2 DEF SameTag, Exists
  <2> QED
    BY <1>3, <2>1, <2>3
<1> QED
  BY <1>4, <1>5, <1>6, <1>7

\* The tag that Koji has ...
LEMMA FoundGot ==
    ASSUME PromiseInv, NEW c \in DOMAIN calls, Found(c)
    PROVE  Newer' /\ Len(calls') <= MaxCalls /\ Promised!Next
<1>1. /\ DOMAIN calls = 1..Len(calls) /\ Len(calls) \in Nat /\ calls \in Seq(Call)
      /\ MaxTags \in Nat /\ MaxCalls \in Nat /\ Len(tags) \in Nat /\ Len(tags) <= MaxTags
      /\ koji_name \in 0..Len(tags)
  BY Domains, Constants DEF PromiseInv, SidetagInv, SidetagTypes
<1>2. Goto(c, "have", koji_name) /\ calls[c].pc = "locked" /\ Exists(koji_name) /\ SameTag
  BY DEF Found, At, SameTag, Exists
<1>3. /\ Len(calls') = Len(calls) /\ DOMAIN calls' = DOMAIN calls
      /\ calls'[c].pc = "have" /\ calls'[c].tag = koji_name
      /\ \A d \in DOMAIN calls : d # c => calls'[d] = calls[d]
  BY <1>1, <1>2, GotoCall
<1>4. Got' = Got \cup {<<c, koji_name>>} /\ \A g \in Got : g[1] # c
  BY <1>2, <1>3, OneCallGot
<1>5. Promised!GetExisting(c)
  BY <1>2, <1>4 DEF Promised!GetExisting, Promised!Receive, Got, SameTag
<1>6. Newer' /\ Len(calls') <= MaxCalls /\ c \in 1..MaxCalls
  BY <1>1, <1>2, <1>3 DEF PromiseInv, Newer, At, SameTag
<1> QED
  BY <1>5, <1>6 DEF Promised!Next

\* ... or the one it has made, which is newer and takes the place of one that is gone.
LEMMA CommitGot ==
    ASSUME PromiseInv, NEW c \in DOMAIN calls, Commit(c)
    PROVE  Newer' /\ Len(calls') <= MaxCalls /\ Promised!Next
<1> DEFINE t == calls[c].tag
<1>1. /\ DOMAIN calls = 1..Len(calls) /\ Len(calls) \in Nat /\ calls \in Seq(Call)
      /\ MaxTags \in Nat /\ MaxCalls \in Nat /\ Len(tags) \in Nat /\ Len(tags) <= MaxTags
      /\ DOMAIN tags = 1..Len(tags) /\ \A x \in DOMAIN tags : tags[x] \in Tag
  BY Domains, Constants DEF PromiseInv, SidetagInv, SidetagTypes
<1>2. Goto(c, "have", t) /\ calls[c].pc = "made" /\ koji_name' = t /\ UNCHANGED tags
  BY DEF Commit, At
<1>3. /\ t \in DOMAIN tags /\ ~Exists(koji_name) /\ koji_name < t
      /\ \A d \in DOMAIN calls : d # c => calls[d].pc # "made"
  BY <1>2, OneHasTheRow DEF PromiseInv, SidetagInv, CallsTrue, CallTrue, Newer, At
<1> HIDE DEF t
<1>4. /\ Len(calls') = Len(calls) /\ DOMAIN calls' = DOMAIN calls
      /\ calls'[c].pc = "have" /\ calls'[c].tag = t
      /\ \A d \in DOMAIN calls : d # c => calls'[d] = calls[d]
  <2>1. t \in 0..MaxTags
    BY <1>1, <1>3
  <2> QED
    BY <1>1, <1>2, <2>1, GotoCall
<1>5. Got' = Got \cup {<<c, t>>} /\ \A g \in Got : g[1] # c
  BY <1>2, <1>4, OneCallGot
<1>6. Exists(koji_name)' \in BOOLEAN
  BY DEF Exists
<1>7. Promised!CreateNew(c, t)
  BY <1>2, <1>3, <1>5, <1>6 DEF Promised!CreateNew, Promised!Receive, Got
<1>8. Newer' /\ Len(calls') <= MaxCalls /\ c \in 1..MaxCalls /\ t \in 1..MaxTags
  BY <1>1, <1>2, <1>3, <1>4 DEF PromiseInv, Newer, At
<1> QED
  BY <1>7, <1>8 DEF Promised!Next

\* Koji removes the sidetag, or one that nobody will get.
LEMMA RemoveGot ==
    ASSUME PromiseInv, NEW t \in DOMAIN tags, RemoveSidetag(t)
    PROVE  Newer' /\ Len(calls') <= MaxCalls /\ Got' = Got /\ (SameTag \/ Promised!Next)
<1>1. /\ tags' = [tags EXCEPT ![t] = [live |-> FALSE, builds |-> {}]]
      /\ UNCHANGED <<koji_name, calls>>
  BY DEF RemoveSidetag
<1>2. Newer' /\ Len(calls') <= MaxCalls /\ Got' = Got
  BY <1>1 DEF PromiseInv, Newer, Got, At
<1>3. CASE t = koji_name
  <2>1. Exists(koji_name)' = FALSE
    BY <1>1, <1>3 DEF Exists
  <2>2. Promised!Remove
    BY <1>1, <1>2, <2>1 DEF Promised!Remove, Got
  <2> QED
    BY <1>2, <2>2 DEF Promised!Next
<1>4. CASE t # koji_name
  <2>1. SameTag
    BY <1>1, <1>4 DEF SameTag, Exists
  <2> QED
    BY <1>2, <2>1
<1> QED
  BY <1>3, <1>4

Promising == Newer' /\ Len(calls') <= MaxCalls /\ (Promised!Next \/ (SameTag /\ Got' = Got))

\* Each step is one of the promise, or none that the callers see.
LEMMA StepPromised == PromiseInv /\ [Next]_vars => Promising
<1> SUFFICES ASSUME PromiseInv, [Next]_vars PROVE Promising
  OBVIOUS
<1>1. /\ SidetagTypes /\ Newer /\ Len(calls) <= MaxCalls /\ Len(calls) \in Nat /\ MaxCalls \in Nat
  BY Domains, Constants DEF PromiseInv, SidetagInv
<1>2. CASE UNCHANGED <<koji_name, tags, calls>>
  <2>1. PromiseKept
    BY <1>1, <1>2, NothingGot
  <2> QED
    BY <1>1, <1>2, <2>1 DEF Promising, PromiseKept
<1>3. ASSUME NEW p \in Packages, Push(p) \/ TagComment(p) PROVE Promising
  <2>1. /\ Len(calls) < MaxCalls /\ UNCHANGED <<koji_name, tags>>
        /\ \E command \in {"build", "tag"} : calls' = Append(calls, NewCall(command, p))
    BY <1>3 DEF Push, TagComment
  <2>2. /\ Len(calls') = Len(calls) + 1
        /\ \A c \in DOMAIN calls : c \in DOMAIN calls' /\ calls'[c] = calls[c]
        /\ \A c \in DOMAIN calls' : c \in DOMAIN calls \/ calls'[c].pc = "new"
    BY <1>1, <2>1, AddCall
  <2>3. PromiseKept
    BY <1>1, <2>1, <2>2, NothingGot
  <2> QED
    BY <1>1, <2>1, <2>2, <2>3 DEF Promising, PromiseKept
<1>4. ASSUME NEW t, NEW p, KojiBuildTag(t, p) PROVE Promising
  <2>1. UNCHANGED <<koji_name, tags>>
    BY <1>4 DEF KojiBuildTag
  <2>2. /\ \A c \in DOMAIN calls : c \in DOMAIN calls' /\ calls'[c] = calls[c]
        /\ \A c \in DOMAIN calls' : c \in DOMAIN calls \/ calls'[c].pc = "new"
    BY <1>1, <1>4, AddCalls
  <2>3. Len(calls') <= MaxCalls
    BY <1>1, <1>4, AddCalls
  <2>4. PromiseKept
    BY <1>1, <2>1, <2>2, NothingGot
  <2> QED
    BY <2>3, <2>4 DEF Promising, PromiseKept
<1>5. ASSUME NEW c \in DOMAIN calls, Ask(c) PROVE Promising
  BY <1>5, LeavingSteps, FoundGot, CommitGot DEF Ask, Promising
<1>6. ASSUME NEW t \in DOMAIN tags, RemoveSidetag(t) PROVE Promising
  BY <1>6, RemoveGot DEF Promising
<1>7. CASE SidetagStep
  BY <1>3, <1>5, <1>6, <1>7, SidetagsAssumption DEF SidetagStep
<1>8. ASSUME NEW m \in announced, TagEvent(m[1], m[2]) PROVE Promising
  BY <1>4, <1>8 DEF TagEvent
<1>9. CASE Request
  BY <1>2, <1>9 DEF Request, sidetagVars
<1>10. ASSUME NEW k \in DOMAIN tasks, Update(k) PROVE Promising
  <2>1. UNCHANGED <<koji_name, tags, calls>>
    BY <1>10 DEF Update, Group, MakeTarget, GroupGiven, Raises, LookAlias, CheckNvrs, SetSkipped,
                 create_update, AlreadyCreated, UpdateFails, AnswerLost, SetSuccess, SetAlias,
                 SetTime, CrashTask, sidetagVars
  <2> QED
    BY <1>2, <2>1
<1>11. CASE UNCHANGED vars
  BY <1>2, <1>11 DEF vars, sidetagVars
<1> QED
  BY <1>7, <1>8, <1>9, <1>10, <1>11 DEF Next

-----------------------------------------------------------------------------
(* The theorems                                                            *)

IInv == SidetagInv /\ UpdateInv

LEMMA InitInv == UpdateInit => IInv
<1> SUFFICES ASSUME UpdateInit PROVE IInv
  OBVIOUS
<1>1. /\ tasks \in Seq(Task) /\ Len(tasks) = 0 /\ DOMAIN tasks = {}
      /\ targets \in Seq(Target) /\ Len(targets) = 0
      /\ updates \in Seq(UpdateRecord) /\ Len(updates) = 0 /\ DOMAIN updates = {}
      /\ clock = 0 /\ lost = 0 /\ faults = 0
  BY DEF UpdateInit, Init
<1>2. UpdateTypes
  BY <1>1, Constants DEF UpdateTypes
<1>3. TasksTrue /\ CreatorsApart
  BY <1>1 DEF TasksTrue, OneOwner, CreatorsApart
<1>5. LostFew
  <2>1. Unsure = {}
    BY <1>1 DEF Unsure
  <2> QED
    BY <1>1, <2>1, FS_EmptySet DEF LostFew
<1>4. UpdatesHeld
  <2> DEFINE h == [u \in DOMAIN updates |-> 0]
  <2>1. h \in [DOMAIN updates -> 0..MaxTargets]
    BY <1>1
  <2> HIDE DEF h
  <2>2. HeldBy({}, h)
    BY <1>1 DEF HeldBy
  <2>3. Cardinality({}) <= lost
    BY <1>1, FS_EmptySet
  <2>4. {} \in SUBSET DOMAIN updates
    OBVIOUS
  <2> QED
    BY <2>1, <2>2, <2>3, <2>4 DEF UpdatesHeld
<1> QED
  BY <1>2, <1>3, <1>4, <1>5, SidetagsInit DEF IInv, UpdateInv, UpdateInit

LEMMA UnchangedUpdates ==
    ASSUME UpdateInv, UNCHANGED updateVars, faults \in Nat, faults' \in Nat, faults <= faults'
    PROVE  UpdateInv'
<1> USE DEF updateVars
<1>1. UpdateTypes'
  BY DEF UpdateInv, UpdateTypes
<1>2. TasksTrue' /\ CreatorsApart'
  BY DEF UpdateInv, TasksTrue, OneOwner, TaskTrue, Owned, CreatorsApart, Creates, TargetOf
<1>3. UpdatesHeld'
  BY DEF UpdateInv, UpdatesHeld, HeldBy, Holds, Owned, Made, Creates, TargetOf
<1>4. LostFew'
  <2>1. Unsure' = Unsure
    BY DEF Unsure, Made, Owned
  <2>2. IsFiniteSet(Unsure)
    <3>1. IsFiniteSet(DOMAIN tasks)
      BY UpdateDomains, FS_Interval DEF UpdateInv
    <3>2. Unsure \subseteq DOMAIN tasks
      BY DEF Unsure
    <3> QED
      BY <3>1, <3>2, FS_Subset
  <2>3. Cardinality(Unsure) \in Nat /\ lost \in Nat
    BY <2>2, FS_CardinalityType DEF UpdateInv, UpdateTypes
  <2> QED
    BY <2>1, <2>3 DEF UpdateInv, LostFew
<1> QED
  BY <1>1, <1>2, <1>3, <1>4 DEF UpdateInv

LEMMA NextInv == IInv /\ [Next]_vars => IInv'
<1> SUFFICES ASSUME IInv, [Next]_vars PROVE IInv'
  OBVIOUS
<1>1. SidetagInv /\ UpdateInv /\ SidetagTypes /\ faults \in Nat /\ MaxFaults \in Nat
  BY Constants DEF IInv, SidetagInv, SidetagTypes
<1>2. SidetagInv' => faults' \in Nat
  BY Constants DEF SidetagInv, SidetagTypes
<1>3. CASE SidetagStep /\ UNCHANGED updateVars
  <2>1. SidetagInv'
    BY <1>1, <1>3, SidetagsNext DEF SidetagNext
  <2>2. faults <= faults'
    <3>1. ASSUME NEW c \in DOMAIN calls, Ask(c) PROVE faults' = faults \/ faults' = faults + 1
      BY <3>1 DEF Ask, Lock, Found, CreateSidetag, CreateFails, CreateLost, Commit, Build,
                  TagBuild, Crash
    <3>2. faults' = faults \/ faults' = faults + 1
      BY <1>3, <3>1 DEF SidetagStep, Push, TagComment, RemoveSidetag
    <3> QED
      BY <1>1, <3>2
  <2> QED
    BY <1>1, <1>2, <1>3, <2>1, <2>2, UnchangedUpdates DEF IInv
<1>4. ASSUME NEW m \in announced, TagEvent(m[1], m[2]) PROVE IInv'
  <2>1. KojiBuildTag(m[1], m[2]) /\ faults' = faults
    BY <1>4 DEF TagEvent, KojiBuildTag
  <2>2. SidetagInv'
    BY <1>1, <2>1, SidetagsNext DEF SidetagNext
  <2>3. ASSUME NEW b \in tags[m[1]].builds, b[1] = m[2], StartUpdate(TRUE, {b}) PROVE IInv'
    <3>1. tags[m[1]] \in Tag
      BY <1>1, <1>4, Domains DEF SidetagTypes
    <3>2. {b} \in SUBSET Nvrs
      BY <2>3, <3>1 DEF Tag
    <3> QED
      BY <1>1, <2>1, <2>2, <2>3, <3>2, StartStep DEF IInv
  <2>4. CASE UNCHANGED updateVars
    BY <1>1, <2>1, <2>2, <2>4, UnchangedUpdates DEF IInv
  <2> QED
    BY <1>4, <2>3, <2>4 DEF TagEvent
<1>5. CASE Request
  <2>1. UNCHANGED sidetagVars
    BY <1>5 DEF Request
  <2>2. SidetagInv' /\ faults' = faults
    BY <1>1, <2>1, SidetagsNext DEF SidetagNext, sidetagVars
  <2>3. PICK nvrs \in Requests : StartUpdate(nvrs = {}, nvrs)
    BY <1>5 DEF Request
  <2>4. nvrs \in SUBSET Nvrs
    BY BodhiAssumption
  <2> QED
    BY <1>1, <2>2, <2>3, <2>4, StartStep DEF IInv
<1>6. ASSUME NEW k \in DOMAIN tasks, Update(k) PROVE IInv'
  <2>1. UNCHANGED <<koji_name, lock, tags, version, calls, announced>>
        /\ (faults' = faults \/ (faults < MaxFaults /\ faults' = faults + 1))
    BY <1>6 DEF Update, Group, MakeTarget, GroupGiven, Raises, LookAlias, CheckNvrs, SetSkipped,
                create_update, AlreadyCreated, UpdateFails, AnswerLost, SetSuccess, SetAlias,
                SetTime, CrashTask, sidetagVars
  <2>2. SidetagInv' /\ faults' \in Nat
    BY <1>1, <1>2, <2>1, SidetagsNext DEF SidetagNext
  <2>3. UpdateInv'
    <3>1. CASE AnswerLost(k) \/ CrashTask(k) \/ Raises(k)
      BY <1>1, <3>1, AnswerLostStep, CrashTaskStep, RaisesStep
    <3>2. CASE \/ Group(k) \/ MakeTarget(k) \/ GroupGiven(k) \/ LookAlias(k) \/ CheckNvrs(k)
               \/ SetSkipped(k) \/ create_update(k) \/ AlreadyCreated(k) \/ UpdateFails(k)
               \/ SetSuccess(k) \/ SetAlias(k) \/ SetTime(k)
      <4>1. faults' = faults
        BY <3>2 DEF Group, MakeTarget, GroupGiven, LookAlias, CheckNvrs, SetSkipped,
                    create_update, AlreadyCreated, UpdateFails, SetSuccess, SetAlias,
                    SetTime, sidetagVars
      <4> QED
        BY <1>1, <3>2, <4>1, GroupSteps, MakeTargetStep, LookStep, CheckStep, SkippedStep, CreateUpdateStep,
           FailsStep, NamingSteps
    <3> QED
      BY <1>6, <3>1, <3>2 DEF Update
  <2> QED
    BY <2>2, <2>3 DEF IInv
<1>7. CASE UNCHANGED vars
  <2>1. UNCHANGED sidetagVars /\ UNCHANGED updateVars
    BY <1>7 DEF vars
  <2>2. SidetagInv' /\ faults' = faults
    BY <1>1, <2>1, SidetagsNext DEF SidetagNext, sidetagVars
  <2> QED
    BY <1>1, <2>1, <2>2, UnchangedUpdates DEF IInv
<1> QED
  BY <1>3, <1>4, <1>5, <1>6, <1>7 DEF Next

LEMMA Invariant == Spec => []IInv
<1>1. UpdateInit => IInv
  BY InitInv
<1>2. IInv /\ [Next]_vars => IInv'
  BY NextInv
<1> QED
  BY <1>1, <1>2, PTL DEF Spec

\* Every reachable state is well-typed; in particular no task gets more retries than
\* the limit, and no update is named that Bodhi cannot have.
THEOREM TypeCorrect == Spec => []TypeOK
<1>1. ASSUME UpdateInv, faults \in Nat PROVE lost \in 0..2 * faults
  <2>1. IsFiniteSet(DOMAIN tasks) /\ Unsure \subseteq DOMAIN tasks
    BY <1>1, UpdateDomains, FS_Interval DEF UpdateInv, Unsure
  <2>2. Cardinality(Unsure) \in Nat
    BY <2>1, FS_Subset, FS_CardinalityType
  <2> QED
    BY <1>1, <2>2 DEF UpdateInv, UpdateTypes, LostFew
<1>2. IInv => TypeOK
  BY <1>1, Constants DEF IInv, SidetagInv, SidetagTypes, UpdateInv, UpdateTypes, TypeOK, Tag, UpdateRecord
<1> QED
  BY <1>2, Invariant, PTL

\* Koji has one sidetag for the group, but for one for each task that died, or got no
\* answer, after Koji had made one (SELECT FOR UPDATE in get_or_create_sidetag), for any
\* number of workers.
THEOREM SidetagIsOne == Spec => []OneSidetag
<1>1. IInv => OneSidetag
  BY OneIsKnown DEF IInv
<1> QED
  BY <1>1, Invariant, PTL

\* No two updates are made with the same build, but for those that were lost, at most
\* two for each answer of Bodhi that was lost, each exception and each task that died
\* (LostFew): otherwise the queued targets are enough, for any number of tasks and
\* retries.
THEOREM UpdateIsOne == Spec => []OneUpdatePerBuild
<1>1. IInv => OneUpdatePerBuild
  <2> SUFFICES ASSUME UpdatesHeld PROVE OneUpdatePerBuild
    BY DEF IInv, UpdateInv
  <2>1. PICK missed \in SUBSET DOMAIN updates : \E h \in [DOMAIN updates -> 0..MaxTargets] :
          Cardinality(missed) <= lost /\ HeldBy(missed, h)
    BY DEF UpdatesHeld
  <2>2. PICK h \in [DOMAIN updates -> 0..MaxTargets] :
          Cardinality(missed) <= lost /\ HeldBy(missed, h)
    BY <2>1
  <2>3. \A u, x \in DOMAIN updates \ missed :
          u # x => updates[u].made \cap updates[x].made = {}
    BY <2>2 DEF HeldBy
  <2> QED
    BY <2>2, <2>3 DEF OneUpdatePerBuild
<1> QED
  BY <1>1, Invariant, PTL

\* get_or_create_sidetag is one step for those who call it, for any number of
\* packages, calls, tags and crashes: it gives them the sidetag that Koji has, or a
\* newer one in the place of one that Koji has no more.
THEOREM PromiseIsKept == Spec => ImplementsPromise
<1>1. UpdateInit => PromiseInv /\ Promised!Init
  <2> SUFFICES ASSUME UpdateInit PROVE PromiseInv /\ Promised!Init
    OBVIOUS
  <2>1. Init /\ SidetagInv /\ Len(calls) = 0 /\ DOMAIN calls = {} /\ koji_name = 0
    BY SidetagsInit DEF UpdateInit, Init
  <2>2. Got = {} /\ ~Exists(koji_name)
    BY <2>1 DEF Got, Exists
  <2>3. PromiseInv
    BY <2>1, Constants DEF PromiseInv, Newer
  <2> QED
    BY <2>1, <2>2, <2>3 DEF Promised!Init, Got
<1>2. IInv' /\ PromiseInv /\ [Next]_vars => PromiseInv' /\ [Promised!Next]_(Promised!vars)
  <2> SUFFICES ASSUME IInv', PromiseInv, [Next]_vars
               PROVE  PromiseInv' /\ [Promised!Next]_(Promised!vars)
    OBVIOUS
  <2>1. Promising
    BY StepPromised
  <2>2. PromiseInv'
    BY <2>1 DEF Promising, PromiseInv, IInv
  <2> QED
    BY <2>1, <2>2 DEF Promising, SameTag, Got, Promised!vars
<1>3. Spec => []IInv
  BY Invariant
<1> QED
  BY <1>1, <1>2, <1>3, PTL DEF Spec, ImplementsPromise, Promised!Spec
=============================================================================
