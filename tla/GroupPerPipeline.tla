--------------------------- MODULE GroupPerPipeline ---------------------------
(***************************************************************************)
(* What the create() methods of CoprBuildGroupModel and                    *)
(* TFTTestRunGroupModel promise their callers: each call attaches its      *)
(* group, in one step and for good, to a pipeline that has no group of     *)
(* that kind.                                                              *)
(***************************************************************************)
CONSTANTS BuildCalls, TestCalls, Pipelines, NULL

VARIABLE attached   \* the pipeline that carries the group of each call

Calls == BuildCalls \cup TestCalls

SameKind(v, w) == (v \in BuildCalls) <=> (w \in BuildCalls)

Init == attached = [w \in Calls |-> NULL]

Attach(w, p) ==
    /\ attached[w] = NULL
    /\ \A v \in Calls : SameKind(v, w) => attached[v] # p
    /\ attached' = [attached EXCEPT ![w] = p]

Next == \E w \in Calls, p \in Pipelines : Attach(w, p)

Spec == Init /\ [][Next]_attached
=============================================================================
