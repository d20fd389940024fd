--------------------------- MODULE MCBodhiUpdates ---------------------------
(* b needs a and is built whenever a gets into the sidetag; b has the job    *)
(* that makes the update.  The new version of a may also get one alone.      *)
EXTENDS BodhiUpdates
MCDependencies == [a |-> {}, b |-> {"a"}]
MCDependents == [a |-> {"b"}, b |-> {}]
MCStable == [a |-> 1, b |-> 1]
MCMaxVersion == [a |-> 2, b |-> 1]
MCRequests == {{<<"a", 2>>}}
\* Bounds: the calls start with a comment for a, then one for b, and builds come later;
\* updates start when the comments are done.
TagsFirst ==
  LET n == Len(calls')
      new == calls'[n]
  IN n > Len(calls) => /\ new.command = (IF n <= 2 THEN "tag" ELSE "build")
                       /\ n = 1 => new.pkg = "a"
UpdatesLast ==
  Len(tasks') > Len(tasks) => Len(calls) > 1 /\ \A c \in 1..2 : At(c, "done")
=============================================================================
