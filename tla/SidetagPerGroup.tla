--------------------------- MODULE SidetagPerGroup ---------------------------
(***************************************************************************)
(* What get_or_create_sidetag promises: the caller "gets an existing       *)
(* sidetag or creates a new one if it doesn't exist either in the database *)
(* or in Koji", in one step and for one group and dist-git branch.         *)
(***************************************************************************)
EXTENDS Naturals

CONSTANTS Callers,
          Tags      \* numbers, in the order in which Koji makes the sidetags

VARIABLES sidetag,  \* the sidetag of the group, 0 for none
          exists,   \* Koji has it
          got       \* the callers that work with a sidetag: <<caller, sidetag>>
vars == <<sidetag, exists, got>>

Init == sidetag = 0 /\ exists = FALSE /\ got = {}

Receive(c, t) == (\A g \in got : g[1] # c) /\ got' = got \cup {<<c, t>>}

GetExisting(c) == exists /\ Receive(c, sidetag) /\ UNCHANGED <<sidetag, exists>>

\* Koji may have removed it again when the caller gets it.
CreateNew(c, t) ==
  /\ ~exists /\ t > sidetag
  /\ sidetag' = t /\ exists' \in BOOLEAN
  /\ Receive(c, t)

\* The caller is done, or has died.
Leave(c) == got' = {g \in got : g[1] # c} /\ UNCHANGED <<sidetag, exists>>

Remove == exists' = FALSE /\ UNCHANGED <<sidetag, got>>

Next ==
  \/ \E c \in Callers : GetExisting(c) \/ Leave(c)
  \/ \E c \in Callers, t \in Tags : CreateNew(c, t)
  \/ Remove

Spec == Init /\ [][Next]_vars
=============================================================================
