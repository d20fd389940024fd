---------------------------- MODULE MCApprovals ----------------------------
(* One account, two GitHub users of whom one has a matching FAS account of  *)
(* another name, two tasks at a time, one death.                            *)
EXTENDS Approvals

CONSTANTS acc, host, ann, ben, fas1, t1, t2

MCMatching == {<<fas1, ann>>, <<ben, ben>>}
=============================================================================
