---------------------------- MODULE MCSyncRelease ----------------------------
(* Two releases in one event of Upstream Release Monitoring, all versions   *)
(* monitored.                                                               *)
EXTENDS SyncRelease
U(git, versions, all) == [git |-> git, versions |-> versions, included |-> versions, all |-> all]
MCUpstream == [new |-> U(FALSE, {1, 2}, TRUE)]
MCEvents == DOMAIN MCUpstream
=============================================================================
