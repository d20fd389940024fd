----------------------------- MODULE MCKojiBuilds -----------------------------
(* Instances of KojiBuilds for TLC.                                        *)
EXTENDS KojiBuilds

OneNvr  == {1}
TwoNvrs == {1, 2}

===============================================================================
