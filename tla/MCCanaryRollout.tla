--------------------------- MODULE MCCanaryRollout ---------------------------
(* CanaryRollout on small instances: two services, one or two builds. *)
EXTENDS CanaryRollout

CONSTANTS alice, mallory, b1, b2

OneBuild == {b1}
TwoBuilds == {b1, b2}
=============================================================================
