------------------------ MODULE MCIncidentRemediation ------------------------
(* Instances of IncidentRemediation for TLC.                               *)
EXTENDS IncidentRemediation, TLC

CONSTANTS c1, c2, a1, a2, i1, i2
=============================================================================
