------------------------- MODULE MCRenderingControl ------------------------
(* TLC instances of RenderingControl.                                      *)
EXTENDS RenderingControl, TLC

CONSTANTS t1, t2, u1

Symmetry == Permutations({t1, t2})

\* Runs that start with a volume one can hear.
AudibleInit == RCInit /\ mixer # 0
AudibleSpec == AudibleInit /\ [][RCNext]_allVars
=============================================================================
