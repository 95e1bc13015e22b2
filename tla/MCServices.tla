----------------------------- MODULE MCServices -----------------------------
(* TLC instances of Services.                                              *)
EXTENDS Services, TLC

CONSTANTS t0, t1, t2, u1

Symmetry == Permutations({t1, t2})

\* Runs that start while MPD plays.
PlayingInit == ServicesInit /\ player = "PLAY"
PlayingSpec == PlayingInit /\ [][ServicesNext]_servicesVars /\ Scheduled
=============================================================================
